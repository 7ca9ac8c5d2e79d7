# DocPilot, modelled and checked

DocPilot is a document assistant: a user uploads a PDF, a worker turns it into searchable
chunks, and the user asks questions that are answered with citations. This directory holds TLA+
models of the parts of it where several processes, retries and failures meet the same state and
of the algorithms between them, the TLC runs that check them on small instances, and TLAPS
proofs of what holds for every instance of the core, of the admission of uploads, of the rate limit and
of the scan login. Paths are relative to the repository.

Contents: [the system](#1-the-system), [the modules](#2-the-modules-and-the-code),
[the runs](#3-the-runs), [fairness](#4-fairness-and-stopping), [the proofs](#5-the-proofs),
[disagreements](#6-where-code-and-documents-disagree), [what is missing](#7-what-is-not-modelled),
[the plan](#8-the-plan).

## 1. The system

Three kinds of process share one PostgreSQL database, one Redis and one S3 store: API
processes (`apps/api`, Hono), worker processes (`apps/worker`, BullMQ) and clients
(`apps/web`, `apps/ios`, `apps/android`). They talk through HTTP, rows, a BullMQ queue, a Redis
channel per workspace, signed upload links and server-sent events. Nothing but single SQL
statements, short transactions, unique indexes and BullMQ's job locks orders them.

| Component | State | Operations | Talks to |
|---|---|---|---|
| Document pipeline | `documents`, `document_files`, `processing_jobs`, `document_chunks`, `notifications`, the BullMQ job of a document | create and complete upload, process (claim, stages, dedup copy, save, fail), retry, stall, reconcile, backfill, switch visibility | outbox, queue, store, AI gateway, notifications |
| Outbox publisher | `outbox_events`: status and lease; a tick's batch | claim a batch, deliver, confirm, release, reject, shut down | pipeline (rows written by its transactions), queue |
| Conversations | `messages` in pairs, `citations`; a handler's retrieved chunks | submit, replay, retry, retrieve, stream, validate, complete, fail | pipeline (chunks are replaced under it), quota, AI gateway, client stream |
| Account deletion, purge | `user.deletion_scheduled_at`, `pending_object_deletions` | request, cancel, purge round, drain round | pipeline (cascading deletes), store |
| Notifications | the bus's map of handlers, one subscriber connection, open streams | publish, subscribe, fan out, unsubscribe, snapshot, heartbeat; list, count, mark read | worker (pulses), clients |
| Quota, upload admission | aggregates of `documents` and of logged calls; a client's upload and its list | assert before upload or question; create with and without a key, PUT, confirm, poll | pipeline, conversations, store, clients |
| Rate limiting | a token bucket per key, in Redis or in memory | consume | every route |
| Device push | `push_devices`; a phone's token | register, rotate, unregister, send, drop refused tokens | worker, APNS and FCM, clients |
| Scan login | device codes and sessions (better-auth), a tab, phones | request, claim, approve, deny, poll, adopt, expire | web and iOS |
| Authentication and sessions | users, sessions, personal workspaces; login forms | code, password, providers, restore, sign out | clients |
| Worker stages | the text of one run | parse, clean, chunk, embed, summarise | pipeline |
| AI gateway, answer stream, citations | buffers of one call | generate, embed, stream, split the stream, match quotations | conversations, pipeline |
| Clients | caches, chat windows, bell and badge, PDF pages, highlights | upload, ask, listen, read, mark, sign in and out | API |
| Evaluation | a fixture in the database, a report | ingest, run cases, report, clean up | gateway, database |
| Profiles, public documents | `user_profiles`, `user_follows`, a page's queries in the browser | sign up with a drawn username, save, follow, unfollow, read a public profile, list or document | pipeline (visibility), purge (cascades), clients |
| Search, administration, health | rows of others | single statements | clients |

What makes each of the modelled ones hard, and what correctness means:

- **Pipeline.** Processing is at least once. The same job may run twice at the same time (a
  stalled lock), run again after it has finished (an unconfirmed delivery), or be failed without
  a run (stalled too often), while the reconciliation works on a listing it read earlier and the
  backfill and the owner change the row. Correct: whatever the interleaving, the outcome a user
  sees is complete (status, error, notification), a success is not turned into a failure by one
  step, a ready document can be searched, and every document comes to rest.
- **Outbox.** A publisher may crash, stall past its lease or get an error with or without effect
  at any call. Correct: every accepted event is handed over and confirmed or refused, outcomes
  are final, and neither several publishers nor a shutdown deliver twice or strand a lease.
- **Conversations.** Only a unique key on the question serialises two submissions; a retry
  resets the message by id; chunks may be replaced between retrieval and save. Correct: one
  generation per question, an answer stands, citations point to chunks that exist, the quota is
  overshot by a bounded amount, nothing stays pending.
- **Purge.** The user may cancel while a round runs; rounds overlap; the store is not part of the
  transaction. Correct: nobody is purged before the cooldown, no key is lost, no living account
  loses an object, and every object goes in the end.
- **Notifications.** Streams come and go while Redis commands are under way. Correct: the channel
  is subscribed exactly while someone listens, ended streams are not called, listeners hear.
- **Admission.** The quota is read before the row is inserted, the app repeats with a key, the
  browser without one, and every call may be lost either way. Correct: the overshoot is bounded by
  what is at work at once, a keyed file is one document, nothing waits for an upload but by a
  fault, and a document goes through the worker once.
- **Answering.** A model streams text and a marker cut anywhere; it may stop, refuse, be cut off or
  name sources it was not given, and the usage hangs on a promise nobody may await. Correct: the
  reader gets exactly the text before the marker, the last event tells the stored outcome, and
  every call is traced once.
- **Ingest and grounding.** Cuts, merges and overlaps must not lose text or exceed a limit; vectors
  must be of their chunks; the sources must keep four limits at once and leave out nothing they
  have room for.
- **Rate limit, scan login, push, bell, chat, readers, login.** Two clocks, two phones, two users of a phone,
  two devices of a user, two tabs, or two coroutines meet the same state with answers out of order.
  Correct: what a client shows at rest is what is stored; sessions and tokens belong to
  whoever they were made for; whatever was begun ends.
- **Profiles.** A public page reads in several statements, and the follow button decides by what the
  page last heard, while accounts are erased, names are saved and documents are hidden. Correct: a
  username names one account, no follow outlives either side, a page at rest tells what is stored,
  and nothing hidden is shown to a request that began afterwards.
- **Evaluation.** It writes to the real database. Correct: no failure leaves rows behind, and it
  measures what the service would serve.

`PROJECT.json` lists the hazards at their lines, with the property that covers each.

## 2. The modules and the code

`PROJECT.json` maps every definition to its lines.

The core, with proofs:

| Module | Models | State and actions |
|---|---|---|
| `DocumentPipeline` | `apps/api/src/modules/documents`, `apps/worker/src/processors`, `repository/document.repository.ts`, `processing-guard.ts`, `reconcile`, the embedding backfill; BullMQ is external | one function per column of a document's row; `mq`, `tries`, `stalls`, `owner` are the BullMQ job; `run` is what a worker slot executes; `plan` is a reconciliation round's listing. One action per transaction or queue call |
| `Outbox` | `apps/worker/src/outbox/publisher.ts` | `row`, `stale` (lease expired), `batch`, `pc` and `mode` per publisher; a tick is `Tick`, then one call per step |
| `EventPromise` | what ADR-005 promises of an event | `state`, `handed`; `Outbox` implements it |
| `Conversation` | `apps/api/src/modules/conversations` | `msg`, `answer`, `cites` per question; `task` per HTTP handler, one database or model call per step; `chunks` stands for the pipeline |
| `AccountPurge` | `apps/worker/src/purge-account`, `apps/api/src/modules/me` and the freeze in `requireActiveAccount` | `acct`, `row`, `stored`, `pending`, `attempts`; `round` per worker: purge transaction in two steps, then the drain |
| `Notifications` | `packages/queue/src/notification-bus.ts`, `/notifications/stream`, the worker's `notifyRecipient` | `stage` and `seat` per stream, `entry` (the map), `wire` and `down` (the subscriber connection, in order), `pulse`, `looking`, `told` |

The services around it, composed by `MCServices`:

| Module | Models | State and actions |
|---|---|---|
| `Admission` | document creation, quota, upload and confirmation, the polled list; web and iOS upload clients | `docs`, `stored`, `reqs` (calls under way with their answers), `progress`, `doc`, `shown` per client |
| `AIGateway` | `packages/ai/src/gateway.ts` and its adapters | one `call` with its place, `wire` (the stream) and `promise` (its usage), `traces`, `usages` |
| `AnswerStream` | `packages/ai/src/answer-stream.ts` | text received, held back and passed on; one action per delta |
| `Answering` | `generateAnswer` and the handler around it; extends the two above | `at`, `msg`, the events sent; one action per awaited call |
| `Grounding` | `retrieval.ts`, `pickHistory`, the quotations of `citations.ts` | a ranking, the sources chosen from it, the history, a citation |
| `Evaluation` | `packages/eval`; extends `Grounding` | rows of the fixture, the case, metrics, the report; one action per call that can fail |
| `Folding` | sums, joins and filters of lists that several services make | operators, written as recursive functions |
| `Cleaning`, `Chunking` | `apps/worker/src/pipeline/clean.ts`, `chunk.ts`, `tokens.ts` | operators; a line is a name with a size, a chunk a sequence of fragments of lines |
| `Ingest` | the stages of one run; extends the two above | `stage`, blocks, chunks, vectors, the texts asked of the summariser |

The clients, composed by `MCClients`:

| Module | Models | State and actions |
|---|---|---|
| `RateLimit` | `apps/api/src/shared/rate-limit.ts`, `token-bucket.ts` | the bucket, the clock of each instance, what was admitted and when |
| `ScanLogin` | `features/scan-login`, `Features/ScanLogin`, `scan-login-cookie.ts`; better-auth is external | `tab`, `scanner` per phone, `device` per code, `sessions`, `cookie`, `calls` under way |
| `PushDevices` | iOS `PushRegistrationModel` and `AuthClient`, Android's view model, `modules/push`, the worker's push | `phone`, `token`, `rows`, `traffic` between them, a delivery under way |
| `NotificationViews` | `modules/notifications`, the web's queries, iOS `NotificationsModel` | `inbox` (rows), `feed` (the stream), `asks`, `shown` (badge and list) |
| `ChatViews` | `features/chat`, `chat-view.tsx`, iOS `Features/Chat` | `threads`, `posts`, `state` in the database; `page` per client, `windows` (the browser's query cache by limit, the rows an iPhone holds), `links` (calls under way) |
| `ReaderView` | `AppViewModel.kt`, `DocPilotRepository.kt` | `model` on the screen, `jobs` (coroutines), `cache`, `disk`, highlight collectors |
| `LoginViews` | `use-login.ts`, iOS `LoginModel` and `AuthClient`, `DocPilotApp.kt`, `packages/auth` | `screen`, `requests`, `server`, `bearer`, `session` |
| `Profiles` | `modules/profiles`, `modules/public-documents`, `createPersonalWorkspace`, `features/profiles`, the pages under `app/u` and `app/p` | `account`, `username`, `face`, `follows`, `readable`, `published` in the database; `screens`, `queries` (requests by statement), `entries` (the query cache), `tap` (the follow button) in browsers |
| `PdfView`, `PdfHighlights` | `features/pdf` | the loaded link, a page's drawings and layers; highlights per tab and in the shared storage |
| `WebPages` | the pages a browser shows in its tabs (`app/p`, `app/providers.tsx`) | the three above side by side, which share no state |

`MC*` modules give constants and symmetry; `MCServices` and `MCClients` put together parts that
share no state: a behaviour chooses one at the start and stays with it, so that the
states of the parts add up and do not multiply. `*_proofs` modules extend their component and
hold its lemmas and theorems; `Worker_proofs` has those of `Outbox` and of `Ingest`. Definitions under "Mutant:" are plausible mistakes in the same code;
each property is known to fail when its definition is replaced by the mutant's.

How the modules meet. `Outbox` delivers what `DocumentPipeline` writes (`EventPromise` is the
interface); `Admission` ends where `DocumentPipeline` begins, with the confirmation, and sees the
worker as two steps; `Ingest` is one run of `DocumentPipeline` without its claims and saves;
`Answering` is one generation of `Conversation` with its stages, and uses `Grounding`'s outcome by name;
`NotificationViews` has `Notifications`' bus as a stream that is subscribed or not; `ChatViews` has
`Conversation` as a server that stores a pair at once and settles it later.

Abstractions that matter:

- Text, progress, prompts and titles are left out where no property is about them. In
  `DocumentPipeline` a chunk set is known by the embedding version of its vectors and of its label, and a document
  by whether there is anything under its headings (`Bare`); in
  `Answering` an answer is its characters and citations; in `Ingest` a line is a name with a size, a
  width and the classes the regular expressions see; in `Grounding` a passage is a hash, a size and a
  short text.
- Time is what the code compares. A document's age is fresh, past the queue's grace or past the
  processing limit; a lease is valid or stale; a cooldown is running or over. `RateLimit` alone
  counts, in whole units, because its rounding is the question.
- A page of `Profiles` shows one view of one username. The three counts of a profile are three
  statements in any order; of a request's earlier reads only what later ones depend on is kept. A call
  of the follow button is two statements; a follow from another device is one step, as the page's own
  call meets whatever may come between the two. The list's limit of 50 and the freeze of an
  account about to be deleted (in `AccountPurge`) are left out, and a drawn name (31^8 of them) is not one
  that an erased account had.
- The browser of `ChatViews` keeps what it fetched while its user follows a link inside the app (`Navigate`) and
  loses it with the page (`Leave`); a window that is shown again is fetched anew or not, as its age has it (`Look`).
  That react-query throws out windows nobody has looked at for five minutes, and fetches again on focus and
  reconnection, is left out: the first is what `Leave` does, but for a stream that is still read, the second
  a fetch more.
- Calls that may fail may fail with or without effect (`DeliverUnconfirmed`, `AddFails`,
  `ConfirmFails`, `PurgeFails`, `IngestFails`, ...), because a lost reply looks like an error to the
  caller.
- `processingVersion` is never incremented by the code and `deleted_at` never set, so the guards
  reduce to the row's existence and status.
- Workspaces do not interact, so each model has one. Content deduplication is by workspace as
  well.
- A browser tab, an iOS model and an Android view model run on one thread each: a handler is one
  action up to its first wait, and everything else may happen in between.

Assumptions: one backfill script at a time; requests and signed upload links (15 minutes) do
not outlast a cooldown (7 days); the repeatable maintenance job runs one reconciliation at a
time, while purge rounds of several processes may overlap; Redis expires a key no earlier than
its TTL; on iOS `bytes.lines` yields the blank lines the event parser splits at.

## 3. The runs

Twelve in all. The core's:

| Run | Instance | What it shows |
|---|---|---|
| `pipe_faults` | one document, of headings only, two worker slots, three faults | the outcome is complete after any crashes, lost locks, exceptions, redeliveries and aborted reconciliations; no step turns success into failure |
| `pipe_dedup` | two documents of equal bytes, one with vectors the migration removed, two slots, two operations (backfill, visibility), no faults | a document with text that is made ready, by copying too, has chunks with vectors; a queued document has an event or a live job; reprocessing starts private |
| `pipe_live` | one document, one slot, two faults, one operation | every document comes to rest; without a fault an accepted upload becomes ready |
| `outbox` | three events, one of them invalid, two publishers, batches of two, two faults, one shutdown | final outcomes, deliveries, clean shutdowns, and `EventPromise` with its liveness |
| `chat` | three questions, a quota of one, two handlers, one failure, one reprocessing | one generation, standing answers, live citations, bounded overshoot, nothing pending without a crash |
| `purge` | two accounts with an object each, one object the store refuses to delete, two workers, batches of one, two attempts, one cancel, two faults | no key lost, no living account touched, cooldowns respected, objects reclaimed or dead-lettered |
| `notif` | three streams of two users, one notification, two faults | subscription follows the map, ended streams are not called, listeners hear |

`services` (about 315,000 states) runs five parts:

| Property | Its parts | Instance |
|---|---|---|
| `AnswerSound` | `AnsweringTypeOK`, `ShownIsAnswer` (what is passed on is the text before the marker), `HeldIsMarkerStart` (no more is held back than could begin it), `TracedOnce`, `UsageOfSuccess`, `StoredAnswerIsSound` | texts of up to five characters over three, a marker of four that begins and ends alike, deltas of up to two, two sources of which one is another document's, two failures |
| `EventsTellOutcome` | `LastEventTrue`, `EndIsEnd`: the last event tells what is stored, and nothing follows it | the same |
| `IngestSound` | `LinesKept`, `NothingLost`, `ChunksAreLocated`, `ChunksFit`, `OverlapIsTail`; `VectorsAlign`, `SummaryCoversText` | 2,567 documents of up to four pages: all short ones over six kinds of line, and repeating ones for the running lines; limits of a few tokens, batches of two |
| `EvidenceSound` | `SourcesFit`, `NothingLeftOut`, `HistoryIsLongestEnd`, `QuotesAreChecked`; `FixtureRemoved`, `SameSources`, `MetricsAgree`, `ReportCovers` | every ranking of four passages with every threshold, a text that is there twice and one that never fits; an evaluation of two documents and two cases in both modes with two failures or kills |
| `UploadsAccounted` | `AdmissionTypeOK`, `UploadOvershootBounded`, `KeyedUploadOnce`, `PendingAreOwed`, `DoneIsStored` | a browser tab with a large file and an app with a small one, a quota of two documents and two units, two tries, one lost call |
| `ProcessedOnce` | a document's status never falls back, whatever confirmations come late or twice | the same |
| `RequestsEnd` | `EventuallyTold`, `EventuallyTraced`, `UploadsSettle`, `ListSettles` | the same |

`clients` (about 745,000 states) runs ten:

| Property | Its parts | Instance |
|---|---|---|
| `LimitsHold` | `RateBound`, `LimitersAgree`, `RetryAfterIsEnough` | a bucket of two, two refilled every three units, seconds of two units; instances a unit apart; eight units, five calls |
| `ScanSound` | `ScanTypeOK`, `TabSessionApproved`, `OrphansAreFaults`, `ApprovalIsReal` | a tab, two phones of two users, one turn beyond the first (reload, new code, lost call, expiry, revocation) |
| `PushSound` | `PushTypeOK`, `SilentWhenSignedOut`, `RowsStay` | one phone of either platform, two users in turn, two tokens, two moments (kill, new token, push, lost call, second tap) |
| `BellAgrees` | `ViewTypeOK`, `BadgeAgrees`, `ListAgrees` | one notification, two events (breaks, refreshes, marks), either viewer |
| `ChatSound` | `ChatTypeOK`, `OneThread`, `OneStreamEach`, `WindowIsStored`, `RetryFindsItsQuestion` | a browser and an iPhone, each alone or both, one more question, pages of two up to four rows; alone with up to one question before and one trouble (an answer that fails, a lost call, a view left), or with two before, answered or failed; together with up to one before |
| `ReaderSound` | `ReaderTypeOK`, `PagesOfTitle`, `MarksOfTitle`, `ChatEndsWithAnswer`, `FilesWhole` | two papers, two opens, two questions, one more trip |
| `LoginSound` | `LoginTypeOK`, `SessionIsBearers`, `CodePageIsTheirs`, `FullCodeIsTried`, `SignedInHasHome` | each of the three apps, two addresses of which one is registered, two calls, two edits, two turns |
| `WebPagesSound` | `DocumentOfLink`, `FarIsEmpty`, `PageAgrees`; `MarksAreStored`; `ProfilesTypeOK`, `AccountsStand`, `PagesTell`, `NothingHidden` | two links, three drawings; two tabs, three highlights; two accounts of which one has no name, two usernames, one document, one page, one tap, one refetch or lost answer, one turn of others |
| `ClientsSettle` | `CodesSettle`, `PhonesSettle`, `ApprovalSignsIn`, `SignedInIsRegistered`, `EveryNoticeHeard`, `SendingEnds`, `BusyEnds`, `LoginSettles` | the same |

Properties of clients except what the code does lose, by a history variable each (`races`,
`excused`, `met`, `odd`, `late`, `parted`, `strained`, `overlaps`, `old` and `stale`): the exception names the
exact interleaving, so the property says that nothing else has that effect. What is excepted is
described in section 6.

Violation runs show a disagreement each; see section 6: `pipe_duplicate`, `purge_leak`,
`notif_deaf`.

Bounds. `Stages` is 2 instead of 5: a run needs a first stage and a later one, and the others
differ in nothing that is modelled. `MaxAttempts` is 2 instead of 5: a first attempt that is
retried and a last one. Two worker slots are needed for the duplicate run, and a third would have
to hold a third copy of one job, which takes as many more lost locks. Three faults reach the
longest chain met while modelling: a stall, a second run, and a failure of either. Three events in
batches of two leave one over for the other publisher. A quota of one with two handlers and three
questions is the smallest instance that overshoots and then refuses. In `purge` a batch of one
with an undeletable object is the smallest that could starve the other; two attempts let it
become a dead letter. Three streams are needed for one that waits, one that empties the set, and
one that makes a new one. The theorems of section 5 do away with the bounds for the safety part
of all parts but the ingestion. In `services`, five characters hold a marker of four with one before it, which may
be a false start of the marker, or one behind it; two clients are what it takes to race; two
failures are one and its handling's. In `clients`, what is bounded are the user's own acts (calls, edits,
turns, trips, marks): the answers to them come in any order.
No other bound is in the guards: every one is a constant whose name begins with `Max` and whose
comment says so.

Symmetry is used for worker slots only, and only in runs without liveness properties.

## 4. Fairness and stopping

Fairness is given to what a timer, a supervisor or a runtime drives and to nothing else.

- Workers and publishers: the containers have `restart: unless-stopped`
  (`docker-compose.prod.yml`), BullMQ's workers fetch as long as they live, and the publisher ticks
  on an interval (`apps/worker/src/index.ts:102-105`).
- Retries that are due and stalled jobs: BullMQ's own timers.
- Reconciliation and purge: repeatable jobs of the maintenance queue
  (`apps/worker/src/index.ts:107-145`), and the clock.
- HTTP handlers: once begun they return, since every call they make ends or times out. The same
  goes for a provider's call and stream in `Answering`.
- Notifications: the process and its connection finish what they began; the worker goes on to
  publish.
- Clients: a call that is under way is answered or fails, a client hears its answer, polls and
  reconnects on timers, and takes the step its code takes next. In `LoginViews` also `Submit`: the iPhone's
  form submits a complete code by itself, and `LoginSettles` (again and again the form is free or its user signed in) is false only if a form that is
  busy has no answer to come.

Users owe nothing: no fairness on uploads, questions, cancellations, retries, connections or
leaving. Faults, losses, kills and shutdowns are never required. Only weak fairness is used. Where
a user may undo and redo something for ever (rates of codes, turns), the property is
"again and again" (`[]<>`) and holds because those turns are bounded by the instance.

In `MCServices` and `MCClients` the fairness of every part is assumed at once. It asks nothing of
the parts that were not chosen: they stay in their first state, in which none of their fair actions
is enabled, since each of them goes on with something a user or a request has begun.

`CHECK_DEADLOCK FALSE` is in the runs of systems that really stop: all documents ready or failed and no
budget for another operation, all questions answered, all accounts gone, a stream that waits
for an abort that was already signalled (section 6), an answer that is given, a user who has done all
the instance allows. `outbox` has no such setting: its timers always tick.

## 5. The proofs

Each `*_proofs` module shows the type invariants of its components and the safety properties below for every value of
the constants that the module's named assumption admits: any number of documents, workers,
events, publishers, handlers, accounts or streams, and any fault budget. The checked formula and the
proved one are the same definition. `TypeOK` of the core modules is proved and therefore not
repeated as an invariant of the runs.

- **DocumentPipeline.** `Typed` is the type invariant together with `SoundRun`: what a run holds
  in its hands. A run that is about to save a copy has loaded chunks that carry vectors, and its
  status is a ready one; without that, `Save` could not be shown to keep `ReadySearchable`. `Inv`
  conjoins `OutcomeRecorded`, `ReadySearchable` and `NeverAsked`. `NoFailureOverSuccess` and
  `ReprocessingStartsPrivate` then follow action by action. `QueuedHasCarrier` holds while nothing was lost
  and needs an invariant of that time, `Undisturbed`: a job that is active is held by exactly the run that
  works on it (`LockHeld`), a run that goes on will succeed (`RunSucceeds`), no document is in
  both the backfill's hands and a run's (`BackfillAlone`), and a queued document has an event or a
  live job also within a reconciliation round, except between its reset and its `queue.add` (`Carried`).
- **Outbox.** `Honest`: a row that is absent is in no batch, an event whose publisher is about to
  confirm it was handed over, and only invalid events fail. It gives the refinement step
  (`PromiseIsSafe`). `FaultFree` is the invariant of runs without faults (`Exclusive`): each row being
  published is in exactly one batch, and an event delivered once is published or about to be
  confirmed. Delivery once and the clean shutdown follow from it.
- **Conversation.** `Counted`: a question is generated exactly if it was asked, and a second time
  only after a failure. `Numbered`: generations under way have numbers of their own. `Undisturbed`:
  while nothing failed, a generation under way finds its message pending. `QuotaOvershoot` is a counting
  argument: questions asked plus handlers past the quota check never exceed quota plus handlers,
  less one, and it uses the finite-set theorems of the library.
- **Admission.** `UploadsAccounted` rests on three counts. A request whose client has gone may still
  insert a row nobody owns; it was paid for when the client was lost, so such requests count with the
  rows left behind (`Owed`). A request past the quota has its room as if it were inserted (`Counted`),
  because at the moment of the check those before it are no more than the other clients and the
  losses. And with all of them inserted the workspace holds what one of them was allowed and the
  others at their largest (`Weighed`). `Calls`, `Phases` and `Rows` say that a request agrees with what its
  client does, and a row with its key. `StorageBytes` is a recursive function over the rows; what
  an insertion adds to it is proved by induction, with the library's well-founded order of
  the naturals put in terms of a set (`SetInduction`), as no prover here takes its operator form.
  `ProcessedOnce` follows action by action. Assumed: finitely many clients, at least one, and
  sizes and limits that are naturals.
- **RateLimit.** What was admitted in a window is too weak to survive the next call; the invariant
  counts what is left in the bucket as well, and what clocks that are set back gave away (`Spent`). Redis and
  the in-memory limiter hold the same bucket (`SameBucket`), and a key lives until its bucket is full by
  any instance's clock (`Lives`), so that an expired key loses nothing. Assumed: the clocks of
  two instances are apart by at most the interval, rounded up to seconds, which is what the
  script's TTL allows for.
- **Answering.** What was passed on is right because no marker can begin in it whatever comes next
  (`Hopeless`): at each of its characters the text already differs from the marker. What is held back is the
  longest end that may become one, so that with it the same is true after the next delta (`MarkerAwaited`), the first
  marker of the held text and the delta is the first of the whole stream (`MarkerFound`), and what comes later
  does not move it (`MarkerStands`). The first and the last of a set of positions exist by the well-founded
  order of the naturals. The gateway's part is what a caller has been told at each stage of a call (`Told`) and that nothing
  is recorded before the end and usage and trace agree then (`Recorded`); `Lined` says which stages of the
  handler go with which of the call, so that a stored refusal is never followed by a stream; `Stands`, that a
  message is completed only after its answer was found valid, and that no final event goes out before the
  handler is done. Assumed: a marker that is not empty, and own sources among the sources.
- **Grounding** and **Evaluation.** What these modules compute are folds over rankings, rows and texts, written as
  recursive functions; that such a function exists and what it is at each place is proved once (`Recursion`),
  by induction over the naturals as above. The choice of the sources is followed along the ranking
  (`WellChosen`): at each place what was chosen keeps the limits, and what was passed over either repeats a chosen text
  or did not fit beside what was chosen so far, which has only grown since (`FitsBeside`). The evaluation's own
  selection goes the same way; it picks what the service's picks because no two chunks of a document have the same hash and
  a ranking holds nothing twice. The history is followed from its end. The invariant of a run says that
  its rows go as long as nothing strands them (`RowsKept`) and that there is one measure for each case that was searched
  and should be answered, and one verdict for each that was answered (`CasesCounted`), so that the report's sums are sums over
  all of them. Assumed: a passage has at least one token and its text is of the known characters, a history is a
  sequence of positive sizes, at least one source is allowed, and of a dataset what `loadDataset` lets pass.
- **Ingest** with **Cleaning** and **Chunking.** What a stage makes of a document is a loop over a list, in the model a
  recursive function. `FoldRow` is the row of a loop's intermediate values: that it exists, is unique and is the
  recursive function is proved once (`FoldRowExists`, `FoldRowsAgree`), by induction over the naturals as above, and with it
  what a loop makes of a list and one more element. Each loop then has one lemma about its body and one that carries it along.
  Paragraphs and blocks show every line that was kept and come in page order (`ShowsIn`, `PagesRead`). Of a sentence cut by
  characters the pieces are windows that meet (`Seen`, `RunInTwo`), so that their characters are the sentence's; sentences, pieces and
  units of a block join to the block again, and no unit weighs more than the limit (`Weighs`), which counts for narrow
  scripts only. `Rel` follows the raw chunks: the characters so far are those of the blocks so far, each with the number of
  the block it comes from (`Trail`), whose section is the path of its chunk and whose page is among its pages (`Located`); the path is the stack of
  headings, which is what `SectionOf` says by looking back over all blocks (`AboveSet`). Merging keeps that trail
  (`KeepsTrail`), numbering adds overlaps, and an overlap begins at the last sentence from which there is enough, so that
  reading it again gives the same sentences (`Resumes`, `TailOf`). The invariant of a run
  is `Ready` (blocks and chunks are what the stages make of the pages) with `Staged` (how far vectors and groups have
  come). Groups of chunks are one more loop (`OneGroup`). Assumed: an overlap asks for at least one token, a batch
  holds at least one chunk, and a run's one terminal error is not the absence of an error.
- **ScanLogin.** A code and a call are followed through their lives: a view has one call under way at
  most (`OneCall`), a code is served once and its row holds its claimant's decision or nothing
  (`CodesOnce`), a confirmation on its way to the phone is as real as one it shows (`Confirmed`). The
  sessions nobody carries are counted together with the token requests of pages that are gone, which
  were paid for when the page was (`Accounted`). Assumed: the tab and `Nobody` are not phones.
- **PushDevices.** That a signed-out phone has no row says nothing of a phone that is signed in or
  off. The invariant follows a row to the session it was registered with (`RowOfSession`): while
  nothing went wrong on an iPhone, a row is of the session whose bearer is stored and that lives, and it
  is gone before that session ends (`ProperLeaving`, `OneCallEach`: a tap waits for one call). A clean-up
  holds the phone's token only if it was refused (`TokensThereWere`). `RowsStay` follows step by step.
  Proving it showed an excuse that was missing beyond the run's bounds (the late unregistration of
  section 6). Assumed: the users are a sequence, none of them is `Absent`, and the platforms are the two.
- **LoginViews.** What the login screen shows is right because of what is under way when an answer comes: one
  sign-in at most unless the overlap of Android happened (`OneSignIn`), one call of the browser's or the iPhone's
  (`OneAtATime`), a task of the iPhone that submits a code and nothing beside it (`TypedAlone`,
  `CodeTried`), a call for a code of the very address that is shown (`CodeOfAddress`). Every user the server knows has a
  workspace while the hook did not fail (`UsersHaveHomes`). Assumed: an address is none of the answers' words.
- **ReaderView.** The properties speak of the reader at rest; the invariant says who will bring it
  there. As long as nothing that the properties except ran side by side, one coroutine at most is to
  bring the pages (`PagesComing`), its collector alone is to be told (`MarksComing`), and the chat is what
  the stage of the one answer under way makes it (`AnswerComing`). A download that has not
  begun to write has a number that is on no file, and one coroutine writes a document's file (`FilesApart`).
- **ChatViews.** A view at rest shows the newest messages because before that each window it may show was fresh, was
  known not to be, or had something under way that was to make it so (`WindowComing`): on the web a stream, whose end
  invalidates all windows and fetches the one on the screen (`WebComing`), on the iPhone the search that loads it anew
  (`IosComing`). Fresh means the newest of the conversation up to some moment with nothing of the client's own since,
  its own as they are; it stays so because nobody else follows a client's question unless the client lost a call
  (`OwnFollowed`), so that others only add what is not its own (`FreshStays`). A fetch that a stream's end does not
  repeat is fresh or marked late, and so is the window it fills (`RowsComing`). A view follows one answer, or loads
  what its end asks for, at a time (`Sending`, `WebFinds`), and an iPhone takes nothing along when it is left (`IosOpen`).
  The conversations there are and the calls that will make one are together one more at most than the times a client
  looked while another was about to make one (`CountedMakers`). Messages are stored and fetched in pairs, so that a
  retry finds its question wherever the window begins (`FindsQuestion`). Assumed: windows and their cap are
  even, as 30 and 100 are.
- **WebPages.** The reader: one load goes on at most and it is of the newest link (`OneLoad`), one drawing
  goes on and it is the last begun (`OneDraw`), and a page that is near and still blank has a drawing or an
  effect to come (`PageComes`). Highlights: while one tab alone is open it shows what is stored, and a new
  highlight has a number no other had (`OneTab`). Profiles: a username passes from nobody to somebody or back and
  never between two people (`HoldersMove`), so that what a request has read of a profile stays true for as long
  as the profile is what it was (`PartsStay`), although it reads in several statements and the row may go between
  two of them; `Asked` and `Answered` say it of what is under way and of what is shown, `Kept` that a list of
  documents only holds what was visible since its request began. The name a user row begins with may be blank;
  that it is there at all is kept by what a save accepts (`ProfileSaved`). Assumed: there are at least as many usernames as
  people, none is the absent one, and a page has a link.
- **NotificationViews.** The bell is right at rest because before that whatever it lacks is under way. What a
  viewer heard, and every answer and frame on its way, is the past of the inbox (`AllPast`); what it has not
  heard of comes with a pulse, a frame or the answer to a mark, or is among the rows recorded as missed (`NewsComing`).
  The badge counts what was heard, unless a count or a mark's answer is to come
  (`BadgeComing`), and a list fits the rows but for pulses and marks on their way (`ListIsComing`). That the
  number stays below twice the notices needs each row's pulse to be in one place (`OnceEach`, `CountBounded`).
  Assumed: finitely many notices.
- **AccountPurge.** `Frozen` (an account a round takes for due is due, and its upload links have
  expired), `Cascaded` (the rows
  of a gone account are gone), `Collected` (the keys collected in the open transaction are those
  of the account's filed documents), `Draining` (whatever a drain works on belongs to a gone
  account). `NoKeyLost` is not inductive without them: the transaction collects its keys in one step and deletes in another.
- **Notifications.** `Seats` ties a stream's stage to its place in the bus and gives
  `NoGhostHandlers`; it needs `Waiters`, that a command or reply under way has a stream waiting for it and no
  stream waits for two. `SubscriptionTracksSet` is inductive by itself, because it speaks of the
  last command on the connection, the one that decides.

TLC only:

- liveness (`EventuallyStable`, `HealthyUploadReady`, `PromiseKept`, `AnswerSettles`,
  `EveryObjectReclaimed`, `ListenersHear`, `RequestsEnd`, `ClientsSettle`), which the prover does not
  reach under fairness (of `PromiseKept` the safety half is `PromiseIsSafe`); every safety property of the passing
  runs is a theorem.

Updates of several fields of one record are written as one nested `EXCEPT` (or a
full record) in the proved modules, because `tlapm` 1.4.5 does not treat several paths in one `EXCEPT` as
applied one after the other.

## 6. Where code and documents disagree

Shown by a run:

- `pipe_duplicate`: markFailed's comment says a later delivery does not turn a success into a
  failure; `markStage` of that delivery has taken the ready status away by then.
- `purge_leak`: an account's objects are said to be deleted with it; one that was uploaded and never
  confirmed has no file row and stays.
- `notif_deaf`: the channel is said to stay subscribed while anyone listens; a second stream that
  comes and goes while the first awaits SUBSCRIBE unsubscribes it, and the first stays deaf.

Reached by the models, without a run of their own. In the core:

- `embedding_version` is documented as telling which vectors must be rebuilt
  (`packages/contracts/src/processing.ts:22-23`); a copy made by content deduplication labels old
  vectors with the current version (`document.repository.ts:294`) and they are never rebuilt.
- A pending answer is said to answer 409 (`conversation.service.ts:100`); two retries that both read
  `failed` (`:125`) both reset the message, an update by id (`conversation.repository.ts:250-254`), and the
  model is called twice.
- `recover()` adds a job under an id BullMQ still keeps as failed, which BullMQ ignores; the document
  says queued and has no job until the reconciliation fails it an hour after its creation
  (`docs/runbooks/failure-recovery.md:13-14` says it is queued again).
- `fail()` and `recover()` update the job row without a guard after the document
  (`reconcile.repository.ts:127`, `:149`): a ready document may keep a failed or pending job row.
- The visibility switch reads the status and then updates by id (`document.service.ts:193`): a
  document that a backfill sent back meanwhile may become public while it is processed.
- A process that dies while it generates leaves its message pending; nothing fails it later, and
  every resubmission answers 409. `AnswerSettles` is therefore stated up to crashes.
- A SUBSCRIBE that ioredis gives up leaves an empty set in the map (`notification-bus.ts:60`): later
  streams of that workspace find it and do not subscribe. `SubscriptionTracksSet` is stated up to such refusals.
- A client that leaves before `/stream` registers `onAbort` (`notification.routes.ts:95`) is never noticed: the stream, its
  heartbeat and its gauge stay, although the comment at `:61` leaves the
  cleaning up to `onAbort`. These are the `deserted` streams.

In the services:

- Uploads: a keyed retry is counted by the quota again and may be refused although its document
  exists (`document.service.ts:38` says a retry reuses it); two keyed creations at once end in a unique
  violation, a 500; the app's key is the checksum, so a failed document cannot be uploaded again
  from an app. The confirmation stores the size the store reports and does not look at the quota again.
- Rate limit: the comment promises one count for several API instances; the script stores the
  caller's clock, so an instance behind sets `ts` back and the time between is refilled twice. `RateBound`
  counts it (`setBack`).
- Answering: `pickHistory`'s estimate is commented as the worker's, which counts CJK characters as a
  token each and not four to one. The history may begin with an assistant's message.
- Ingest: a sentence over the limit is cut at four characters a token, so that CJK text gives
  units of up to four times `MAX_TOKENS` (`chunk.ts:133`); `ChunksFit` says so. A document of headings
  only has no chunk (`chunk.ts:70-75`) and becomes ready (`document.repository.ts:278`), so that nobody can find
  anything in it; `ReadySearchable` excepts it (`Bare`). An embedding reply that names an index twice leaves a
  hole, which throws in the worker and may be retried.
- Evaluation: the selection is commented as the service's (`runner.ts:203`) and has neither its
  deduplication nor its threshold; `SameSources` holds because the fixture's hashes differ and only
  without a threshold. It calls the model even without a source, which the service does
  not. A hole in an embedding reply is stored as a chunk without a vector, which no search finds, so
  that recall falls without an error. The first insertion is outside the `try`: if its reply is lost, the user stays.
- Sign-in: the hook that makes a new user's workspace runs after the user exists
  (`auth.ts:32`); if it fails, nothing runs it again and every business call is refused. A mail that
  cannot be sent is reported as sent (`auth-plugins.ts:13-19`).

In the clients:

- Bell: after a reconnect the web client gets the count only and does not fetch the list
  (`use-notifications.ts:20-21` says no notification is lost). On the iPhone a pulse that the snapshot
  already counted is added again.
- Push: the Android design says the token is unregistered at sign-out
  (`docs/superpowers/specs/2026-07-23-android-client-design.md:96`); the code never does. A registration
  under way may overtake the sign-out, a double tap on sign-out sends two, a sign-out before the token
  is known leaves the row. An unregistration that the app gave up on may be served after the same user is
  back, and takes the row away. The DELETE route lower-cases tokens, which Firebase's are not.
- Scan login: Android decodes `GET /device` as a map of booleans while its status is a string.
- Chat: two first visits at once make two conversations (`api.ts:16` says one per document);
  the iPhone may then move to the other one. `OneThread` counts how often that can have happened (`overlaps`). The end
  of a stream is said to refresh the window (`use-chat.ts:26-27`), but `invalidateQueries` (`:92`) neither cancels
  nor repeats the first fetch of a window that has no data yet: after "load earlier" during an answer
  (`chat-view.tsx:115`) the wider window may go on showing the answer as pending (the exception `late`). A link to
  another page of the app leaves the stream being read (`send` passes no signal, `use-chat.ts:65-69`), and the
  view that is opened next has an `inFlight` of its own (`:47`), so that one browser may follow two answers;
  `OneStreamEach` is of one view. The browser does not poll for an answer whose stream broke; endless retries can
  starve the window's refetch.
- Android's reader: the later of two downloads replaces the pages under the other's title; highlight
  collectors are never cancelled; two downloads of a paper share one temporary file. While an answer
  is fetched, the one before it is shown in front of it. Uploads are not polled.
- Login: on web and Android the address can be changed while a code is being sent; on Android the Google button
  works while another sign-in runs (`DocPilotApp.kt:112`), and one user's session may go with another's
  token.
- Profiles: an account made by password or by code has a blank name, or none that was sent (`use-login.ts:66`, `:81`),
  while a save refuses one (`profile.schema.ts`); the sidebar then shows the address (`sidebar-account.tsx:42`), the
  public page a heading without a name. A page whose first answer is still under way does not ask again after a follow
  (`invalidateQueries` cancels only what has data), so the button may show the state before it until
  the next refetch (the exception `old`). A follow whose answer is lost leaves the button as it was
  (`stale`). The counts of a profile are not of one moment. A document may be published by a switch that read its
  status before the backfill took it; the public queries look at the status again and do not show it.
- PDF reader: `error` stays when the link changes; the text layer of a cancelled drawing may still
  be filled; two tabs overwrite each other's highlights.

## 7. What is not modelled

- Providers and libraries (BullMQ, ioredis, hono, better-auth, S3, pdf.js, AI models) only as the code
  meets them. BullMQ's delayed, stalled and kept jobs, Redis' order of commands and its
  at-most-once channels are modelled, since the code depends on them.
- Read-only parts: search, administration, health, metrics. One query or one
  counter each; there is no second step for anything to come between.
- Single-row updates nobody races with: device names, the form of the account settings.
- Of the modelled parts: progress, titles, the monthly token quota, prompts' texts, the paging of the
  notification list and marks from another device, One Tap, password reset, Apple's nonce,
  session cookies' cache, the navigation and settings screens of the clients, Android's scan login.
- Deployment and end-to-end tests, which are sources for the fairness and the findings.

## 8. The plan

Done: the core, the services and the clients with their runs; the safety of the core, of `Admission`,
of `RateLimit`, of `Answering` with its stream and gateway, of `Grounding`, of `Evaluation`, of `ScanLogin`, of `PushDevices`, of `LoginViews`, of `ReaderView`, of `ChatViews`, of
`NotificationViews`, of `WebPages` and of `Ingest` with its stages proved. Left, in order:

1. Compositions: `Outbox` under `DocumentPipeline` by `EventPromise` (the pipeline's `events` is the
   promise's state), `AccountPurge` with `DocumentPipeline` (its `Purge` is the cascade), `Answering` as a
   refinement of one generation of `Conversation`.
