# Verification of chat_pdf

TLA+ models of the parts of chat_pdf where an order of events nobody tested can
go wrong, checked with TLC, and theorems about them proved with TLAPS for
every value of the constants. Source paths are relative to the repository (`src/` here).

## The system

An Angular client lets users upload PDFs and chat about them. A FastAPI process
serves it; a separate worker process turns each PDF into a tree of sections,
chunks with embeddings, figures and an index; PostgreSQL is the queue between
the two and the only shared state besides the file storage.

| Component | State it keeps | Operations | Talks to | What is hard |
|---|---|---|---|---|
| Document queue and worker (`worker.py`, `db/repositories/document_state.py`) | `document_state` rows: status payload, attempts, backoff deadline, lease; the ORM's copy of a claimed row | upload, claim, stage writes, release, retry, fail, recover, expire leases, restart | pipeline, API, database | stale row objects, leases that outlive or do not outlive their holders, threads that survive a timeout, restarts |
| Pipeline and artefacts (`processing/pipeline.py`, `document_data.py`, `storage/`, `api/routes/documents.py`) | tree, index of sections, chunks, files, vision cache of a document | run, background enrichment, reads that rebuild, DELETE | queue, storage, chats | four stores written without a common transaction, a DELETE beside a run |
| Concurrency limits (`processing/concurrency.py`) | three semaphores | enter, wait, leave | pipeline | objects remade per event loop |
| Chat and agent graph (`agents/`, `api/chat.py`) | plan, counters, excerpts, verdict of one request; its event stream | nine nodes, two nested retry loops, stream with timeout | language models, chunks | termination with models that never agree, timeouts between two nodes |
| Webhooks (`billing/webhooks.py` and repositories) | event ledger, subscriptions | claim, read, upsert, commit | payment provider | repeated, reordered, concurrent deliveries |
| Quotas and metering (`billing/enforcement.py`, upload and chat routes) | daily meters, pooled connections | check, store, meter, stream, record | both routes, database | check at the start, use at the end; midnight; two connections per upload |
| Browser session (`document-session.service.ts`) | tabs, polling, conversation | open, upload, close, poll, ask | API | every await is a place for another callback |
| Structure of a PDF (`processing/preflight.py`, `structure.py`, `tree.py`) | route, output of the partition, warnings; the tree of sections | preflight, two passes with a quality gate, building and storing the tree | tables and figures, artefacts | a retry that replaces what was read; ids counted twice; what a stored tree leaves out |
| Tables and figures (`processing/tables.py`, `images.py`) | results of two parsers, elements of the tree | detect, read, replace, merge over pages, match, suppress | tree, chunks | rows lost or doubled between parsers and pages |
| Chunks (`processing/chunking.py`) | chunks, their running number, files of large tables | windows over texts, one chunk a table or image | tree, artefacts | boundaries of windows; watermarks |
| Enrichment of sections (`processing/metadata.py`) | groups, their calls, the index | pack, call with one repair, fall back, merge | language models | answers late, blank, repeated, about other sections |
| Checkout and plan catalog (`api/routes/billing.py`, `billing/dodo.py`) | the provider's products, `plans.dodo_product_id`, a request's transaction | synchronise products, record ids, open a session, resolve a plan | payment provider, webhooks | concurrent first checkouts, rollback after external effects, rows locked in one transaction |
| PDF viewer (`pdf-viewer/`) | work queue of the loader, open document, render passes, flags, saved page | give, load, lay out, paint, repaint, scroll, unmount | browser session | cancellation between awaits, a shared queue that can break |
| Browser sign-in and billing (`auth.service.ts`, `billing.service.ts`) | stored session, profile, billing status | validate, sign in and out, fetch, refresh, usage event | API | answers that outlive the session or overtake each other |
| Language model clients, sign-in tokens, storage backends, API process, migrations, pages, infrastructure | see `PROJECT.json` | | | out of scope, below |

What makes the components correct:

* queue: no document processed by two tasks; a document is failed only with
  its attempts used up; success is final; every queued document is served; a
  dead worker's documents come back;
* artefacts: a ready document is complete; nothing comes back after a DELETE;
  a better index is not overwritten by a poorer one;
* chat: the graph ends, the answer sent is the judged one, a retry searches in other ways, the
  stream the client sees is well formed;
* billing: an event counts once, the newest wins, quotas overrun only by
  overlap, meters add up;
* processing: what a retry by OCR may cost is bounded, everything found is in the tree once and,
  but for what stands before the first heading, in the stored tree, no data row of a table is lost or doubled, every token is in a chunk, an
  index entry is the last answer's;
* checkout: what is paid for is what is granted, and every checkout ends;
* browser: every unfinished document is polled, tabs and answers stay paired, the
  viewer shows the document given last, the account shown is the reader's.

## Modules

| Module | Models | Correspondence |
|---|---|---|
| `DocumentRow` | one `document_state` row | one operator per WHERE clause (`Due`, `Stale`, `LeaseLapsed`) and per method's effect (`Claimed`, `Recovered`, `Released`, `RetryScheduled`, `MarkedFailed`); `Flush` is SQLAlchemy's unit of work: only columns that differ from the loaded copy are written |
| `DocumentQueue` | API uploads and deletions, tasks of worker processes, kills, refused transactions, time | one action per commit, which the database may refuse (`Refused`) where a failure is written or a run settled; `task[s].snap` is the row object of the claim, `task[s].left` the run's remaining time, `orphan` the partition threads a timeout left behind |
| `DocumentLifecycle` | what the queue promises | the abstract specification of the queue: who holds a document and the phase it is in |
| `DocumentArtefacts` | everything kept of one document | one action per commit or storage call of `process_document`, enrichment, readers, vision cache and `delete_document`; `run.tx` is the open transaction around the chunks |
| `PipelineConcurrency` | the three gates | `sems[g]` are the semaphores made for a gate, `bound` their `_loop` |
| `AgentGraph` | one chat request, as its client sees it | one action per node with the edge it takes, and one per event of the stream: those of `chat_stream`, and `limit_reached` and `usage`, which the metering wrapper of `enforcement.py` adds; a plan is its route, whether it names headings, and whether it asks for vision, and `WaysOf` is what `retrieve` searches for it; a model's answer is any value of its schema, or an error |
| `DodoWebhooks` | deliveries of subscription events | one action per SQL statement; inserted keys and updated rows are locked until the transaction ends |
| `UsageMetering` | uploads and chats against the quotas | one action per transaction; `ConnectionFree` is the pool |
| `DocumentSession`, `Conversation` | the browser's service | an action is what runs between two awaits; requests in flight, and calls of `openRemotePdf` and `uploadPdfsFromFiles`, are bags: any number of them overlap |
| `PdfExtraction` | preflight and `partition` | one action per pass; an output is any sequence of elements, by what `quality_gate` tells apart |
| `Filters` | the program's list comprehensions with a condition | `Kept` keeps the wanted elements of a sequence, in order |
| `DocumentTree` | `build_tree`, `enrich_tables`, `enrich_images`, `serialize` | one action per element read, then one per stage; `sections` and `refs` are the objects in the order they are made |
| `TableExtraction` | `extract_tables` and the description of its results | one action per parser, merge and description; a result carries the rows it holds and, as history, the tables they came from |
| `Chunking` | `build_chunks` | one action per window, per item and per section |
| `SectionEnrichment` | `build_enrichment` | one action per call and per answer; groups, merge and heuristics as operators |
| `Checkout` | `create_checkout`, the product synchronisation and the event of the bought subscription | one action per call of the provider and per statement; `recorded` is what is committed, `request[c].wrote` the rows it has locked |
| `PdfViewer` | the viewer component, its loader and its renderer | an action is what runs between two awaits; `loads` are the calls of `loadPdf`, with the step each is at; laying out or painting a damaged document may fail |
| `BrowserAccount` | `AuthService`, `BillingService` and the server's meter behind them | an action per callback; `fetch` are the calls of `fetchStatus`, `metered` the chat between its check and its write to the meter, which may fail |
| `DocumentQueue_proofs` | theorems | of `DocumentQueue`, with the refinement of `DocumentLifecycle` |
| `Documents_proofs` | theorems | of `DocumentArtefacts`, `Chunking` and `SectionEnrichment`, and of the instance `MC_Documents` |
| `DocumentTree_proofs` | theorems | of `DocumentTree` |
| `Concurrency_proofs` | theorems | of `PipelineConcurrency` |
| `Extraction_proofs` | theorems | of `PdfExtraction` and `TableExtraction` |
| `Billing_proofs` | theorems | of `Checkout`, `UsageMetering` and `DodoWebhooks`, and of `MC_Billing` |
| `Frontend_proofs` | theorems | of `AgentGraph`, `DocumentSession`, `Conversation`, `BrowserAccount` and `PdfViewer`, and of `MC_Frontend` |
| `FoldTheorems` | lemmas | folds, filters and concatenations of sequences, for the proofs about the processing of a document |
| `MC_*` | instances for TLC | `MC_Documents`, `MC_Billing` and `MC_Frontend` hold several independent modules each; a variable `part`, fixed in the initial state, says which of them runs |

`DocumentQueue` uses `DocumentRow`; the run inside `DocumentQueue` appears with
every status it commits, and `DocumentArtefacts` looks inside the run. That
`DocumentArtefacts` has one run at a time is what `OneTaskPerDocument` says of
`DocumentQueue` for one worker process.

## What the runs check

| Run | Instance | Shows |
|---|---|---|
| `queue` | 1 process, 2 tasks, 2 documents, 3 attempts, lease and timeout of 2 ticks, 1 fault (a kill or a refused transaction) | exclusive ownership, failure only when exhausted, success final, in-flight rows without an owner only after a fault or a late report, and that the queue implements `DocumentLifecycle` |
| `queue_live` | 1 task, 2 documents, 2 faults | every queued document is served; every run ends |
| `documents` | six parts: `artefacts` (one document, 3 runs, 2 DELETEs, 1 reader, either storage); `pdf` (4 pages); `tree` (4 parts, 2 levels, 2 pages); `tables` (3 tables on pages 1, 3 and 6); `chunks` (windows of 3 tokens that overlap by 1, texts of 1, 2 and 4, one element before the heading and 2 below it); `enrichment` (3 sections, groups of 2, 2 calls at a time) | the properties of the six modules, over every input within the bounds |
| `billing` | three parts: `webhooks` (5 events of 2 subscriptions, 2 handlers, 1 rollback); `usage` (3 requests, 2 connections, 2 days, 1 failure); `checkout` (2 first checkouts of 2 plans, 1 failure) | the properties of the three modules, and that every request ends |
| `frontend` | six parts: `tabs` (2 library documents, uploads of one file, of which one succeeds, 3 clicks); `uploads` (nothing opened from the library, uploads of up to 2 files that overlap, 2 ids, 3 clicks); `conversation` (4 questions, 3 replaced sessions); `viewer` (4 loads of 2 documents, one of them damaged); `account` (2 users, 2 fetches, 1 chat, midnights); `chat` (one chat with the default retry settings, 1 and 2) | the properties of `DocumentSession`, `Conversation`, `PdfViewer`, `BrowserAccount` and `AgentGraph` |

Seven more runs show where the program does not do what its own text says:

* `retry_lost` (code bug): `schedule_retry` works on the row object of the
  claim, so the status it assigns equals the one it loaded and is never
  flushed. A retryable first failure is neither requeued nor failed.
* `concurrency` (code bug): `asyncio.Semaphore._loop` is `None` until somebody
  waits, so every entry makes a new semaphore and no limit applies.
* `stranded`: recovery runs once per start, and only for leases that have run
  out by then; the docstring promises a periodic one.
* `two_workers`: the lease starts before the processing timeout, is as long and
  is not renewed, so a second process takes a document that is still worked on.
* `deleted`: a DELETE beside a run leaves the files the run stores afterwards.
* `webhook_order`: the ordering guard is not part of the upsert; two concurrent
  events of a subscription may be applied in the wrong order.
* `usage_drift`: the usage shown at the end of a chat is not the one stored
  when another chat ended in between.

### Bounds, and why they are enough

Constants whose name starts with `Max` (and `LastDay`) bound the number of
faults, runs, failures, clicks and days of the quotas, in the guards of the actions
that count them. One fault is enough for a death or a refusal at every point of a run and
two for a death during recovery, or one after a refusal; three attempts is the default and leaves an
attempt between the first and the last; two tasks, two documents, two DELETEs,
two handlers and two connections are the least for two actors to meet, three
requests on two connections the least for the pool to be short. Four pages are
the least on which both retry thresholds (30 and 60 percent) separate from none and all;
pages 1, 3 and 6 have a gap that merges and one that does not; three sections in
groups of two make two groups, one of which may name the other's sections; lengths
1, 2 and 4 end before, at and after a window of 3 with its separators (an overlap as large as the window is
left to the theorem); four loads
let two be overtaken before one that stays. Larger instances that take too long
to run each time were checked once and pass: the queue with two
faults (2.65 million states), three checkouts (safety), and
`BrowserAccount` with three fetches and two chats. Deadlines count
down in ticks: two ticks let an event fall before, at and after a
deadline. A deadline that has passed stops counting once no guard can tell the
difference (`Elapse`), which keeps the state space finite without bounding time.

`CHECK_DEADLOCK FALSE` is set throughout: a system whose documents are done,
whose user has gone or whose events are all acknowledged rests.

### Fairness, and what justifies it

* `DocumentQueue`: time passes; a process is restarted (`restart: unless-stopped` in
  `docker-compose.prod.yml`); a task of a running process claims, and applies an
  outcome; a load returns. No stage is assumed to end: the timeout cuts it off.
* `AgentGraph`: the graph's task and the generator run on (asyncio); models
  answer or raise (client timeouts).
* `DodoWebhooks`: the provider delivers until it is acknowledged (strong
  fairness for each event: deliveries keep failing and coming); a request that
  arrived runs on (weak).
* `UsageMetering`: a request runs on, and waits no longer than the pool's timeout.
* `Checkout`: a request runs on through its steps (threads and asyncio; the
  provider's client times out), and the database ends a wait of two
  transactions for each other's rows. No fairness for beginning or buying.
* `PdfViewer`, `BrowserAccount`, `Conversation` and the processing modules have safety
  properties only and assume none.
* `DocumentSession`: responses arrive or fail, timers fire. No fairness for users.

### Defects met that have no run of their own

The properties of the passing runs name the condition under which each happens
(`queueBroken`, `superseded`, `readEarly`, the root of a stored tree, "plain" rows), and
hold outside it; `hazards` in `PROJECT.json` gives the lines.

* `PdfDocumentLoader.pdfWorkQueue` is one promise chain whose catch rethrows. After one
  document fails to open, or is torn down while opening, no document opens
  until the page is reloaded.
* A load overtaken by the next leaves its error over the document on display.
* While a document loads, a scroll saves the old document's page for the new one.
* `_collapse_headers` takes rows without three numeric cells for pieces of a
  header: such a table keeps its header and no data. `RowsReachOneResult` follows what the code takes
  for data rows, so it does not see this.
* A retry by OCR that is taken over drops its own complaint that pages lack text, by its wording
  (`structure.py`), and a retry of the document may lack pages the first pass had.
* Files the storage fails to delete stay (`documents.py:250` swallows the failure), and nothing refers to them.
* What stands before the first heading is not stored when there is a heading.
* Two first checkouts create each product twice; an event without metadata for
  the product recorded first then grants no plan.
* Every product has a count of 1, so each start of the API labels yearly plans monthly
  (`plan_catalog.py:54`); not modelled.
* `append_trace` (`document_state.py:279`) reads a list and writes it back, and two chats that end
  together lose a trace; an upload that replaces the session keeps the metadata of the
  messages before (`document-session.service.ts:491`); a round of polling that ends after
  the last document was closed finds all of none ready (`:672`). Not covered.

### Assumptions

* Queue: a source PDF is loaded, or fails to, within the lease of its claim (30
  minutes by default), and so is a failure to load it settled whose own status was refused;
  a commit takes effect and says so, or does neither; a timeout need not fire at the instant it is due.
  A refused claim, start, or report of a late thread changes nothing and is tried again or lost,
  which is a stutter of the model.
* One API transaction is atomic at READ COMMITTED statement level.
* The plan of a user does not change within a day.
* Yield dependencies end before the response is sent (FastAPI 0.115), so the
  meter of an upload is committed before the client reads the answer.
* A document has figures and chunks; an empty set of either is a run whose
  storing step does nothing.
* Processing: the partition gives at most one element a page in `PdfExtraction`
  (the gate looks at pages); boxes are places, equal or apart, in `DocumentTree`; a row below
  the first is one with three numeric cells or not, and first rows are equal or
  dissimilar, in `TableExtraction`; a text is its number of tokens, and equal texts are
  one watermark candidate, in `Chunking`; an answer is the sections it names, blank, or
  malformed, in `SectionEnrichment`.
* Viewer: only a damaged document fails to open, to lay out or to paint; the passes over a document end when it is destroyed (pdf.js rejects them);
  zoom, search, thumbnails and jumps to a citation change none of the state that is
  modelled; a viewer that is gone paints nothing.
* Account: the meter is that of chats; uploads raise others of the same status, nothing fetches it
  after them, and nothing is claimed of what it shows of them; a token is the user it was signed for; a page is not reloaded within a behaviour.
* Checkout: the provider lists every product it has created; metadata of an
  event may be missing, never wrong.

## Proofs

Each theorem holds for every value of the constants: any numbers of documents,
tasks, handlers, requests, users and clicks, any limits, deadlines and retry
settings. Every module has its type invariant and the invariants and action
properties that its run checks, except those under "Only model-checked".

| Module | Theorems | Properties |
|---|---|---|
| `DocumentQueue_proofs` | `TypeCorrect`, `ExclusiveRuns`, `FailedOnlyExhausted`, `SuccessKept`, `StrandedByFault`, `Implements` | `TypeOK`, `OneTaskPerDocument`, `FailedMeansExhausted`, `SuccessIsFinal`, `StrandedOnlyByFaultOrLateReport`, `ImplementsLifecycle` |
| `Concurrency_proofs` | `SemaphoresAccount`, `CappedWhileMadeOnce` | `Accounts`, `MadeOnceIsCapped` (when `GatesAreCapped` holds after all) |
| `Documents_proofs` | `ArtefactsTypeCorrect`, `ReadyComplete`, `ChunksWithRow`, `DeletedStaysUnready`, `EnrichedKept` | `ArtefactsTypeOK`, `ReadyIsComplete`, `ChunksHaveTheirRow`, `DeletedIsNeverReady`, `EnrichedIndexIsKept` |
| `Documents_proofs` | `ChunkingTypeCorrect`, `DocumentIsChunked`, `EnrichmentTypeCorrect`, `IndexIsOfTheLastGroup`, `DocumentsTypeCorrect` | `ChunkingTypeOK`, `ChunksCoverTheDocument`, `EnrichmentTypeOK`, `IndexFollowsTheGroups`, `DocumentsTypeOK` |
| `DocumentTree_proofs` | `TreeTypeCorrect`, `TreeKeeps`, `TreeWellNested` | `TreeTypeOK`, `TreeKeepsWhatIsFound`, `TreeIsWellNested` |
| `Extraction_proofs` | `PdfTypeCorrect`, `RetryCosts`, `TablesTypeCorrect`, `RowsReachTheirResult` | `PdfTypeOK`, `RetryCostIsBounded`, `ExtractionTypeOK`, `RowsReachOneResult` |
| `Billing_proofs` | `WebhooksTypeCorrect`, `AppliedOnce`, `NewestDecides`, `PaidPeriodKept` | `WebhooksTypeOK`, `AppliedOnceWithItsLedgerRow`, `NewestEventWins`, `PaidPeriodIsKept` |
| `Billing_proofs` | `CheckoutTypeCorrect`, `PaidIsGranted`, `MeteringTypeCorrect`, `OverrunBounded`, `UploadIsStored`, `MetersHold`, `BillingTypeCorrect` | `CheckoutTypeOK`, `PaidPlanIsGranted`, `TypeOK`, `OverrunIsBoundedByOverlap`, `MeteredIsStored`, `MetersAddUp`, `BillingTypeOK` |
| `Frontend_proofs` | `TabsTypeCorrect`, `PendingPolled`, `TwiceByOverlap`, `ConversationTypeCorrect`, `AnswersFollow`, `TrustBelongs` | `TabsTypeOK`, `PendingIsPolled`, `TwiceOnlyByOverlap`, `ConversationTypeOK`, `AnswersFollowTheirQuestions`, `TrustBelongsToItsAnswer` |
| `Frontend_proofs` | `AccountTypeCorrect`, `ReadersAccount`, `ViewerTypeCorrect`, `ViewerShows`, `ReaderTypeCorrect` | `AccountTypeOK`, `AccountIsTheReaders`, `ViewerTypeOK`, `ViewerShowsTheLast`, `ReaderTypeOK` |
| `Frontend_proofs` | `ChatTypeCorrect`, `SentIsJudged`, `RetryDiffers`, `StreamWellFormed`, `GraphIsBounded` | `TypeOK`, `SentAnswerWasJudged`, `RetryChangesTheSearch`, `StreamIsWellFormed`, the bound of `GraphEnds` |

Hardly any of these properties is inductive. The proofs go through invariants
that are (`IInv`, `GatesInv`, `CutInv`, `EnrichmentInv`, `PdfInv`, `TablesInv`, `TreeInv`, `ArtefactsInv`, `GraphInv`, `WebhooksInv`, `CheckoutInv`, `MeteringInv`,
`TabsInv`, `ConversationInv`, `AccountInv`, `ViewerInv`), a conjunction of named
parts, with one lemma per action or per kind of action; TLC checked each of them before it
was proved (`SumsInv` as the property it rewrites, `CoverInv` as the property it leads to: its tokens are all natural numbers). Why they are needed:

**Queue.** That two tasks do not share a document is not inductive: a claim
looks at the row and not at the tasks. `IInv` says what a row looks like while
a task works on its document (`OwnedRow`): before the load is over the lease is
exactly what is left of the load, from then to the last write the status is
in-flight, and then it is the outcome the task will settle with, an in-flight one where
the write of the outcome was refused or a late thread reported, or still "queued", with the lease of
its claim, where that of a failed load was refused (`OnLease`). None of these is due, so `Claim` gives a
document its first owner only; recovery runs when a process starts, and with one
process no task is working then. `FailedMeansExhausted` needs `IInv` because
`mark_failed` flushes only changed columns: the attempts it writes are those of
the claim's copy. `SuccessKept` follows step by step: a document that
is ready is owned by nobody or by a task whose outcome is that success. These
three and `Implements` are for one worker process (`OneProcess`);
`two_workers` shows that the assumption is needed. `TypeCorrect` and `StrandedByFault`
hold for any number: each end of a run takes the status out of the in-flight ones with the step that
ends it, unless that write is refused, and a settlement writes none of them, whoever else is at the document.

**Gates.** `GatesInv`: a task is inside exactly the gates its place in `Program` says, a semaphore's
free places and those inside make up its limit, and nobody waits for one that was not made.
It holds for any limits; with the run `concurrency` it says that the cap is lost
only by making a semaphore anew. `GatesSetting` is the theorems' hypothesis: finitely many tasks, natural limits.

**Chunks.** That nothing is lost says something at the end only. `CutInv` says it of what was cut
so far: the part of a page before `windowAt`, and every page of the section that is not left, is in
chunks (`CoverInv`); a page is cut once (`PlaceInv`), so `ItemInv` and `OverlapInv` can say where the
next chunk goes; two windows that follow each other share `ChunkOverlap` tokens, one less than a window if the overlap is
set longer, unless a window is a single token (`ChunksAreWindows`: one on a separator is no chunk). What `Spans` and `PageOrder` compute are
folds (`FoldTheorems`): `FoldsUp` is the function a fold is defined by, that there is one (`FoldsExist`) and what it keeps from
step to step (`UpTo`) go by the least counterexample, so that `SpansAre` says
that the spans of a page are those of all its texts but watermarks, one after the other, and `PagesAre` that every page with
a text comes once.

**Enrichment.** `EnrichmentInv` says little: from the first call on the groups are what `Packed` or `Batches`
makes of the document, and the index what the merge makes of the answers that are there at the end. What these
compute is the theorem. `Pieces`: the groups are cut by growing bounds, kept by each section that is
packed (`PackOne`), so that every section is in one group (`OnePiece`) and the groups together
are the document (`PiecesFlatten`). `LastSays`, kept by each group that is merged: the
entry of a section is that of the last group, so far, that names it.

**Extraction.** `PassInv` says that before the retry there is one output, of the fast pass.
The rest is what the pages of an output are: an output is a sequence in the order of its pages, and
`Kept`, which stands for the program's list comprehensions, is a fold (`KeptByElement`), so what it keeps, that it keeps
the order, and that it goes through a concatenation follow by appending one element
after the other (`ByAppending`). Of a merged output every page comes from one of its two parts (`MergedIs`). A retry is taken over only with
fewer complaints; one of the document that lacks a page has a complaint, so it replaces a pass with two
(`GateNotices`).

**Tables.** `StageInv`: up to the merge the results are the reported tables, each alone and once, but for
those superseded (`Unmerged`; `StreamBeside` shows it for the step of the stream parser). The merge is a
fold; `MergesTo` is what holds after each table of it: the parts seen so far stand in one place each (`Placed`) and every
result is what its parts make it (`WellMade`). A table goes on where the last one ends only by its page, and for that they
come by page (`Ascending`); sorting loses none, since an injection of finitely many places is onto (`SortedWell`).

**Tree.** `TreeInv` says of the elements read so far what the two properties say of the finished tree:
sections hang below earlier and shallower ones, and each heading that is open is on the way up from the last (`NestInv`); an element lies
within the pages of all sections around it (`ReachInv`), in one place of one section unless a table covers it
(`HomeInv`); numbers are positions while nothing was dropped (`CountInv`). What each stage adds is `FindInv`:
`TablesHeld` after the matching, `FiguresHeld` after the figures, the stored tree at the end. Matching and insertion are folds,
and `UpTo` carries an invariant from step to step of each: a table that is given is given once, since the
numbers given so far are taken out of the candidates; `WorkInv` says of the figures' fold that sections keep their pages and parents
and that each new element has the next number and one place, `FigInv` that the elements with a figure are
those whose number is used. The last is why an image element may be passed over for a figure of its page only if
its number stands twice: `used` is a set of numbers, and numbers can repeat (`NumbersRepeatOnlyAfterDrops`). TLC found every part of `TreeInv` true on the instance of `documents` before it was proved.

**Lifecycle.** `Implements` takes each action of the queue to one of the lifecycle, or to no
change: `Claim` to `Take`, every status of a run to `Write` or `Abandon`, `Settle` to
`Release`, a death or the end of a thread to `Die`, `Start` to `Recover`. `IInv` is
what gives the phases before the step (a task that settles finds its own outcome or
a late "extracting"), and `OneProcess` that what `Start` recovers has no owner.

**Artefacts.** `Commit` makes a document ready without looking at what there is.
`KeptInv` says what each stage of a run has left behind as long as nobody
deletes, `TransactionInv` that the chunks of the open transaction are there at
the commit. `GoneInv` is the DELETE's side: once its file is gone a run has
the file already or fails, and once its row is gone too the run writes to no row.
`OvertakenInv` ties the reader that is about to store a rebuilt index to the
time it looked.

**Chat.** `BoundInv` bounds the steps at every node by the two counters,
linearly; the retrieval counter passes its cap only by one per outer retry,
because the edge after the retrieval's judge does not reset it. `AnswerInv` and `SearchInv` carry
what was judged and what was searched along the edges to where the property
looks. The router turns a retry to another route, which is not enough: a structural plan
is searched by meaning too when its headings give few sections, and a hybrid plan without headings by
meaning only. `Differs` says of the new plan that whichever ways it takes are not those tried,
with the two exceptions of the property. `StreamInv` lists what may have been sent at each place of
the generator and of the wrapper around it; a timeout may come at any node.

**Webhooks.** `ClaimInv`: two handlers past their claim have different events,
none of them in the ledger, which is what the unique key gives. `ReadInv`: what a
handler has read is still what it will write over, unless another handled the same
subscription meanwhile (`raced`). `PeriodInv` says more of the row than
`PaidPeriodIsKept`: the period is that of the newest event with one, whatever the status.

**Checkout.** `RequestInv` says at each step of a request which of its products were
found, stored or locked; `AloneInv` that without an overlap one request creates products, and
only for plans that have none; `IdsInv` and `GrantedInv` that every id leads back to its plan.
A duplicate of a product may exist, its id never belongs to another plan.

**Quotas.** The bound on a meter says nothing of the requests that were let in
and have not yet been added. `Fits(peak, v, S, taken, limit)` does: of the quotas under the
bound, one for each request of `S` is still unused, but for what was gone (`taken`) at the
check of one of them. A request that is let in uses a quota nobody counted on (`FitsOneMore`), since at most
`peak` are in progress; one that is added frees its own (`FitsOneLess`); a midnight
starts with nothing (`FitsAnew`). The same lemma serves words and bytes, with
the file's size known at the check taken for what will be gone; uploads are counted one by one
(`Counts`). `StoredInv` is what an upload has written at each of its steps. `SumsInv` is
`MetersAddUp` with its sums over functions (`SumOf`), so that a step changes a sum at one place
(`RaiseOne`, `JoinOne`), and `KindInv` says that only an upload comes to where files are metered.
That an element can be taken out of a sum (`SumSplit`) is an induction on the set's size: of the subsets it
fails for, one has the fewest elements (`LeastOfNat`), and taking out what `MapThenSumSet` picks
leads to a smaller one. No induction
theorem with an operator parameter is needed.

**Session.** `KnownInv` and `UploadInv`: the files still to come of an upload are
unknown to the server, so an upload makes no document twice. `OpeningInv`: an open call that passed
its check finds the document open only if another call for it overlapped; the calls are a
bag, so `OverlapInv` also says that a call made twice overlaps itself.
`PendingIsPolled` is inductive with the types.

**Conversation.** `ChatInv`: the answer in progress is the last message, also after the session
was replaced. `TurnsInv` is the property itself by positions; `ReportsInv` says that the only
report standing under a wrong answer stands under the one in progress.

**Account.** `StatusInv` and `SessionInv` say for every call in flight whose it is; `MeterInv`
that what such a call has read of the meter still holds as long as nothing overlapped
it, no event or write was lost and no day ended (`raced`), and that the status on show is one chat ahead of the meter at most.

**Viewer.** Any number of loads may wait for a pass to be cancelled or in the queue
of the loader. `OrderInv`: those that wait for the pass wait together, and unless the queue is broken
the last call opens its document only after all others ended. `ShowsInv` says
from there on what is open and on show at each of its steps, and at the end the document given or, if that one
is damaged, an error; `OvertakenInv` and `PlaceInv` that an error or a wrong place
has one of the causes that the property names.

**Instances.** Three instances hold independent modules, of which one runs (`part`). `PartsRunAlone` says that every behaviour of
the instance is one of each module's specification, those at rest stuttering; so the theorems of the modules
hold of it, and `DocumentsTypeCorrect`, `BillingTypeCorrect` and `ReaderTypeCorrect` put their types together.

### Assumptions of the theorems

The constants' assumptions, one named ASSUME per module, which TLC evaluates on every run: bounds are
natural numbers and limits integers; the value that stands for nothing (`Null`, `None`, `Nothing`,
`NoRow`, `NoDoc`, `NoUser`, `NoChat`, `NoPlan`, `NoProduct`,
`NoOutput`, `NoWords`) is no member of the data; the sets of documents,
events and requests that are counted are finite; the uploads of a session have different
ids (the server makes a new one for each); an event id belongs to one event; the plans of
the catalog have different slugs. `BackoffAssumption` is a fact of arithmetic the provers
do not know: a power of two times the base is a positive number.

### Only model-checked

* Liveness (`QueuedIsServed`, `RunEnds`, `DeliveredEventTakesEffect`, `StatusReachesTheTab`,
  `GraphEnds`, `EveryRequestIsAnswered`): TLAPS has no fairness and no ENABLED.
* The runs that expect a violation: a counterexample is one behaviour, and TLC finds it.

## Not modelled, and why

Third-party calls (PDF parsing, OCR, Camelot, language models, embeddings, the payment
provider's client) appear only as the choices they can make. Left out:

* prompts, embeddings, fusion and reranking of hits, captions: numbers and words
  of remote models, of which no state depends but through the choices above;
* sign-in tokens: stateless signatures and a blacklist nothing fills;
* the Azure backend: the calls of the S3 backend through another client;
* the API process, settings, monitoring, migrations, pages, infrastructure: wiring,
  layout and deployment without state the properties are about;
* the billing status and the customer portal: a read and a call; the pricing
  re-applied at start-up: one update per plan;
* entitlement over several subscriptions of one user (`subscriptions.py:63`):
  `DodoWebhooks` looks at one subscription's row at a time.

`PROJECT.json` lists each component with its reason.

## Plan

Every component on the list above is modelled, and every safety property that a passing run checks is
proved. What the code would gain from next:

1. entitlement over several subscriptions of one user, with `DodoWebhooks` extended by the query of `subscriptions.py:63`;
2. the fusion of hits in `retrieval_utils.py`, once ranks rather than scores are what a property is about.
