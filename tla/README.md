# Verification of orbok

orbok is a desktop application that prepares the documents of the folders a
person adds (text extraction, chunking, keyword and vector indexes) and searches
them, all on the local machine.  This directory holds TLA+ models of the parts
whose correctness depends on the order of steps: TLC checks them on small
instances, and TLAPS proves the main properties for every instance.

Paths are given from `src/`; `crates/` is left out of them where it is clear.

## 1. The system and its parts

Three kinds of actor share one SQLite catalog and a data directory:

- **the window**: one thread running the update function (`app/src/router.rs`),
  with its own catalog connection, and background tasks for searches, reset,
  narrowing, rebuilding and model installation;
- **the preparation loop**: one thread (`app/src/scheduler_host.rs`), with a second
  catalog connection, that runs the jobs of the `index_jobs` table;
- **another process** of the same application: nothing enforces a single instance
  (`app/src/runtime_storage.rs`), and the model store is the part built for it.

| part | state it keeps | operations | hard behaviour | what makes it correct |
|---|---|---|---|---|
| preparation loop (`app/src/scheduler_host.rs`) | bounded in-memory queues, ids it believes loaded (`known`), resource mode, activity and battery | rehydrate from the table, tick, run, complete, retry, fail, trim at idle | the window inserts and deletes rows between any two catalog accesses; every access can fail; the process can stop anywhere | no queued row is lost, no row runs twice at once, attempts bounded, background work yields, every row settles |
| queues and dispatch (`workers/src/scheduler/`) | one bounded priority queue per kind | push, pop by kind and mode, load_persisted, enqueue, cancel_source, pause, resume | retry into a queue refilled meanwhile; backpressure events | order, capacity, an event for every release |
| `index_jobs` (`db/src/repo/jobs.rs`) | rows with a status | enqueue, backfills, set_status, fail, lists, cascades | statements by two connections | a deleted or finished row is never revived |
| managed model store (`search/models`, `db/src/repo/managed_generations.rs`, `workers/src/model_lifecycle.rs`, `model_delivery.rs`) | catalog of generations (current, previous, epochs), directories, a lock file | startup recovery, install, activate, validate, roll back, clean up | crash between durable steps, power loss, damaged files, two processes, mixed builds | the catalog stays coherent and never names an incomplete generation; there is a proven fallback; what search has loaded is not pulled away |
| model resolution (`app/src/bootstrap/model_resolution.rs`, `search_model.rs`) | the loaded model and its shared lock | activate, resolve again | lock held for the lifetime of the window | a loaded model is the current one |
| folder scan (`data/fs/src/scanner.rs`) | `files` rows: status, hash, generation last seen | scan, mark missing, restore, erase what is left out | files change during the walk; unreadable directories; overlapping scans; narrowing during a scan | what search shows belongs to the file as it was last seen |
| workers (`extract.rs`, `chunk_and_index.rs`, `embedding.rs`, `recovery.rs`; `chunks.rs`, `embeddings.rs`, `files.rs`) | extractions, chunks, keyword rows, embeddings | extract, chunk, embed, reuse, deactivate, reactivate | cached text evicted before chunking; the file changed since the job was queued | exactly one active set of chunks per file, of one extraction |
| extraction cache (`data/cache`) | bounded store of extracted text | put, get, evict, trim, purge | eviction under a job | eviction costs time only |
| folders (`sources.rs`, `source_lifecycle.rs`, `bootstrap/sources.rs`, `folder_cover.rs`) | `sources` rows, coverage of subfolders | add, absorb, narrow, widen, remove | an overlapping folder absorbed while its scan runs | no file belongs to two folders or to none |
| cleanup and reset (`db/src/repo/cleanup.rs`, `cleanup_service.rs`, `app/src/backend_actions.rs`) | cleanup plans | delete an index and queue its rebuild, purge, reset | a crash between deletion and requeueing | what is deleted is rebuilt |
| search session (`app/src/router.rs`, `search_flow.rs`, `ui/src/state.rs`) | query, results, open details, progress | submit, complete, remove, retry, clear | answers come in any order; messages name results by index | a busy page has a search under way; a retry acts on the file it names; nothing is recorded once that is off |
| search engine (`search/engine`, `bootstrap/search.rs`) | none of its own; reads catalog, cache and disk | match by word, trigram and vector, fuse, one row per file, look up, text and trust of a row | a statement at a time, while files and folders change | a full page, best first, inside the place asked for, true of the files |
| model installation flow (`app/src/model_flow.rs`, `download.rs`, `search/models/src/readiness.rs`) | readiness, consent, progress | choose, consent, download, cancel, save, load | answers of an earlier attempt; concurrent transfers, stalled servers, cancel | no page waits in vain; only trusted bytes are installed; every download ends |
| notices and retries (`ui/src/notice.rs`, `app/src/notice_retry.rs`, `result_launch.rs`, `trust_actions.rs`) | the notice shown and its retry | retry, prepare again | a retry outlives what it is about | a retry does what was asked |
| runtime context (`app/src/runtime_context.rs`, `main.rs`) | sealed paths | start, exit | none | paths are private |
| catalog (`db/src/catalog.rs`, `migrations.rs`) | connection, pragmas | open, migrate | `synchronous=NORMAL` may lose the last transactions | a migration is all or nothing |
| settings, privacy, history | single rows | load, save | none | – |
| text extraction, chunk cutting (`pipeline/extract`) | none | extract, cut, overlap | limits met in a different order by each format; positions handed on as text | nothing cut without a warning, no phrase torn, a chunk names its own text and headings |
| embedding backends (`search/embed`) | a loaded model | infer | – | – |
| views, wording, themes (`ui/src/views.rs`, `i18n.rs`) | none | layout | – | – |
| benchmarks (`bench`) | none | measurement | – | – |

`PROJECT.json` lists the same parts with their status, and every hazard at its line.

## 2. Modules

| module | what it is |
|---|---|
| `SchedulerQueues` | the bounded queues as operators: where a job is inserted, which kind is served next in which mode |
| `SchedulerHost` | the loop, its scheduler and the `index_jobs` table, composed with the window (extends `SchedulerQueues`) |
| `JobLedger` | the abstract specification of background preparation; `SchedulerHost` implements it |
| `ModelGenerations` | the catalog of generations as a value and its transitions as guards and functions (`search/models/src/generation.rs`) |
| `ManagedModels` | processes, lock, disk, crashes and power loss around that catalog (extends `ModelGenerations`) |
| `ModelDelivery` | one download: copies, concurrent transfers, cancel, the channels to the window |
| `ModelSetup` | the pages of the wizard, their tasks, search's model and the loop's model |
| `FileIndex` | one file on its way into the search index and out of it: scan, workers, catalog rows, extraction cache, window, disk |
| `SearchableText` | the abstract specification of what search shows of a file; `FileIndex` implements it |
| `Folders` | the added folders and their files: add, take in, narrow, widen, remove, check, against scans, failures and crashes |
| `Notices`, `AppState` | the notices and the state of the window as values, with what each message does to them (`ui/src/notice.rs`, `state.rs`) |
| `Window` | the router, its tasks and what each page offers (extends `AppState`) |
| `Search` | one search, from the submit to the page of results, beside changes of files and folders |
| `Chunking` | the extractors, their limits and the chunker on small files of each format |
| `MCSchedulerHost`, `MCManagedModels`, `MCFolders`, `MCWindow`, `MCSearch` | TLC instances; the other modules need none |
| `..._proofs` | theorems about the module they are named after; `ManagedModels_proofs` and `SchedulerHost_proofs` also about the module theirs extends, `ModelInstall_proofs` about `ModelSetup` and `ModelDelivery` |

How they fit together: `SchedulerHost` decides which job runs, `FileIndex` what a job does
to one file, `Folders` which files there are; each leaves open what the others decide, so
that its steps cover every order the others allow.  `ManagedModels` has installation from
the catalog's side, `ModelDelivery` its transfers, `ModelSetup` the window's side.
`Search` takes what the first group leaves in the catalog, in any order of changes.
`Window` sends the requests the others answer.

### 2.1 SchedulerHost

`run_loop` is one thread, so the model has a program counter `pc` and cuts an
iteration where the code touches the catalog again; the window's statements fall
in between.

| pc | code | actions |
|---|---|---|
| `down` | process not running | `Start` (fresh scheduler, then `resume` or `pause`); `Stop` ends a session from anywhere, as an exit or a crash |
| `top` | stop, battery and activity checks; before the first of them, and after a change of model, `backfill_embeddings` | `Observe`, `Backfill` |
| `tick` | `Scheduler::tick`, and if it hands out nothing the list that `rehydrate` reads | `Tick`, `TickFindsNothing` |
| `loadQueued`, `loadBlocked` | the two loops of `rehydrate`, one row per step | `LoadQueuedRow`, `QueuedRowsDone`, `LoadBlockedRow`, `BlockedRowsDone` |
| `retick` | the second `tick`, and `indexing_is_idle` if that finds nothing either | `Retick`, `FindIdle` |
| `trim` | `trim_extraction_cache_to` | `TrimExtractionCache` |
| `check` | `job_is_still_queued` | `Dispatch`, `SkipStale` |
| `run` | the worker and its outcome | `WorkerQueues`, `Complete`, `Retry`, `FailForGood` |

The window is `WindowQueues`, `WindowRemovesSource`, `FileErased`.  Rows are numbered
in the order of insertion, so a list by status is a list by number.  `status` keeps
`unborn` and `gone` for rows not there.  The statuses `running`,
`waiting_for_dependency` and `canceled` are never written by these paths and are
left out.  A job is a record of its id, kind, folder, priority and attempts.

History variables (`failures`, `unrecorded`, `misfiled`, `unchecked`) take no part in
any guard; they say for which rows a write or a lookup has failed in this session, or how often
a job failed, so that properties can name exactly those.

### 2.2 ManagedModels

`catalog` is one value (current, previous, registered, manifest and state of each
generation, epoch) and changes by the operators of `ModelGenerations`, which are the
transactions of `managed_generations.rs`.  `place` is the directory a generation is in,
`content` the manifest its files are complete for.  The exclusive lock is `owner`,
the work under it `step` and `subject`; the shared lock is `searchModel`.

- startup (`run_managed_model_startup_with`), which walks the staging directory and then the
  generations as each was when it was read (`listed`) and gives up at the first error (`Exit`): `BeginStartup`, `Advance`, `RecoverStaged`,
  `RegisterRecovered`, `StagingDone`, `RecoverOrphan`, `OrphansDone`, then one of
  `NoCurrent`, `ValidateCurrent`, `RollBackAtStartup`, and `ReleasePrevious`;
- installation (`execute_generation`): `BeginInstall`, `FilesStaged` or `StagingFails`,
  `Promote`, `RegisterPromoted`, `Activate`, then `ConfirmActive` or `RollBackInstall`;
  `InstallGivesUp` is a refused or failed step, and a rollback whose write fails leaves the
  generation that did not confirm current (`model_delivery.rs:256-258`);
- cleanup (`cleanup_managed_model_generations`, which has no caller in the application
  yet): `BeginCleanup`, `RemoveGeneration`, `EndCleanup`;
- users: `ResolveForSearch` keeps the shared lock, `ResolveForLoop` does not;
- the world: `Exit` (also a crash, at any step), `Damage`, a misread file
  (`Verdicts`), `Checkpoint` and `PowerLoss`.

A process has a build, and a build one manifest: two builds may have a profile open.
Renaming a directory and syncing both parents is one step, the transfer of the files into
staging is one step here that completes or leaves something incomplete (section 2.8 has its steps), and
`state_revision`, which only grows and is compared under the same lock, is left out.
The check of a transition's result (`next.validate()`) is not modelled as a refusal:
`CatalogCoherent` says it never refuses.

### 2.3 FileIndex

One file, from the disk to the chunks search reads.  Its contents are numbered in the
order they appear, and a content stands for its hash, its metadata and its text;
`Textless` and `Oversize` say which have no text or are over the folder's limit.  The
chunks of one extraction come and go together in the code (`insert_bundle` and the status
updates are single transactions or statements), so `chunks`, `textOf`, `keyword` and
`vectors` are functions of the extraction.  `cache` is the entry of `ExtractSegments` for
the file: the fingerprint it was stored under and the text in it, which may be of two
contents.

| `pc` | code | actions |
|---|---|---|
| `idle` | between two jobs | `Take`, `Trim` |
| `scan` | `process_file`, up to its first write included | `ScanNew`, `ScanUnchanged`, `ScanReturned`, `ScanChanged`, `ScanAbsent`, `ScanUnreadable`, `ScanDenied`, `ScanOversize` |
| `scan_enqueue`, `scan_reactivate` | its second write | `ScanEnqueue`, `ScanReactivate` |
| `scan_missing`, `scan_deactivate` | `mark_missing_unseen`, `deactivate_for_missing_files` | `ScanMissing`, `ScanDeactivate` |
| `scan_evict` | `evict_extracted` | `ScanEvict` |
| `extract`, `extract_put`, `extract_record`, `extract_enqueue` | `ExtractionWorker::run`, cut at the read, the cache, the record and the job | `Extract...` |
| `chunk`, `chunk_store`, `chunk_evict`, `chunk_again`, `chunk_embed` | `ChunkAndIndexWorker::run`, cut at the read, `reuse_existing_chunks` or `insert_bundle`, the eviction and the job | `Chunk...` |
| `embedding`, `embedding_store` | `prepare_batch`, `persist` | `Embedding...` |
| `cache_missing`, `ok`, `error`, `fatal`, `replaced`, `file_fails` | the outcome in `run_loop`; `fail_with_category` writes the job and then the file | `RepairMiss`, `Complete`, `Retry`, `FailForGood`, `FileFails`, `FailReplaced`, `Abandon` |
| `down`, `backfill` | process not running; the loop before its first job | `Start`, `Backfill`; `Crash` leads to `down` from anywhere |

The window is one thread too, and `window` says which handler it is in the middle of:
`PrepareSourceAgain`, `ListFailed`, `PrepareFailed`; `DeleteKeyword`,
`BackfillExtraction`; `DeleteVectors`, `BackfillEmbedding`; `RemoveReplaced`,
`CleanupMissing`; and in one step `PrepareAgain`, `ClearText`, `RemoveFolder`,
`AddFolder`.  The file is changed by `Change`, `Vanish`, `Return` and `Revert`, at any
moment.  A folder removed under a job sets `orphan`: the job's statements then
fail or match no row, and only what it does to the cache is done.

Which job the loop takes is left open, which covers every order `SchedulerHost` can
choose, and so is whether a failed job is tried again.  Abstractions: one file in one folder;
one embedding model, always present, whose writes for a file are one step; files of unsupported
types are left out; a new `seen_generation` is `seen` being false; the steps of startup are one, since
nothing else runs before they are done; the idle test and the trim are one step, because
`ClearText` does the same without the test, at any time.

*Lapses.*  Many states of a file that nobody would want are the outcome of a circumstance
that can be named; `lapses` records which have occurred and takes no part in any guard.
`PreparedAsPromised` says that nothing else goes wrong:

| lapse | circumstance | what it leaves |
|---|---|---|
| `mixed` | the file changed between being read and being cached (`extract.rs:62-67`) | old text under the new fingerprint |
| `returned` | a missing file is back, and its newest chunks are not those of its recorded content, or have no keyword rows, or the process died before they were made active (`scanner.rs:338-340`) | search finds an older text, or nothing |
| `waiting` | a file that was never prepared went missing and returned after its job had failed (`scanner.rs:317-326`) | `discovered` with no job until the next start |
| `needs_update` | a job failed for good with the file `stale` and still searchable, or the process died before a changed file was queued (`jobs.rs:338-356`, `scanner.rs:364-379`) | `stale`; preparing the folder again does not queue it, since neither its hash changed nor is it `failed` (`sources.md:102-104` says it prepares what changed) |
| `no_text` | a prepared file has lost its text (`chunk_and_index.rs:81`) | status No text, while search still finds the old chunks |
| `no_record` | the cache has the text and the catalog no extraction record | every later extraction finds it fresh and records none; section 6 |
| `denied` | not even the metadata could be read (`scanner.rs:244-252`) | `permission_denied` stays when the file is found unchanged later |
| `unindexed` | the process died between deleting the keyword index and queueing the rebuild, a chunk job with its rows written but not yet completed made the file look busy then, or the rebuild failed (`cleanup.rs:135-154`) | active chunks without keyword rows |
| `unrepaired` | a first cache miss queued nothing because another chunk job of the file was waiting (`jobs.rs:245-249`); that one's miss is then the second (`lib.rs:69-71` says the first re-queues) | failed jobs |
| `clash` | a chunk job meets put-aside chunks of the newest extraction (`0001_baseline.sql:122`) | the insert violates the unique index, and the job fails |
| `reverted` | an older content was put back that the recorded one, or the newest, equals | the fingerprint of another moment matches |
| `still_active` | the process died between marking the file missing and putting its chunks aside (`scanner.rs:178-184`) | later two active extractions, until the next insertion; `chunks.rs:517-519` says at most one |
| `put_back` | an older content was put back, whether or not a fingerprint matches | chunks may be found again with the vectors of another version; no harm to what text search finds |
| `text_kept` | the eviction of a left-out file failed or was cut off, or its folder was removed, which leaves the cache alone (`sources.rs:311`) | its text stays in the cache; no harm otherwise |

### 2.4 Notices, AppState, Window

`AppState` is the state the views are drawn from, as one record `ui`, and `Update` what
`AppState::update` does to it; the arms of `apply` are operators by page (`SearchArm`,
`LocationArm`, `FoldersArm`, ...) that each leave other messages alone.  `Notices` has
each notice with what raises it, the message of its button and the events that resolve it.

`Window` is the router.  A step is one message: `Press` takes one that the page, the
question, the notice or the keyboard *offers* (`Offered`, from the views), `Arrive` one a
task answers.  The message goes through `Route`, which reads and writes the catalog and the
settings, updates `ui` and starts tasks; a confirmed question or a notice's button sends
another message through it (`Redispatch`), as in the code.  Tasks are a bag and end in any
order: searches, pickers, reset, rebuild, narrowing, measurement, launches.  `LoopReports`
is what the loop tells the window, `Restart` loads the state anew.

`saved` is what the settings file says of recent searches, and `SettingsReads` what a handler that
reads it is given: where the file cannot be read, the defaults, which remember; where it is missing or
was set aside, these are written too.  `mistaken` is a history variable: of the searches kept, those
recorded against the file because a read of it failed.

`Plan` says what a person sets out to do: the pages visited, the messages used, the
folders chosen and the requests that may fail.  A plan is one of five sets of features that
meet in the code; all of them together are out of TLC's reach.

Abstractions: the wizard (its pages are `ModelSetup`), themes, text size, focus, filters and
the selection on the Folders page are left out; folder ids are paths; counted lines and the
relabelling of a trust state are left out; two of four cleanups stand for all; the two rebuild
questions share one field, since only one can be open; the history never reaches
`max_entries`; `FocusSearch` is `Switch("Search")`; no view offers `RemoveRecentSearch`.

### 2.5 ModelSetup

The wizard's `page`, its tasks (picker, download, save, load) and their answers in any
order, `search` (the model search holds), the store, the saved choice, and the loop's side:
reports in a channel, a resolution in progress, and whether another is to follow it.
Each message of `model_flow.rs` is an action (`WizardAccept`, `ModelPersistenceCompleted`,
`WizardRetryModelLoad`, `ModelActivationCompleted`, ...); a load reads the preferred model and
swaps it in two steps; `LoopHears`, `ResolutionReads` and `LoopTakes` are
`run_loop`'s resolution beside its jobs (`pending_resolution`, `resolve_again`).  The correlation of an answer is the pair of the
entry into the Ready page and the attempt, as in the code.

Abstractions: a current generation stays current (damage is `ManagedModels`); ids are numbers
and do not run out; progress figures and focus are left out; a request to stop a download is
heard or not, since the download may end any way; of the other pages' notices only the two
that share the wizard's slot are kept.

### 2.6 Folders

A folder and a file are their canonical paths; `mode` is a folder's coverage, `row` the
status of each file in each folder, `seen` the files of the current `seen_generation`.  `jobs`
are the queued scans, `scan` the one under way, `window` the handler the window is in
the middle of (`absorb`, `undo`, `queue`, `combine`).

| code | actions |
|---|---|
| `add_source`, `absorb`, its undo, `scan_and_index_source` | `AddSource`, `Absorb`, `AbsorbFails`, `UndoAdd`, `QueueScan` |
| `widen_source`, `narrow_to_top_level`, `remove_source`, `check_and_refresh_source` | `WidenSource`, `NarrowToTopLevel`, `RemoveSource`, `RefreshSource` |
| `Scanner::scan`, one file at a time, read and write apart | `BeginScan`, `LookUp`, `InsertFile`, `TouchSeen`, `EndScan` |
| preparation of a file | `Prepare` |
| start: `combine_overlapping_folders`, then every folder is checked | `CombineOverlapping`, `CheckAll`, after `Crash` |

`untidy` is set by an add whose absorbing and undo both fail, or that a crash cut off, until
startup has combined what overlaps; the properties say what holds without it.  Abstractions:
the disk is constant and readable, one file's content and jobs are `FileIndex`'s, a second
queued scan of a folder is the same scan, one process, case-sensitive paths, and enqueueing a
scan does not fail.

### 2.7 Search

`step` cuts a search where it takes the catalog's lock again: `MatchWords`, `MatchGrams`
(for Chinese, Japanese and Korean), `MatchVectors` with both fusions and the choice of one
candidate per file, `LookUp`, `ReadBoundary`, then for each row `RenderText` and
`RenderTrust`.  What the indexes rank is data: `index` gives for each an order of the chunks
that match.  Reciprocal ranks are integers, scaled by `RrfScale`, a multiple of the denominators
of all ranks in the pool (of 61 to 65 in the run), hence exact; ties fall to the order of ids, as in `rrf.rs`.  Between two steps files change, are deleted, scanned, prepared,
and folders are removed or taken in (`EditFile` ... `TakeIn`), each one statement of
what `FileIndex` and `Folders` model in full.

Left out: Fast mode, normalisation and expansion of the query, cutting a snippet, title and
headings, badges, other filters than kind and folder (they have no effect on the query,
`bootstrap/search.rs:33-67`), and the folder chip, which `SubmitSearch` only reads without a place.

### 2.8 ModelDelivery

The worker (`phase`: `begin`, `copy`, `fetch`, `verify`, `promote`, `activate`, `over`) and
the adapter are one task that takes turns: while the adapter hands progress to a full window
channel the worker stands still (`Polled`).  `transfer` is where each file's transfer is;
a server answers, sends a chunk, ends a body or does nothing, and a request without an answer
is given up (`Lost`).  `Spoil` changes a file of the source directory while others are
copied from it, `Cancel` sets the flag, `CloseWindow` ends the window's side.

Abstractions: redirects and hosts, the declared length, one download at a time, progress
figures; the catalog's steps are one (`Activate`).

### 2.9 Chunking

A file is a sequence of items (lines, HTML tokens, paragraphs, pages), a character is known
by its item, column and size in bytes.  `ExtractContent` is the extractor of the format with
its limits, `CutInChunks` the chunker.  Each loop of the code is a `Loop` over the items whose state
is the loop's variables (`LinesRead`, `TokensRead`, `PagesRead`, `SectionsRead`, `ParagraphsRead`: the
lines of a paragraph, the heading stacks, the fence, the buffer), known after every number of items.  `Overlapping` is
`chunk_text`, from which a chunk is embedded.

Abstractions: the parsers behind the formats and their errors, white space, HTML titles that
repeat or hold `>`, ordinals and kinds of place; the share of a window in its lines
is integer division; the marks of fences and headings are not text.

## 3. Runs

| run | instance | shows |
|---|---|---|
| `host` | 2 rows, 1 place per queue, all observations, every access may fail | no row lost, the user and the battery respected, a pause kept, the ledger implemented |
| `host_live` | 2 rows, 1 place, nothing fails | every job settles |
| `models` | 3 generations, 2 processes, one build, 4 starts, damage and cleanup | the catalog coherent, its fallback proven, what is in use kept |
| `models_power` | 3 generations, 2 processes, 2 builds, 4 starts, misreads, power loss, no cleanup | what is registered is complete, and the current and previous generations stay in place, over losses of power |
| `file` | 3 contents, the second without text, 4 extractions, 4 events of all kinds | what search finds when the work is done, and what no step may do |
| `file_live` | 3 contents, the second over the limit, 6 extractions, 4 events of the disk, of the window and of the process | left-out files are forgotten, also with reverts and with their folder gone between; the work ends |
| `folders` | 3 folders below one another, a file in each, 5 requests, 1 crash, every transaction may fail | one folder per file, no file without one, nothing prepared is lost, what is covered is prepared |
| `search` | 2 folders, 3 files of 2 chunks and 2 versions, all 60 requests, 2 rankings per index, 2 changes, failures; all prepared at the start, or the inner folder alone with preparation under way | the page: order, completeness, place, truth |
| `window` | 2 folders one in the other, 2 files, 1 query, 5 plans with requests and reads that fail, 2 tasks in flight | the window against answers in any order |
| `setup` | 1 folder and the store, 2 entries into Ready, 2 attempts, 1 unread report | the wizard, search and the loop against answers of earlier attempts |
| `delivery` | 3 files of one chunk, 2 at a time, room for one message on the way and none at the window | a download against servers, cancel, disk and a closed window |
| `chunking` | every file of up to 5 items in 5 formats, texts of 2, 3 (in 3-byte characters) and 7 characters, all limits small | extraction and chunking of each of them |

**Bounds.**  A queue with one place makes "full" happen with the second job of a kind.
Two attempts reach both retry and terminal failure.  Real capacities are 200 to 10000 and
`MAX_JOB_ATTEMPTS` is 3; nothing in the code compares them with each other, and the
theorems hold for all values.  Three generations are needed for current, previous and
one being installed; a replaced fallback needs three starts, and four let a
crash fall in between; two processes give every pairing of an exclusive and a shared
user.  `MaxEpoch` bounds the number of starts (`i64::MAX` in the code).  Symmetry is
used for generations and processes in `models` and `models_power`, which check no liveness: no
definition chooses among them.  The constants marked "bound" in each module say what the
instance leaves out.

In `FileIndex` an event is something from outside the loop: a
change of the file, a request of the window, a failure, a crash.  The shortest ways to
an undesired state that were found take two to five; four let a change, a
request, a crash and one more meet, and the rest of the loop's interleavings are free.
Three contents are a version, its successor and one more, needed for chunks two versions old.
Only a few behaviours of `file` come to a fifth extraction and stop there; six are more
than any behaviour of `file_live` asks for, so there the bound never ends the work.

Three nested folders are an outer one, one it takes in and one taken in by both; five requests
let two adds, a narrowing, a widening and a removal meet one scan.  In `search` the limits
stand to each other as the real ones do (a page of 2, headroom 2, a fusion of 4, a pool of 5
for 20, 5, 50 and 100; the reciprocal ranks are exact up to 5 candidates): repeats of a file
reach each of them.  In `window` two tasks in flight are two
searches, or a picker and a search, or an erasing task and an add; a third would only repeat
one of them.  Two entries into the Ready page and two attempts
give an answer that is late in either way.  Three files with two
transfers at a time are one that waits; with room for one message a second send waits, and
one message can be left when the worker is done.  In `chunking` seven characters exceed a chunk of six with
an overlap of two; three 3-byte characters are less than a chunk in characters and more
in bytes; five items are enough for a section, a deeper one, text in both, and a limit.

`CHECK_DEADLOCK FALSE` is set where the system may rest: the processes of the store have
exited with no start left; a file, a set of folders or the wizard has used up its events; a
search, a download or a chunked file is done; the window has no feature of its plan left to use.

**Fairness.**  `host_live` assumes `WF_vars(LoopStep)`: the loop is one
thread that waits for nobody; without work it sleeps `IDLE_POLL` (300 ms) and goes on.
The window, failures and restarts have no fairness.  `file_live` assumes `WF_vars(Loop)`, the same
thread as above, and `WF_vars(WindowGoesOn)`: what follows the first statement of a handler
is straight-line code.  The disk, the window's requests, failures, crashes and starts are not fair.
`folders` assumes `WF_vars(Window)`, the rest of a handler or of startup, and `WF_vars(Loop)`.
`delivery` assumes weak fairness of `WorkerStep`, of `AdapterStep` (one scheduled task) and of
`Show` (the window takes its messages); the worker's steps include giving up a request
whose time is over (`model_delivery.rs:604-610`) but not an answer of the server, which may never come.

## 4. Properties

*Host.* `NoQueuedRowOrphaned`: a queued row that the loop skips as known has a
copy, unless the write of its outcome failed.
`EmbeddingYields`: no embedding is handed out while the user is active or on a battery
to be spared.  `PauseHolds`: a
session started with background work off runs nothing.  `ImplementsLedger`: one
job at a time, only pending ones, finished and deleted rows never come back.
`EveryJobSettles`: once a session lasts and is not paused, each unfinished row becomes succeeded,
failed or deleted, provided that embedding is not held back for ever.

*Models.* `CatalogCoherent`: pointers, states and epochs agree.  `PreviousSurvivedRestart`:
the fallback has survived a start of its own.  `FallbackKept`: a generation is
replaced only by one it is the fallback of, and a fallback is given up only for a
validated current one.  `RegisteredIsComplete`: no interrupted transfer is
registered.  `ProtectedKept`: no step removes the directory of the current or the previous
generation: with cleanup and no loss of power in `models`, with losses of power and no cleanup in
`models_power`.  With both it does not hold: a loss of power can undo the transactions after which a
generation was removed (RFC-050:200-201).
`LeaseProtects`: what search has loaded stays current; the loop, which drops its lease, is in no property.

*File.* `PreparedAsPromised`: when the work is done and the file is as it was when its folder was
last checked, the row says what the file is and search finds exactly its present text, unless a
named lapse occurred.  `VectorsMatch`: then no chunk is ranked by the vector of another
text.  `NeverGoesBack`: the detailed model implements `SearchableText`; what was superseded is never
shown again.  `LeftOutIsForgotten`: the text of a left-out file goes with its rows.
`PreparationEnds`: jobs that queue each other come to an end.

*Folders.* `OneFolderPerFile`: outside an add, and once startup has repaired an interrupted one,
no folder lies in another that covers it and no file has two rows.  `RowsAreCovered`: no row is
for a file that no added folder covers, also when a scan began before a narrowing and ends
after it.  `PreparedStays`: only removing and narrowing lose what was prepared.
`CoveredIsPrepared`: a file an added folder covers is prepared in the end.

*Search.* `BestFirst`: no row comes before one that every index ranks at least as high and one
higher, and a file is shown by its best chunk in this sense.  `PageIsFull`: undisturbed, a search
shows a full page or every file that matches.  `RowsAreInScope`: place and kind hold for each
row, whatever moves meanwhile.  `RowsAreTrue`: no text older than the file was when the search
began, and no file called ready that was gone by then.

*Window.* `SearchingHasTask`: a page shown as busy has a search under way.  `RetryNamesItsFile`:
the retry of a file problem acts on the file it names, though it holds an index.
`OffForgetsAll`: with remembering off, and where clearing does not fail, the history holds only
searches whose own read of the settings failed as they ended.  `ErasesOnlyAsked`: work that
erases starts only in answer to its own question on screen.

*Model setup.* `HybridIsHeld`: search by meaning is turned on in a session only when search holds a
model.  `WaitingIsAnswered`: a page with nothing but waiting has its answer under way.
`LatestIsResolved`: the loop rests only on a model read after the last report of a change.

*Delivery.* `PromotedIsTrusted`: only the trusted bytes are promoted, whatever the servers send and
the source directory becomes.  `OutcomeIsLast`: nothing follows the outcome.
`CancelledIsNotInstalled`: a download cancelled while a file was still to be copied or fetched
is not installed.  `EveryDownloadEnds`: and the window is told, or has closed.

*Chunking.* `CutIsWarned`: what is left out of a file is warned of.  `PhrasesStayWhole`: every run
of characters up to one more than the overlap is in a chunk.  `EmbeddedFromOwnText`: a chunk
that is no window is embedded from exactly its own text.  `UnderItsHeadings`: a
chunk carries the headings it stands under.

Two observations that the models make precise without being errors of the
code.  Installation begins only when the current files are not those of the
build's manifest, so with a single build the previous generation never verifies at the
time of a rollback; rolling back to a verified fallback needs two
builds, and two builds mark each other's whole generations invalid.  Search keeps its
shared lock while the window is open, so an installation in that session, or
the startup of another process, gets `StoreBusy` after its timeout.

## 5. Proofs

| theorem | says |
|---|---|
| `HostInvariant` | `Spec => []HostInv` |
| `QueuedRowsKept`, `BackgroundYields`, `PauseIsKept` | `NoQueuedRowOrphaned`, `EmbeddingYields`, `PauseHolds` |
| `HostImplementsLedger` | every step of the host is a step of `JobLedger` or a stutter |
| `TypeCorrect`, `SingleCopy`, `RetriesBounded` | no queue outgrows its capacity; a row has at most one copy; a retry finds room; within a session a row fails at most `MaxAttempts` times, unless looking it up failed (it is then loaded and counted anew) or it has a second copy |
| `StoreInvariant` | `Spec => []ModelsInv` |
| `CatalogStaysCoherent`, `FallbackIsProven`, `LeaseIsKept`, `ProtectedDirectories`, `FallbackIsKept` | the properties of `models` |
| `KnownIsComplete` | `RegisteredIsComplete` |
| `TransitionsAccepted`, `StartupReconciles` | no transition is refused in startup or installation; startup judges the current generation only when nothing is left between catalog and disk |
| `FileTypeCorrect`, `OneExtractionShown`, `ReplacedNotTaken` | types; one extraction's chunks at most are active; no file leaves the search unless missing, left out or removed |
| `SearchNeverGoesBack` | `Spec => NeverGoesBack`: `FileIndex` implements `SearchableText` |
| `PreparationKeepsPromise`, `VectorsAreOfTheirText`, `LeftOutTextIsForgotten` | `PreparedAsPromised`, `VectorsMatch`, `LeftOutIsForgotten` |
| `FoldersInvariant` | `Spec => []FoldersInv` |
| `OnlyCoveredFiles`, `OneFolder`, `NothingPreparedIsLost` | the safety properties of `folders` |
| `LatestChangeWins`, `HybridNeedsModel`, `NoPageWaitsInVain` | the properties of `setup` |
| `SearchingIsSearching`, `RetryKeepsItsFile`, `ErasingIsAsked`, `TurningOffForgets` | the properties of `window`; for the last also that nothing is `mistaken` where the settings can always be read |
| `NothingRecordedWhileOff` | while remembering is off no step adds a search to those kept, except one whose own read of the settings failed |
| `SearchTyped` | types; no page has more rows than `Limit` |
| `PageIsInScope`, `PageIsTrue`, `PageIsInOrder` | `RowsAreInScope`, `RowsAreTrue`, `BestFirst` |
| `PageIsWhole` | `PageIsFull`, if there is room for all chunks of a page of files (`Ample`) |
| `DeliveryIsSound` | `DeliverySpec => []DeliveryInv` |
| `OnlyTrustedIsPromoted`, `OutcomeEndsIt`, `CancelIsHeeded` | the safety properties of `delivery` |
| `TransfersEndFirst`, `FailureStopsAsking` | no transfer outlives the worker's result; after a failure no server is asked for more |
| `CutWarned`, `PhrasesWhole`, `OwnTextEmbedded`, `UnderHeadings` | the properties of `chunking` |
| `PartsInOrder` | types; extracted parts come one after the other; the first chunk is the document |

*Host.*  Assumption: `HostAssumption` (any number of rows, folders, capacities of
at least one, attempts of at least one, any set of failing accesses).  No single property
is inductive.  `HostInv` adds `CopiesSound` (each copy sits in the queue of its kind, with
the kind and folder of its row), `ListSound` (the list being walked has no
row twice, and no row of it has a copy yet unless known), `LoadedOnce` (a row that may be loaded has not
failed in this session, which is what makes a copy's attempts the row's), `RunningRowSound` (about the job in hand
at each `pc`), `ModeSound` and `NothingWhileDown`.  `SchedulerHost_proofs`
shows what insertion, removal and purging do to lengths, copies and order, and has one lemma per action.

*Models.*  Assumptions: `GenerationAssumption`, `ModelsAssumption`.  `ManagedModels_proofs`
shows that each transition keeps the catalog coherent, and has one lemma per action.  The invariant speaks of `catalog` and `checkpoint` alike, so that a power loss, which
replaces one by the other, keeps it; this is also why it is weaker about directories
once both power loss and cleanup can happen (RFC-050 lines 200-201 name the case); the theorem
`ProtectedDirectories` assumes that one of them cannot.
`CompleteInv` is a second invariant beside it, for complete files only.

*File.*  Assumption: `FileAssumption` (any number of contents, extractions and events, any sets of
textless and oversize contents, any events).  Type correctness needs `Typed`: which
kind of job is in hand at each `pc`, that this job is still queued unless its rows are gone (so
that no count goes below zero), and that a chunk job stores only when there is an
extraction record.  The other three rest on `ShownInv`: chunks exist only for recorded
extractions; unless a crash left chunks of a missing file active, the active extraction
is the newest that has chunks at all; a missing file has active chunks at `scan_deactivate`
only, between the scan's last two statements; a file about to be reactivated has none; and a job whose rows are gone sees no row.
`OneActive` alone is not inductive: that reactivation picks one extraction is no use if another is
active, and that it is not older than what was shown needs "active is newest" before.

`PreparedAsPromised` speaks of the state at rest only, when no job and no statement in hand is left
to excuse a gap.  The second half of `FileIndex_proofs` therefore says, of every state, what closes each gap: a row that
is `discovered` or `stale` has a job, or a statement about to queue one (`WaitingHasWork`); so have chunks
without keyword rows (`KeywordOrWork`), a failed row (`FailedSound`) and a file the scan has not come
to since the check was asked for (`CheckedLooked`: a scan is queued that has not passed the file, or it has seen
what the path holds).  A job that is about to be finished does not count (`Future`), since it
does nothing more.  Beside that, each row is of the content it was made from: chunks of a file that is `indexed`,
the text in hand, the text in the cache (`IndexedTrue`, `StoreIsCurrent`, `CacheTrue`), as long as the
row's fingerprint is that of the present content or of the newest, which is the one that can be present again.
`VectorsMatch` needs a weaker relation that survives the steps between: chunks with the vectors of
another text are of a content that was replaced since (`VectorsBehind`), and the check replaces them.  The
lapses enter as `Clean` (those that harm have not occurred) and `Forward` (nor was anything put back).
The invariant is `Typed /\ ShownInv /\ Sound`; each of the parts of `Sound` has a lemma that
each action keeps it.

*Folders.*  Assumption: `FoldersAssumption` (any folders and files, any failures, requests and
crashes).  `FoldersInv` is `CatalogSound` and that overlaps are accounted for.  `CatalogSound` has
the types, `RowsAreCovered`, and what each thread may rely on: jobs and handlers are of added folders,
a scan still `live` scans an added folder, what a handler is about to take in is inside its folder.
The second part (`NoOverlap`) says that two added folders overlap only through the add
in hand, or while `untidy`.  One file having one row then follows, since two folders that
hold the same file lie one in the other.  `PreparedStays` is shown per action.

*Model setup.*  Assumption: `SetupAssumption`.  `SetupInv` says, for each page, which tasks carry its
identities, that a later identity is given to no task yet, and that a task's answer
about a model that was loaded implies search holds one.

*Window.*  Assumption: `WindowAssumption` (any folders, files, queries and plans).  Every message
goes through the whole reducer, so `Window_proofs` first shows what each arm of `Update` keeps: that the
results are files, that a notice's retry is none of the messages which erase or which confirm, and
that a retry with an index names its file (`Good`); and that a page at rest stays so unless the message
starts a search (`Resting`).  `Updates` then keeps them for the messages of one handler (the first message that broke them would be one
`Update` breaks, `WFMin`), and one lemma
per handler says which of them it sends and which task it leaves (`Routed`).  `WindowInv` adds
to `Good` that each task in flight will answer with a message a handler can take (`TaskSound`), and
`SearchingHasTask`, which is inductive only because a search that ends always puts the page at rest.
That an erasing task starts only in answer to its question needs the retries in `Good`: a notice's
button sends the stored message as it is.

*Search.*  Assumption: `SearchAssumption` (any files, folders, requests, catalogs, rankings that name a chunk
once, number of rows and limits; the scale makes the reciprocals of all ranks in the pool exact).
What `Kept` and `InOrder` compute is a recursive function of the data; each is shown to exist, and to
give what it should, by the least place, or the smallest set, at which it would not (`LeastOfThem`,
`SmallestSubset`).  `FusedIs` and `FusedKeepsOrder` then say what a fusion is: all of both lists, or the
best of them, each once, and never a chunk before one that both lists rank at least as high and one of
them higher; this needs that the share of a rank falls strictly (`SharesFall`), which exactness gives.  `SearchInv`
is the types, `HistoryOK` (a search does not see a folder given back to a file, a file that came back,
or an older version), `CandidatesOK` (whatever a list holds is of the place and kind
asked for, and had a row when the search began), `PageOK` (the rows made and
the chunks still to be rendered are in the order of the page; `BestFirst` alone, which speaks of the rows,
is not inductive) and `RowsOK`.
`PageIsWhole` assumes `Ample` as well: `Headroom`, `Pool` and `Width` have room for all chunks of `Limit` files
of `Parts` chunks.  The shipped numbers (20 rows, 5, 100 and 50) are ample for files of at most two chunks, and
section 6 says what happens beyond them.  Its invariant `FullOK` says that while nothing changes
each list is what its index matches now, and that the rows made and the chunks still to be rendered are as many as
the page should have; the rest is counting: a list cut at its limit holds the chunks of `Limit` files
or all there are, the fusion keeps that, and one chunk of each file is left (`TakenIsWhole`, `FusedIsWhole`,
`PickedCount`).

*Delivery.*  Assumption: `DeliveryAssumption` (any number of files, chunks and transfers at a time, any
slack).  `DeliveryInv` adds to the types what each phase of the worker implies (`WorkSound`),
what the window was told and what is still on its way (`ToldSound`), and that a cancel in time
is either still to be looked at or was heeded (`CancelSound`).  The first waiting file exists
by well-founded order (`WFMin`).

*Chunking.*  Assumption: `ChunkingAssumption` (any formats, any bounds and limits, an overlap smaller than
a chunk).  The invariant is `OnItsWay`: the output is what the extractor makes of the content, and the
chunks what the chunker makes of the output.  All else is about what the loops compute for files of any
length.  `LoopGoes` shows, once, that a loop whose step stays in a set has a state after each number of items;
each extractor and each half of the chunker then has a lemma that says what is true after `k` items and one
that a further item keeps it (`UpTo`, from `WFMin`, takes the place of induction).
For `CutWarned` it is that every letter read so far is in a segment or still pending (`LineHeld`), and of
each limit that what it keeps is a beginning and, without a warning, everything.  For
`PhrasesWhole`, that a window starts at most the overlap before the last one's end, and that no trim and no join
takes part of a phrase; the windows, which recur from their start to the right, are built from the last start
down (`DownTo`).  For `OwnTextEmbedded`, that the segments follow each other in lines (`Parted`) and that the
lines of a section, or of a buffer, reach from behind its predecessor to its last segment (`Buffered`,
`NearIs`).  For `UnderHeadings`, that after each line the extractor's stack holds exactly the headings around it,
by strictly rising levels (`StackRight`); that a heading's path is a beginning of the path before it and its own
title (`Grown`), so that the level read back from the path restores the chunker's trail to it (`TrailGoes`);
and that the members of a section all stand under its path (`Trailed`).

Theorems about properties that no run lists (`SingleCopy`, `TransfersEndFirst` and others)
were checked on the same instances before they were proved.

Only model-checked: the liveness properties `EveryJobSettles`, `PreparationEnds`, `CoveredIsPrepared` and `EveryDownloadEnds` (liveness under fairness is out of the
prover's reach).  Every other property of every run is a theorem, `PageIsFull` under `Ample`.

## 6. What was found

Statements of the repository that its code does not keep, or behaviour its authors may not
expect, met while modelling.  The models behave as the code does; the properties of
section 4 say what holds nevertheless.

*Preparation.*
- If the write of a finished job's outcome fails, nothing writes it again in this session;
  `scheduler_host.rs:637-649` says the next iteration does.
- The loop drops the lease of its model, which two comments say is held
  (`scheduler_host.rs:372-374`, 393).
- A file that changes, goes missing before its new version is prepared, and returns is shown by
  its old chunks and called indexed (`scanner.rs:317`); `chunks.rs:512-514` says they "are still exactly right".
- The text is cached before the extraction is recorded (`extract.rs:67`, 74): a folder removed
  in between and added again leaves text without a record, every later extraction finds it
  fresh and writes none, and the file stays failed however often it is asked for again.
  `sources.md:89-91` says a failed file is one that could not be read.
- Removing a folder leaves the extracted text of its files in the cache (`sources.rs:311`), where the next
  folder that holds the file finds it again.
- When an older content is put back, the chunks found for it again can carry the vectors of another version:
  a batch takes its chunks from the catalog and the texts from the cache (`embedding.rs:112-161`), and
  between the two a file that changes, is prepared, and is put back makes them of two versions.  Search
  by meaning then ranks the file by a text it does not have, until it changes again.
- Attempts are counted from zero after a restart (RFC-036:563), and in the same session after a row could
  not be looked up (`scheduler_host.rs:577-592` lets go of its copy, and the row is loaded again); when the write that unblocks a
  row fails the row has a copy while blocked, which `scheduler_host.rs:814-817` excludes (`misfiled`
  in `SchedulerHost`); the trim can run with an extraction queued, which `cleanup_service.rs:308-310`
  excludes, and does no harm; keyword rows of chunks put aside while their file was missing outlive a
  replacement (`chunks.rs:165-166`), which `cleanup.rs:300-304` says no production path leaves; and the
  lapses of section 2.3.

*Folders.*
- An add whose taking-in and whose undo both fail leaves an empty, unscanned folder over others
  until the next start (`untidy`).
- When a widening is committed but its scan cannot be queued, the person is told it was "not widened", and
  files taken in may stay missing until the next start.

*Window.*
- `SearchAgain` never sets the last query, and the Search page draws results or "nothing found"
  only with one (`views.rs:599`; RFC-042:339).
- The folder dialog of the Search page is not modal: a question asked from the Folders page can
  replace the one it led to, and the flag "a folder dialog is open" stays set with none open
  (`state.rs:1665`, `router.rs:404`); choosing an existing folder clears it with one open.
- *Clear* in the Recent searches panel opens a question that only Settings draws (`views.rs:109-113`,
  `state.rs:594-606`); RFC-042:718 says it appears.
- A folder added while a reset compacts is in the catalog when the success clears the list
  (`state.rs:1816`), and a failed reset may replace a list that is newer (RFC-011:256-257).
  Results are cleared by it, the selection is not.
- `state.rs:1203` says a change of view closes every confirmation; the two rebuild questions stay.
- The retry of a `StorageUnavailable` recovery notice holds the index of a result past new
  results (`notice_retry.rs:10`, `notice.rs:145-148`); removing another folder successfully clears the
  notice that one could not be removed; when the save of "do not remember" fails, the window
  shows it off and clears the history, and later searches are recorded again (`backend_actions.rs:68-95`).
- A settings file that is unreadable, cannot be parsed or is missing counts as the defaults
  (`runtime_storage.rs:140-157`, `router.rs:989`), which remember searches (`settings.rs:115`): a search that
  ends then is recorded although remembering is off (RFC-042:602: "If history is disabled, no new search
  entries are created").  After a missing file the defaults are written, so later searches are
  recorded too while the window still shows it off, and a toggle then saves the other settings as defaults
  (`backend_actions.rs:75-76` says that an unreadable file "already loads as defaults").
- A folder added from the Search page whose scan cannot be queued is only logged, and its card stays
  as it was (`router.rs:114-120`).

*Models.*
- Which model is loaded is decided by an order of preference, not by the latest choice
  (`model_resolution.rs:80`); the capability shown at start says "by meaning" although the model may not load.
- The picker's answer can replace the Downloading page, and a second download can then start
  (`state.rs:308-311`, `main.rs:226-230`).
- A failed verification leaves the staging directory until the next start; a current generation with exact
  files but a damaged manifest or marker cannot be repaired by downloading in the same session.
- A cancel during the last copy of a plan that fetches nothing is not heeded.  A failed transfer is told
  only when the other one started has ended, up to thirty minutes later.

*Search and text.*
- `hybrid.rs:312-315` says that a query with enough distinct files still returns `limit` results.  It does while
  the fused list has room for all chunks of the best files; fifty candidates of files with three chunks or more can be
  fewer than twenty files, and Fast mode has no headroom for repeats at all (`hybrid.rs:63-67`).  Filters other than kind and folder do nothing.  A snippet is cut from the present file at
  positions of the indexed one (`snippet.rs:4-5`).
- `embedding.rs:228-230`: "Overlap always includes at least the segment(s) the window was cut from" does not hold: of a
  paragraph on line 1, a blank line, and a longer one on line 3, the second window is mostly line 3 and its
  interpolated lines are 1 to 2.  Hence `EmbeddedFromOwnText` is about chunks that are no windows.
- A window of a section on one line, or page, ends on the next one (`chunker.rs:262`).
- A heading whose title holds `>` raises the level read back from the path (`chunker.rs:112-118`);
  HTML headings nest below each other whatever their levels.
- An empty fenced block with blank lines gives a document chunk of white space only
  (`chunk_and_index.rs:61-62` says "only then").
- Sizes are compared in bytes and cut in characters: a text within the limit may become a "fallback" window;
  HTML warns at exactly `max_segments` blocks though nothing was cut.

## 7. Plan

Done: the preparation loop, the model store, one file's way into the index, folders, the window,
the model wizard, downloads, search, and extraction with chunking, as sections 2 to 5 say.

Left, in this order:
1. `Search` in Fast mode, and the reports the window gets from it;
2. the scheduler's operations without a caller in the loop: `enqueue` with backpressure, `pause` and `resume` in
   mid-session, `cancel_source`;
3. more than one embedding model per file, and batches of vectors as steps;
4. storage estimates and compaction against a running loop.

**Not modelled.**  Settings, themes, text size and locale (single-row reads and writes by one thread); runtime
paths, startup order and process exit (file-system conventions; that nothing keeps a second
process out is used by `ManagedModels`); migrations (a fixed list, a transaction each); embedding
backends (numerical inference); views, wording and themes beyond which message is offered when; benchmarks.
