------------------------------ MODULE FileIndex ------------------------------
(***************************************************************************)
(* One file on its way into the search index and out of it: the scan       *)
(* (data/fs/src/scanner.rs), the extraction, chunking and embedding        *)
(* workers (pipeline/workers/src), the rows they write (data/db/src/repo)  *)
(* and the cache of extracted text they share (data/cache).                *)
(*                                                                         *)
(* The preparation loop runs one job at a time; the window writes to the   *)
(* same catalog and cache, and the file changes on disk at any moment.     *)
(* Each step below ends where a statement or transaction ends.  Which job  *)
(* the loop takes next is left open (SchedulerHost says how it is chosen). *)
(***************************************************************************)
EXTENDS Integers, FiniteSets

CONSTANTS
  MaxVersion,     \* bound: contents the file ever has, numbered in order
  Textless,       \* the contents with no text in them
  Oversize,       \* the contents over the size limit of the folder's policy
  MaxExtraction,  \* bound: extraction records of the file
  MaxEvents,      \* bound: events from outside the loop
  Events          \* which events happen

Version == 1 .. MaxVersion
Extraction == 1 .. MaxExtraction
Nothing == 0                     \* no file, no entry, no text

EventNames == {"change", "revert", "vanish", "unreadable", "denied", "crash",
               "retry", "trim", "ask", "clear", "keyword", "vector", "tidy",
               "folder", "evict"}

ASSUME FileAssumption ==
  /\ MaxVersion \in Nat \ {0}
  /\ MaxExtraction \in Nat
  /\ MaxEvents \in Nat
  /\ Textless \subseteq Version
  /\ Oversize \subseteq Version
  /\ Events \subseteq EventNames

Kind == {"scan", "extract", "chunk", "embedding"}
FileJobs == Kind \ {"scan"}

FileStatus == {"none", "discovered", "indexed", "stale", "missing", "failed",
               "no_text_found", "permission_denied"}

Row == [status : FileStatus, hash : 0 .. MaxVersion, indexed : BOOLEAN]
Entry == [stamp : 0 .. MaxVersion, text : 0 .. MaxVersion]

Pc == {"down", "idle",
       "scan", "scan_enqueue", "scan_reactivate", "scan_missing",
       "scan_deactivate", "scan_evict",
       "extract", "extract_put", "extract_record", "extract_enqueue",
       "chunk", "chunk_store", "chunk_evict", "chunk_again", "chunk_embed",
       "embedding", "embedding_store",
       "cache_missing", "replaced", "ok", "error", "fatal", "file_fails",
       "backfill"}

(* The circumstances that leave a file other than promised; see README.    *)
Lapses == {"mixed", "returned", "waiting", "needs_update", "no_text",
           "no_record", "denied", "unindexed", "unrepaired", "clash",
           "reverted", "put_back", "still_active", "text_kept"}

VARIABLES
  disk,         \* what the path holds
  newest,       \* the newest content it ever held
  folder,       \* the folder is registered
  row,          \* the row of files: status, content_hash, last_indexed_at set
  extractions,  \* number of extraction_records of the file
  chunks,       \* chunk_status of the chunks of each extraction
  textOf,       \* the content those chunks were cut from
  keyword,      \* the extractions whose chunks have keyword rows
  vectors,      \* the content their embeddings were computed from
  jobs,         \* number of unfinished jobs of each kind
  cache,        \* the extraction cache's entry: fingerprint and text
  pc,           \* where the loop is
  hand,         \* the kind of its job
  text,         \* the extracted text it holds
  seen,         \* seen_generation is that of this scan
  erased,       \* the scan erased the file's row
  orphan,       \* the row its job is for was removed under it
  requeued,     \* the file is in requeued_for_cache_miss
  window,       \* what the window is in the middle of
  events,       \* events that happened
  checked,      \* history: the folder was checked and not disturbed since
  lapses        \* history: circumstances that occurred

diskVars    == <<disk, newest>>
chunkVars   == <<extractions, chunks, textOf, keyword, vectors>>
catalogVars == <<folder, row, chunkVars, jobs>>
loopVars    == <<pc, hand, text, seen, erased, orphan, requeued>>
historyVars == <<checked, lapses>>
vars == <<diskVars, catalogVars, cache, loopVars, window, events, historyVars>>

NoRow == [status |-> "none", hash |-> Nothing, indexed |-> FALSE]
NoEntry == [stamp |-> Nothing, text |-> Nothing]

Active == {g \in Extraction : chunks[g] = "active"}
Stale == {g \in Extraction : chunks[g] = "stale"}

-----------------------------------------------------------------------------
(* Statements *)

WithStatus(s) == [row EXCEPT !.status = IF @ = "none" THEN "none" ELSE s]

Enqueued(k) == [jobs EXCEPT ![k] = @ + 1]

(* enqueue_extraction_excluding: no other extract or chunk job of the file *)
(* is unfinished; own is 1 for a job to leave out of account.              *)
Idle(ownChunk) == jobs["extract"] = 0 /\ jobs["chunk"] = ownChunk

Retried == IF row.status = "failed" THEN WithStatus("discovered") ELSE row

(* mark_other_generations_stale and deactivate_for_missing_files *)
StaleExcept(kept) ==
  [g \in Extraction |-> IF g \in Active \ kept THEN "stale" ELSE chunks[g]]

(* delete_superseded_keyword_rows: only of chunks that are active now *)
KeywordExcept(g) == keyword \ (Active \ {g})

(* write_keyword_rows, once those have gone *)
KeywordWith(g) == KeywordExcept(g) \cup {g}

(* upsert, for each active chunk: the vector of the text in hand *)
Embedded == [g \in Extraction |-> IF g \in Active THEN text ELSE vectors[g]]

(* ON DELETE CASCADE of a files row, and the FTS rows erased before it *)
EraseFile ==
  /\ row' = NoRow
  /\ extractions' = 0
  /\ chunks' = [g \in Extraction |-> "none"]
  /\ textOf' = [g \in Extraction |-> Nothing]
  /\ keyword' = {}
  /\ vectors' = [g \in Extraction |-> Nothing]

(* A lapse is recorded once. *)
Lapse(names) == lapses' = lapses \cup names
NoLapse == UNCHANGED lapses

Event(e) ==
  /\ e \in Events
  /\ events < MaxEvents
  /\ events' = events + 1

-----------------------------------------------------------------------------
(* The loop *)

At(p) == pc = p /\ ~orphan

Goto(p) ==
  /\ pc' = p
  /\ UNCHANGED <<diskVars, folder, hand, window, checked>>

(* Most steps of the loop are not events, and leave these alone as well. *)
Calm == UNCHANGED <<events, orphan>>

Take(k) ==
  /\ pc = "idle"
  /\ jobs[k] > 0
  /\ pc' = k
  /\ hand' = k
  /\ seen' = FALSE                \* begin_scan counts the generation up
  /\ UNCHANGED <<diskVars, catalogVars, cache, text, erased, orphan, requeued,
                 window, events, historyVars>>

(* The path guard refuses a path that is not there or over the limit. *)
Admitted == disk # Nothing /\ disk \notin Oversize

(* Mutant: get instead of get_fresh. *)
Cached == disk # Nothing /\ cache.stamp # Nothing

(* get_fresh: the entry's fingerprint is that of the file as it is now *)
Fresh == disk # Nothing /\ cache.stamp = disk

-----------------------------------------------------------------------------
(* Scan *)

ScanSteps == UNCHANGED <<chunkVars, text, requeued>> /\ Calm

(* The walk does not come across the file. *)
ScanAbsent ==
  /\ At("scan")
  /\ disk = Nothing
  /\ Goto("scan_missing")
  /\ UNCHANGED <<row, jobs, cache, seen, erased, lapses>>
  /\ ScanSteps

(* Its directory cannot be listed, or it cannot be read for its hash. *)
ScanUnreadable ==
  /\ At("scan")
  /\ disk # Nothing
  /\ Event("unreadable")
  /\ pc' = "scan_missing"
  /\ checked' = FALSE
  /\ UNCHANGED <<diskVars, catalogVars, cache, hand, text, seen, erased, orphan,
                 requeued, window, lapses>>

(* upsert_status_only: not even its metadata can be read. *)
ScanDenied ==
  /\ At("scan")
  /\ disk # Nothing
  /\ Event("denied")
  /\ row' = [row EXCEPT !.status = "permission_denied"]
  /\ seen' = TRUE
  /\ pc' = "scan_missing"
  /\ checked' = FALSE
  /\ Lapse({"denied"})
  /\ UNCHANGED <<diskVars, folder, chunkVars, jobs, cache, hand, text, erased,
                 orphan, requeued, window>>

(* erase_left_out *)
ScanOversize ==
  /\ At("scan")
  /\ disk \in Oversize
  /\ Goto("scan_missing")
  /\ EraseFile
  /\ jobs' = [k \in Kind |-> IF k \in FileJobs THEN 0 ELSE jobs[k]]
  /\ erased' = (row # NoRow)
  /\ requeued' = FALSE
  /\ UNCHANGED <<cache, seen, text, lapses>>
  /\ Calm

ScanNew ==
  /\ At("scan")
  /\ Admitted
  /\ row = NoRow
  /\ Goto("scan_enqueue")
  /\ row' = [status |-> "discovered", hash |-> disk, indexed |-> FALSE]
  /\ seen' = TRUE
  /\ UNCHANGED <<jobs, cache, erased, lapses>>
  /\ ScanSteps

(* touch_seen *)
ScanUnchanged ==
  /\ At("scan")
  /\ Admitted
  /\ row.status \notin {"none", "missing"}
  /\ row.hash = disk
  /\ Goto("scan_missing")
  /\ seen' = TRUE
  /\ UNCHANGED <<row, jobs, cache, erased, lapses>>
  /\ ScanSteps

(* A missing file is back with the content last recorded. *)
ScanReturned ==
  /\ At("scan")
  /\ Admitted
  /\ row.status = "missing"
  /\ row.hash = disk
  /\ row' = [row EXCEPT !.status = IF row.indexed THEN "indexed" ELSE "discovered"]
  /\ Goto(IF row.indexed THEN "scan_reactivate" ELSE "scan_missing")
  /\ seen' = TRUE
  /\ Lapse(IF ~row.indexed /\ Idle(0) THEN {"waiting"} ELSE {})
  /\ UNCHANGED <<jobs, cache, erased>>
  /\ ScanSteps

ScanChanged ==
  /\ At("scan")
  /\ Admitted
  /\ row # NoRow
  /\ row.hash # disk
  /\ row' = [row EXCEPT !.hash = disk,
                        !.status = IF @ \in {"indexed", "stale"} THEN "stale"
                                   ELSE "discovered"]
  /\ Goto("scan_enqueue")
  /\ seen' = TRUE
  /\ UNCHANGED <<jobs, cache, erased, lapses>>
  /\ ScanSteps

ScanEnqueue ==
  /\ At("scan_enqueue")
  /\ jobs' = Enqueued("extract")
  /\ Goto("scan_missing")
  /\ UNCHANGED <<row, cache, seen, erased, lapses>>
  /\ ScanSteps

(* Mutant: the oldest stale generation. *)
ReactivatedOldest ==
  [g \in Extraction |->
     IF g \in Stale /\ \A h \in Stale : g <= h THEN "active" ELSE chunks[g]]

(* reactivate_last_stale_generation *)
Reactivated ==
  [g \in Extraction |->
     IF g \in Stale /\ \A h \in Stale : h <= g THEN "active" ELSE chunks[g]]

ScanReactivate ==
  /\ At("scan_reactivate")
  /\ chunks' = Reactivated
  /\ Goto("scan_missing")
  /\ Lapse(IF \E g \in Stale : /\ Active = {}
                               /\ \A h \in Stale : h <= g
                               /\ textOf[g] = row.hash
                               /\ g \in keyword
           THEN {} ELSE {"returned"})
  /\ UNCHANGED <<row, extractions, textOf, keyword, vectors, jobs, cache, text,
                 seen, erased, requeued>>
  /\ Calm

(* mark_missing_unseen *)
ScanMissing ==
  /\ At("scan_missing")
  /\ row' = IF seen THEN row ELSE WithStatus("missing")
  /\ Goto("scan_deactivate")
  /\ UNCHANGED <<jobs, cache, seen, erased, lapses>>
  /\ ScanSteps

(* Mutant: what was erased is not evicted. *)
ScanDeactivateOnly ==
  /\ At("scan_deactivate")
  /\ chunks' = IF row.status = "missing" THEN StaleExcept({}) ELSE chunks
  /\ Goto("ok")
  /\ erased' = FALSE
  /\ UNCHANGED <<row, extractions, textOf, keyword, vectors, jobs, cache, text,
                 seen, requeued, lapses>>
  /\ Calm

ScanDeactivate ==
  /\ At("scan_deactivate")
  /\ chunks' = IF row.status = "missing" THEN StaleExcept({}) ELSE chunks
  /\ Goto(IF erased THEN "scan_evict" ELSE "ok")
  /\ erased' = FALSE
  /\ UNCHANGED <<row, extractions, textOf, keyword, vectors, jobs, cache, text,
                 seen, requeued, lapses>>
  /\ Calm

(* evict_extracted; run_scan only logs its failure. *)
ScanEvict ==
  /\ pc = "scan_evict"
  /\ Goto("ok")
  /\ \/ cache' = NoEntry /\ NoLapse /\ Calm
     \/ Event("evict") /\ Lapse({"text_kept"}) /\ UNCHANGED <<cache, orphan>>
  /\ UNCHANGED <<row, jobs, chunkVars, text, requeued, seen, erased>>

Scan ==
  \/ ScanAbsent \/ ScanUnreadable \/ ScanDenied \/ ScanOversize \/ ScanNew
  \/ ScanUnchanged \/ ScanReturned \/ ScanChanged \/ ScanEnqueue
  \/ ScanReactivate \/ ScanMissing \/ ScanDeactivate \/ ScanEvict

-----------------------------------------------------------------------------
(* ExtractionWorker::run *)

ExtractSteps == UNCHANGED <<row, seen, erased, requeued>> /\ Calm

(* The path guard, or the extractor, or localcache fingerprinting the file, *)
(* finds no file to work on.                                                *)
ExtractBlocked ==
  /\ \/ At("extract") /\ ~Admitted
     \/ At("extract_put") /\ disk = Nothing
  /\ Goto("error")
  /\ UNCHANGED <<chunkVars, jobs, cache, text, lapses>>
  /\ ExtractSteps

ExtractUnreadable ==
  /\ At("extract")
  /\ ~Fresh
  /\ Event("unreadable")
  /\ pc' = "error"
  /\ checked' = FALSE
  /\ UNCHANGED <<diskVars, catalogVars, cache, hand, text, seen, erased, orphan,
                 requeued, window, lapses>>

ExtractFresh ==
  /\ At("extract")
  /\ Admitted
  /\ Fresh
  /\ Goto("extract_enqueue")
  /\ Lapse(IF extractions = 0 THEN {"no_record"} ELSE {})
  /\ UNCHANGED <<chunkVars, jobs, cache, text>>
  /\ ExtractSteps

ExtractRead ==
  /\ At("extract")
  /\ Admitted
  /\ ~Fresh
  /\ text' = disk
  /\ Goto("extract_put")
  /\ UNCHANGED <<chunkVars, jobs, cache, lapses>>
  /\ ExtractSteps

(* CacheEngine::set fingerprints the file as it is at this moment.  The    *)
(* job's folder may be gone by now; the cache does not know, and the text  *)
(* stays.                                                                  *)
ExtractPut ==
  /\ pc = "extract_put"
  /\ disk # Nothing
  /\ cache' = [stamp |-> disk, text |-> text]
  /\ Goto("extract_record")
  /\ Lapse(  (IF text # disk THEN {"mixed"} ELSE {})
        \cup (IF orphan THEN {"text_kept"} ELSE {}))
  /\ UNCHANGED <<chunkVars, jobs, text>>
  /\ ExtractSteps

ExtractRecord ==
  /\ At("extract_record")
  /\ extractions < MaxExtraction
  /\ extractions' = extractions + 1
  /\ text' = Nothing
  /\ Goto("extract_enqueue")
  /\ UNCHANGED <<chunks, textOf, keyword, vectors, jobs, cache, lapses>>
  /\ ExtractSteps

ExtractEnqueue ==
  /\ At("extract_enqueue")
  /\ jobs' = Enqueued("chunk")
  /\ Goto("ok")
  /\ UNCHANGED <<chunkVars, cache, text, lapses>>
  /\ ExtractSteps

Extract ==
  \/ ExtractBlocked \/ ExtractUnreadable \/ ExtractFresh \/ ExtractRead
  \/ ExtractPut \/ ExtractRecord \/ ExtractEnqueue

-----------------------------------------------------------------------------
(* ChunkAndIndexWorker::run *)

ChunkSteps == UNCHANGED <<seen, erased, requeued>> /\ Calm

ChunkBlocked ==
  /\ At("chunk")
  /\ \/ ~Admitted
     \/ Fresh /\ extractions = 0      \* latest_extraction_id finds no record
  /\ Goto("error")
  /\ UNCHANGED <<row, chunkVars, jobs, cache, text, lapses>>
  /\ ChunkSteps

ChunkMissing ==
  /\ At("chunk")
  /\ Admitted
  /\ ~Fresh
  /\ Goto("cache_missing")
  /\ UNCHANGED <<row, chunkVars, jobs, cache, text, lapses>>
  /\ ChunkSteps

ChunkTextless ==
  /\ At("chunk")
  /\ Admitted
  /\ Fresh
  /\ extractions > 0
  /\ cache.text \in Textless
  /\ row' = WithStatus("no_text_found")
  /\ Goto("ok")
  /\ Lapse(IF Active # {} THEN {"no_text"} ELSE {})
  /\ UNCHANGED <<chunkVars, jobs, cache, text>>
  /\ ChunkSteps

ChunkRead ==
  /\ At("chunk")
  /\ Admitted
  /\ Fresh
  /\ extractions > 0
  /\ cache.text \notin Textless
  /\ text' = cache.text
  /\ Goto("chunk_store")
  /\ UNCHANGED <<row, chunkVars, jobs, cache, lapses>>
  /\ ChunkSteps

Indexed == [row EXCEPT !.status = "indexed", !.indexed = TRUE]

(* Mutant: the stored chunks are taken for the ones derived. *)
ChunkReuseUnseen ==
  LET g == extractions IN
  /\ At("chunk_store")
  /\ g \in Active
  /\ row' = Indexed
  /\ chunks' = StaleExcept({g})
  /\ keyword' = KeywordWith(g)
  /\ text' = Nothing
  /\ Goto("ok")
  /\ UNCHANGED <<extractions, textOf, vectors, jobs, cache, lapses>>
  /\ ChunkSteps

(* reuse_existing_chunks: the stored chunks are the ones derived. *)
ChunkReuse ==
  LET g == extractions IN
  /\ At("chunk_store")
  /\ g \in Active
  /\ textOf[g] = text
  /\ row' = Indexed
  /\ chunks' = StaleExcept({g})
  /\ keyword' = KeywordWith(g)
  /\ text' = Nothing
  /\ Goto("ok")
  /\ UNCHANGED <<extractions, textOf, vectors, jobs, cache, lapses>>
  /\ ChunkSteps

ChunkDiffer ==
  /\ At("chunk_store")
  /\ extractions \in Active
  /\ textOf[extractions] # text
  /\ text' = Nothing
  /\ Goto("chunk_evict")
  /\ UNCHANGED <<row, chunkVars, jobs, cache, lapses>>
  /\ ChunkSteps

(* insert_bundle *)
ChunkInsert ==
  LET g == extractions IN
  /\ At("chunk_store")
  /\ chunks[g] = "none"
  /\ row' = Indexed
  /\ chunks' = [StaleExcept({g}) EXCEPT ![g] = "active"]
  /\ textOf' = [textOf EXCEPT ![g] = text]
  /\ keyword' = KeywordWith(g)
  /\ vectors' = [vectors EXCEPT ![g] = Nothing]
  /\ text' = Nothing
  /\ Goto("chunk_embed")
  /\ UNCHANGED <<extractions, jobs, cache, lapses>>
  /\ ChunkSteps

(* insert_bundle against UNIQUE(file_id, extraction_id, chunk_ordinal) *)
ChunkClash ==
  /\ At("chunk_store")
  /\ chunks[extractions] = "stale"
  /\ text' = Nothing
  /\ Goto("error")
  /\ Lapse({"clash"})
  /\ UNCHANGED <<row, chunkVars, jobs, cache>>
  /\ ChunkSteps

(* Mutant: the entry stays, and extraction finds it fresh. *)
ChunkEvictNothing ==
  /\ pc = "chunk_evict"
  /\ Goto("chunk_again")
  /\ UNCHANGED <<row, chunkVars, jobs, cache, text, lapses>>
  /\ ChunkSteps

ChunkEvict ==
  /\ pc = "chunk_evict"
  /\ cache' = NoEntry
  /\ Goto("chunk_again")
  /\ UNCHANGED <<row, chunkVars, jobs, text, lapses>>
  /\ ChunkSteps

ChunkAgain ==
  /\ At("chunk_again")
  /\ jobs' = Enqueued("extract")
  /\ Goto("ok")
  /\ UNCHANGED <<row, chunkVars, cache, text, lapses>>
  /\ ChunkSteps

ChunkEmbed ==
  /\ At("chunk_embed")
  /\ jobs' = Enqueued("embedding")
  /\ Goto("ok")
  /\ UNCHANGED <<row, chunkVars, cache, text, lapses>>
  /\ ChunkSteps

Chunk ==
  \/ ChunkBlocked \/ ChunkMissing \/ ChunkTextless \/ ChunkRead \/ ChunkReuse
  \/ ChunkDiffer \/ ChunkInsert \/ ChunkClash \/ ChunkEvict \/ ChunkAgain
  \/ ChunkEmbed

-----------------------------------------------------------------------------
(* EmbeddingWorker::run, with a model at hand *)

EmbeddingSteps == UNCHANGED <<row, jobs, cache, seen, erased, requeued>>

EmbeddingBlocked ==
  /\ At("embedding")
  /\ ~Admitted
  /\ Goto("error")
  /\ UNCHANGED <<chunkVars, text, lapses>>
  /\ EmbeddingSteps /\ Calm

EmbeddingMissing ==
  /\ At("embedding")
  /\ Admitted
  /\ ~Fresh
  /\ Goto("cache_missing")
  /\ UNCHANGED <<chunkVars, text, lapses>>
  /\ EmbeddingSteps /\ Calm

EmbeddingNothing ==
  /\ At("embedding")
  /\ Admitted
  /\ Fresh
  /\ Active = {}
  /\ Goto("ok")
  /\ UNCHANGED <<chunkVars, text, lapses>>
  /\ EmbeddingSteps /\ Calm

(* prepare_batch: the texts are taken from the cache for the chunks that   *)
(* are active, whichever extraction those came from.                       *)
EmbeddingRead ==
  /\ At("embedding")
  /\ Admitted
  /\ Fresh
  /\ Active # {}
  /\ text' = cache.text
  /\ Goto("embedding_store")
  /\ UNCHANGED <<chunkVars, lapses>>
  /\ EmbeddingSteps /\ Calm

EmbeddingFails ==
  /\ At("embedding_store")
  /\ Event("unreadable")
  /\ pc' = "error"
  /\ text' = Nothing
  /\ UNCHANGED <<diskVars, folder, hand, chunkVars, orphan, window, historyVars>>
  /\ EmbeddingSteps

(* persist *)
EmbeddingStore ==
  /\ At("embedding_store")
  /\ vectors' = Embedded
  /\ text' = Nothing
  /\ Goto("ok")
  /\ UNCHANGED <<extractions, chunks, textOf, keyword, lapses>>
  /\ EmbeddingSteps /\ Calm

Embedding ==
  \/ EmbeddingBlocked \/ EmbeddingMissing \/ EmbeddingNothing \/ EmbeddingRead
  \/ EmbeddingFails \/ EmbeddingStore

-----------------------------------------------------------------------------
(* What becomes of the job *)

Own == IF hand = "chunk" THEN 1 ELSE 0

(* extraction_cache_miss_category: the first miss is repaired. *)
RepairMiss ==
  /\ At("cache_missing")
  /\ requeued' = TRUE
  /\ IF ~requeued /\ Idle(Own)
     THEN jobs' = Enqueued("extract") /\ row' = Retried
     ELSE UNCHANGED <<jobs, row>>
  /\ Goto(IF requeued THEN "fatal" ELSE "replaced")
  /\ Lapse(IF jobs'["extract"] = 0 THEN {"unrepaired"} ELSE {})
  /\ UNCHANGED <<chunkVars, cache, text, seen, erased>>
  /\ Calm

Finished == [jobs EXCEPT ![hand] = @ - 1]

Rest ==
  /\ pc' = "idle"
  /\ hand' = "scan"
  /\ seen' = FALSE
  /\ text' = Nothing
  /\ UNCHANGED <<diskVars, folder, chunkVars, cache, erased, orphan, window, checked>>

Complete ==
  /\ At("ok")
  /\ jobs' = Finished
  /\ requeued' = (requeued /\ hand \notin {"chunk", "embedding"})
  /\ Rest
  /\ UNCHANGED <<row, events, lapses>>

(* Scheduler::fail with attempts left *)
Retry ==
  /\ At("error")
  /\ Event("retry")
  /\ Rest
  /\ UNCHANGED <<row, jobs, requeued, lapses>>

(* fail_with_category: first the job,                                      *)
FailForGood ==
  /\ At("error") \/ At("fatal")
  /\ jobs' = Finished
  /\ Goto("file_fails")
  /\ Lapse(IF Active \subseteq keyword THEN {} ELSE {"unindexed"})
  /\ UNCHANGED <<row, chunkVars, cache, text, seen, erased, requeued>>
  /\ Calm

(* then the file, if nothing of it is prepared or on its way.              *)
FileFails ==
  /\ At("file_fails")
  /\ row' = IF /\ hand \in {"extract", "chunk"}
               /\ row.status \in {"discovered", "stale"}
               /\ Active = {}
               /\ \A k \in FileJobs : jobs[k] = 0
            THEN WithStatus("failed") ELSE row
  /\ Rest
  /\ Lapse(IF row'.status \in {"discovered", "stale"} /\ hand # "embedding"
           THEN {"needs_update"} ELSE {})
  /\ UNCHANGED <<jobs, requeued, events>>

(* extraction_cache_missing does not fail the file *)
FailReplaced ==
  /\ At("replaced")
  /\ jobs' = Finished
  /\ Rest
  /\ UNCHANGED <<row, requeued, events, lapses>>

(* The rows the job writes to are gone: whatever it does next fails or     *)
(* matches nothing, except what it does to the cache.                      *)
Abandon ==
  /\ orphan
  /\ pc \notin {"scan_evict", "chunk_evict"}
  /\ pc = "extract_put" => disk = Nothing
  /\ pc' = "idle"
  /\ hand' = "scan"
  /\ seen' = FALSE
  /\ erased' = FALSE
  /\ orphan' = FALSE
  /\ text' = Nothing
  /\ UNCHANGED <<diskVars, catalogVars, cache, requeued, window, events, historyVars>>

Outcome ==
  \/ RepairMiss \/ Complete \/ Retry \/ FailForGood \/ FileFails \/ FailReplaced
  \/ Abandon

(* enqueue_embedding_backfill *)
EmbeddingBackfilled ==
  IF (\E g \in Active : vectors[g] = Nothing) /\ jobs["embedding"] = 0
  THEN Enqueued("embedding") ELSE jobs

(* The loop, started, has its model. *)
Backfill ==
  /\ At("backfill")
  /\ jobs' = EmbeddingBackfilled
  /\ Goto("idle")
  /\ UNCHANGED <<row, chunkVars, cache, text, seen, erased, requeued, lapses>>
  /\ Calm

(* The loop, idle, trims the cache to its cap. *)
Trim ==
  /\ pc = "idle"
  /\ \A k \in FileJobs : jobs[k] = 0
  /\ cache # NoEntry
  /\ Event("trim")
  /\ cache' = NoEntry
  /\ UNCHANGED <<diskVars, catalogVars, loopVars, window, historyVars>>

Loop ==
  \/ Backfill \/ (\E k \in Kind : Take(k))
  \/ Scan \/ Extract \/ Chunk \/ Embedding \/ Outcome

-----------------------------------------------------------------------------
(* The window *)

(* A failure is being recorded. *)
Failing == {"error", "fatal", "file_fails"}

WindowStep ==
  /\ pc # "down"
  /\ window = "none"
  /\ UNCHANGED <<diskVars, pc, hand, text, seen, erased>>

(* prepare_source_again: the scan is queued, the failed files are listed,  *)
(* and each of them is queued.                                             *)
PrepareSourceAgain ==
  /\ folder
  /\ Event("ask")
  /\ jobs' = Enqueued("scan")
  /\ window' = "ask"
  /\ checked' = TRUE
  /\ WindowStep
  /\ UNCHANGED <<folder, row, chunkVars, cache, orphan, requeued, lapses>>

ListFailed ==
  /\ window = "ask"
  /\ window' = IF row.status = "failed" THEN "failed" ELSE "none"
  /\ checked' = (checked /\ pc \notin Failing)
  /\ UNCHANGED <<diskVars, catalogVars, cache, loopVars, events, lapses>>

PrepareFailed ==
  /\ window = "failed"
  /\ jobs' = IF row # NoRow /\ Idle(0) THEN Enqueued("extract") ELSE jobs
  /\ row' = IF Idle(0) THEN Retried ELSE row
  /\ window' = "none"
  /\ UNCHANGED <<diskVars, folder, chunkVars, cache, loopVars, events, historyVars>>

(* prepare_again, from one search result: the file has been searchable *)
PrepareAgain ==
  /\ row.indexed
  /\ Idle(0)
  /\ Event("ask")
  /\ jobs' = Enqueued("extract")
  /\ row' = Retried
  /\ WindowStep
  /\ UNCHANGED <<folder, chunkVars, cache, orphan, requeued, window, historyVars>>

(* Clear extracted text *)
ClearText ==
  /\ cache # NoEntry
  /\ Event("clear")
  /\ cache' = NoEntry
  /\ WindowStep
  /\ UNCHANGED <<catalogVars, orphan, requeued, window, historyVars>>

(* delete_keyword_index, its transaction and then its backfill *)
DeleteKeyword ==
  /\ Event("keyword")
  /\ keyword' = {}
  /\ window' = "keyword"
  /\ WindowStep
  /\ UNCHANGED <<folder, row, extractions, chunks, textOf, vectors, jobs, cache,
                 orphan, requeued, historyVars>>

BackfillExtraction ==
  /\ window = "keyword"
  /\ jobs' = IF Active # {} /\ Idle(0) THEN Enqueued("extract") ELSE jobs
  /\ window' = "none"
  /\ Lapse(IF hand = "chunk" /\ pc \in {"chunk_embed", "ok"} /\ Idle(1)
           THEN {"unindexed"} ELSE {})
  /\ UNCHANGED <<diskVars, folder, row, chunkVars, cache, loopVars, events, checked>>

(* delete_vector_index, likewise *)
DeleteVectors ==
  /\ Event("vector")
  /\ vectors' = [g \in Extraction |-> Nothing]
  /\ window' = "vector"
  /\ WindowStep
  /\ UNCHANGED <<folder, row, extractions, chunks, textOf, keyword, jobs, cache,
                 orphan, requeued, historyVars>>

BackfillEmbedding ==
  /\ window = "vector"
  /\ jobs' = EmbeddingBackfilled
  /\ window' = "none"
  /\ UNCHANGED <<diskVars, folder, row, chunkVars, cache, loopVars, events, historyVars>>

(* remove_replaced_stale_indexes, and then the cache's                     *)
(* cleanup_missing_files                                                   *)
RemoveReplaced ==
  LET dropped == IF Active = {} THEN {} ELSE Stale IN
  /\ Event("tidy")
  /\ chunks' = [g \in Extraction |-> IF g \in dropped THEN "none" ELSE chunks[g]]
  /\ keyword' = keyword \ dropped
  /\ vectors' = [g \in Extraction |-> IF g \in dropped THEN Nothing ELSE vectors[g]]
  /\ textOf' = [g \in Extraction |-> IF g \in dropped THEN Nothing ELSE textOf[g]]
  /\ window' = "tidy"
  /\ WindowStep
  /\ UNCHANGED <<folder, row, extractions, jobs, cache, orphan, requeued, historyVars>>

CleanupMissing ==
  /\ window = "tidy"
  /\ cache' = IF disk = Nothing THEN NoEntry ELSE cache
  /\ window' = "none"
  /\ UNCHANGED <<diskVars, catalogVars, loopVars, events, historyVars>>

(* remove_source: rows and jobs go, the text in the cache does not. *)
RemoveFolder ==
  /\ folder
  /\ Event("folder")
  /\ folder' = FALSE
  /\ EraseFile
  /\ jobs' = [k \in Kind |-> 0]
  /\ orphan' = (pc \notin {"idle", "backfill"})
  /\ requeued' = FALSE
  /\ Lapse(IF cache # NoEntry THEN {"text_kept"} ELSE {})
  /\ WindowStep
  /\ UNCHANGED <<cache, window, checked>>

(* add_source, which queues a scan *)
AddFolder ==
  /\ ~folder
  /\ folder' = TRUE
  /\ jobs' = Enqueued("scan")
  /\ checked' = TRUE
  /\ WindowStep
  /\ UNCHANGED <<row, chunkVars, cache, orphan, requeued, window, events, lapses>>

(* What the window does goes on to its end. *)
WindowGoesOn ==
  \/ ListFailed \/ PrepareFailed \/ BackfillExtraction \/ BackfillEmbedding
  \/ CleanupMissing

Window ==
  \/ PrepareSourceAgain \/ PrepareAgain \/ ClearText \/ DeleteKeyword
  \/ DeleteVectors \/ RemoveReplaced \/ RemoveFolder \/ AddFolder
  \/ WindowGoesOn

-----------------------------------------------------------------------------
(* Crash and start; the disk *)

Crash ==
  /\ pc # "down"
  /\ Event("crash")
  /\ pc' = "down"
  /\ hand' = "scan"
  /\ seen' = FALSE
  /\ text' = Nothing
  /\ erased' = FALSE
  /\ orphan' = FALSE
  /\ requeued' = FALSE
  /\ window' = "none"
  /\ Lapse(  (IF pc \in {"scan_enqueue", "file_fails"} /\ row.status = "stale"
              THEN {"needs_update"} ELSE {})
        \cup (IF pc = "scan_reactivate" THEN {"returned"} ELSE {})
        \cup (IF pc = "scan_deactivate" /\ row.status = "missing" /\ Active # {}
              THEN {"still_active"} ELSE {})
        \cup (IF erased \/ pc = "scan_evict" THEN {"text_kept"} ELSE {})
        \cup (IF window = "keyword" THEN {"unindexed"} ELSE {}))
  /\ checked' = (checked /\ window \notin {"ask", "failed"})
  /\ UNCHANGED <<diskVars, catalogVars, cache>>

(* run_startup_recovery and the check of every folder.  Nothing else runs  *)
(* before they are done.                                                   *)
Start ==
  /\ pc = "down"
  /\ pc' = "backfill"
  /\ jobs' = [k \in Kind |->
       CASE k = "scan" /\ folder -> jobs[k] + 1
         [] k = "extract" /\ row.status = "discovered" /\ Idle(0) -> jobs[k] + 1
         [] OTHER -> jobs[k]]
  /\ UNCHANGED <<diskVars, folder, row, chunkVars, cache, hand, text, seen, erased,
                 orphan, requeued, window, events, historyVars>>

DiskStep == UNCHANGED <<catalogVars, cache, loopVars, window>>

Change ==
  /\ newest < MaxVersion
  /\ Event("change")
  /\ newest' = newest + 1
  /\ disk' = newest + 1
  /\ checked' = FALSE
  /\ DiskStep /\ NoLapse

Vanish ==
  /\ disk # Nothing
  /\ Event("vanish")
  /\ disk' = Nothing
  /\ checked' = FALSE
  /\ UNCHANGED newest
  /\ DiskStep /\ NoLapse

Return ==
  /\ disk = Nothing
  /\ disk' = newest
  /\ checked' = FALSE
  /\ UNCHANGED <<newest, events>>
  /\ DiskStep /\ NoLapse

(* An older content is put back. *)
Revert ==
  /\ disk # Nothing
  /\ Event("revert")
  /\ disk' \in 1 .. disk - 1
  /\ checked' = FALSE
  /\ Lapse({"put_back"} \cup (IF row.hash \in {disk', newest} THEN {"reverted"} ELSE {}))
  /\ UNCHANGED newest
  /\ DiskStep

Disk == Change \/ Vanish \/ Return \/ Revert

-----------------------------------------------------------------------------
(* The folder has just been added. *)
Init ==
  /\ disk = 1
  /\ newest = 1
  /\ folder = TRUE
  /\ row = NoRow
  /\ extractions = 0
  /\ chunks = [g \in Extraction |-> "none"]
  /\ textOf = [g \in Extraction |-> Nothing]
  /\ keyword = {}
  /\ vectors = [g \in Extraction |-> Nothing]
  /\ jobs = [k \in Kind |-> IF k = "scan" THEN 1 ELSE 0]
  /\ cache = NoEntry
  /\ pc = "idle"
  /\ hand = "scan"
  /\ text = Nothing
  /\ seen = FALSE
  /\ erased = FALSE
  /\ orphan = FALSE
  /\ requeued = FALSE
  /\ window = "none"
  /\ events = 0
  /\ checked = TRUE
  /\ lapses = {}

Next == Loop \/ Trim \/ Window \/ Crash \/ Start \/ Disk

Spec == Init /\ [][Next]_vars

(* The loop goes on as long as it is there, and what the window has begun  *)
(* is ended.  Nothing outside is fair.                                     *)
Fairness == WF_vars(Loop) /\ WF_vars(WindowGoesOn)

FairSpec == Spec /\ Fairness

-----------------------------------------------------------------------------
(* Properties *)

(* Every variable has its type, and the counters stay within their bounds. *)
TypeOK ==
  /\ disk \in 0 .. MaxVersion /\ newest \in 1 .. MaxVersion
  /\ folder \in BOOLEAN
  /\ row \in Row
  /\ extractions \in 0 .. MaxExtraction
  /\ chunks \in [Extraction -> {"none", "active", "stale"}]
  /\ textOf \in [Extraction -> 0 .. MaxVersion]
  /\ keyword \subseteq Extraction
  /\ vectors \in [Extraction -> 0 .. MaxVersion]
  /\ jobs \in [Kind -> Nat]
  /\ cache \in Entry
  /\ pc \in Pc
  /\ hand \in Kind
  /\ text \in 0 .. MaxVersion
  /\ seen \in BOOLEAN /\ erased \in BOOLEAN /\ orphan \in BOOLEAN
  /\ requeued \in BOOLEAN
  /\ window \in {"none", "keyword", "vector", "tidy", "ask", "failed"}
  /\ events \in 0 .. MaxEvents
  /\ checked \in BOOLEAN
  /\ lapses \subseteq Lapses

-----------------------------------------------------------------------------
Settled == pc = "idle" /\ window = "none" /\ \A k \in Kind : jobs[k] = 0

UpToDate ==
  CASE disk = Nothing -> row.status \in {"none", "missing"} /\ Active = {}
    [] disk \in Oversize -> row = NoRow /\ Active = {}
    [] disk \in Textless \ Oversize -> row.status = "no_text_found" /\ Active = {}
    [] OTHER -> /\ row.status = "indexed"
                /\ \E g \in Active : /\ Active = {g}
                                     /\ textOf[g] = disk
                                     /\ g \in keyword

(* Text kept in the cache, and an older content put back over one that is  *)
(* neither recorded nor the newest.                                        *)
Harmless == {"text_kept", "put_back"}

(* When the loop has nothing left to do, and the file has not changed since *)
(* the folder was last checked, the row says what the file is and search   *)
(* finds exactly its present text, whatever was changed, cleared, asked    *)
(* for again, removed, retried or cut off by a crash before, unless one of *)
(* the named circumstances occurred, two of which do no harm               *)
(* (docs/src/users/sources.md:85-105).                                     *)
PreparedAsPromised ==
  Settled /\ folder /\ checked /\ lapses \subseteq Harmless => UpToDate

(* Then, too, search by meaning ranks no chunk by a text that is not its   *)
(* own: prepare_batch takes the texts from the cache and the chunks from   *)
(* the catalog (embedding.rs:112-161), which may be of two versions.  When *)
(* an older content is put back, chunks with vectors of another version    *)
(* may be found again and reused.                                          *)
VectorsMatch ==
  Settled /\ folder /\ checked /\ lapses \subseteq {"text_kept"} =>
    \A g \in Active : vectors[g] \in {Nothing, textOf[g]}

(* The chunks of one extraction at most are active (chunks.rs:517-520),    *)
(* unless the process died between mark_missing_unseen and                 *)
(* deactivate_for_missing_files.                                           *)
OneActive == "still_active" \in lapses \/ Cardinality(Active) <= 1

(* What prepared the file is replaced, never just taken away: a step after *)
(* which search finds nothing of the file has found it missing, or erased  *)
(* or removed it (chunks.rs:226-345 writes and replaces in one             *)
(* transaction; a failed extraction leaves the old chunks).                *)
HiddenOnlyWhenGone ==
  [][Active # {} /\ Active' = {} => row'.status \in {"none", "missing"}]_vars

(* Search never goes back to a superseded version: what it shows follows   *)
(* SearchableText, with the exception of OneActive.                        *)
Newest(S) == IF S = {} THEN 0 ELSE CHOOSE g \in S : \A h \in S : h <= g

Promise == INSTANCE SearchableText
             WITH shown <- Newest(Active), latest <- Newest(Active \cup Stale)

NeverGoesBack ==
  Promise!Init /\ [][Promise!Next \/ "still_active" \in lapses]_(Promise!vars)

(* The extracted text of a file the policy leaves out goes with its rows   *)
(* (scheduler_host.rs:740-748), unless the eviction fails or is cut off,   *)
(* or the text outlived an earlier removal of the folder.                  *)
LeftOutIsForgotten ==
  Settled /\ folder /\ checked /\ disk \in Oversize
    /\ "text_kept" \notin lapses => cache = NoEntry

(* Unless the process stays down, the loop comes to the end of its work:   *)
(* the repairs that queue each other (a cache miss, chunks that differ)    *)
(* are bounded (workers/src/lib.rs:69-75).                                 *)
PreparationEnds == []<>(Settled \/ pc = "down")

=============================================================================
