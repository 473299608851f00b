---------------------------- MODULE SchedulerHost ----------------------------
(***************************************************************************)
(* Background preparation: the loop of app/src/scheduler_host.rs, the      *)
(* Scheduler it owns (workers/src/scheduler/dispatch.rs) and the           *)
(* index_jobs table both work from (db/src/repo/jobs.rs).                  *)
(*                                                                         *)
(* The table is durable and shared: the window's own catalog connection    *)
(* inserts and deletes rows while the loop holds copies of them in memory. *)
(* The loop is one thread; each of its steps below ends where it touches   *)
(* the catalog again, so that the window's steps fall in between.          *)
(***************************************************************************)
EXTENDS SchedulerQueues, FiniteSets

CONSTANTS
  MaxJob,          \* bound: rows ever inserted; row n has the n-th rowid
  Source,          \* the folders registered at the start
  Capacity,        \* QueueCapacity, one bound per kind
  MaxAttempts,     \* MAX_JOB_ATTEMPTS
  WindowKinds,     \* bound: the kinds of row the window inserts
  Observations,    \* bound: the pairs <<user active, on battery>> observed
  PauseOnBattery,  \* the setting pause_embedding_on_battery
  Faults           \* bound: the catalog accesses of the loop that may return Err

ASSUME HostAssumption ==
  /\ MaxJob \in Nat
  /\ Source # {}
  /\ Capacity \in [Kind -> Nat \ {0}]
  /\ MaxAttempts \in Nat \ {0}
  /\ WindowKinds \subseteq {"scan", "extract", "embedding"}
  /\ Observations \subseteq BOOLEAN \X BOOLEAN
  /\ PauseOnBattery \in BOOLEAN
  /\ Faults \subseteq {"mode", "list", "check", "block", "unblock", "outcome"}

Job == 1 .. MaxJob

(* JobStatus, with "unborn" for a row not inserted yet and "gone" for one  *)
(* deleted.  The loop leaves a row "queued" while it runs the job.         *)
Status == {"unborn", "queued", "paused", "blocked", "succeeded", "failed", "gone"}
Unfinished == {"queued", "paused", "blocked"}

IndexJob == [id : Job, kind : Kind, source : Source, priority : Priority,
             attempts : 0 .. MaxAttempts]

NoJob == <<>>

VARIABLES
  status,      \* index_jobs.status of every row
  kindOf,      \* index_jobs.job_type
  sourceOf,    \* index_jobs.source_id
  live,        \* the folders that still have a sources row
  queues,      \* QueueSet
  known,       \* ids rehydrate believes it has loaded
  mode,        \* Scheduler::resource_mode
  userActive,  \* the loop's last_user_activity, not yet timed out
  onBattery,   \* the loop's on_battery
  pc,          \* where the loop is
  cur,         \* the job tick returned
  todo,        \* rows of the list rehydrate is walking
  trimmed,     \* trimmed_since_idle
  failures,    \* history: failed attempts at each row in this session
  unrecorded,  \* history: rows whose final outcome could not be written
  misfiled,    \* history: rows loaded whose step back to queued failed
  unchecked    \* history: rows let go of because they could not be looked up

catalogVars == <<status, kindOf, sourceOf, live>>
memoryVars  == <<queues, known, mode, userActive, onBattery, cur, todo, trimmed>>
historyVars == <<failures, unrecorded, misfiled, unchecked>>
vars == <<catalogVars, memoryVars, pc, historyVars>>

-----------------------------------------------------------------------------
(* Catalog statements *)

(* Faulty variant: the statement writes the row whether it exists or not. *)
SetStatusUpserting(j, s) == status' = [status EXCEPT ![j] = s]

(* set_status and fail_with_category on one row: an UPDATE that matches no *)
(* row is not an error.                                                    *)
SetStatus(j, s) == status' = [status EXCEPT ![j] = IF @ = "gone" THEN "gone" ELSE s]

MayFail(access) == access \in Faults /\ UNCHANGED status

RowsWith(s) == {j \in Job : status[j] = s}

(* list_by_status, oldest row first: every row the loop meets was inserted *)
(* with priority 0, so the rows of a status come in rowid order.           *)
Listings(s) ==
  {list \in [1 .. Cardinality(RowsWith(s)) -> RowsWith(s)] :
     \A a, b \in DOMAIN list : a < b => list[a] < list[b]}

NextRow(j) == status[j] = "unborn" /\ \A i \in 1 .. j - 1 : status[i] # "unborn"

Insert(j, k, s) ==
  /\ NextRow(j)
  /\ s \in live
  /\ status'   = [status EXCEPT ![j] = "queued"]
  /\ kindOf'   = [kindOf EXCEPT ![j] = k]
  /\ sourceOf' = [sourceOf EXCEPT ![j] = s]
  /\ UNCHANGED live

-----------------------------------------------------------------------------
Init ==
  /\ status = [j \in Job |-> "unborn"]
  /\ kindOf = [j \in Job |-> "scan"]
  /\ sourceOf = [j \in Job |-> CHOOSE s \in Source : TRUE]
  /\ live = Source
  /\ queues = [k \in Kind |-> <<>>]
  /\ known = {}
  /\ mode = "Normal"
  /\ userActive = FALSE
  /\ onBattery = FALSE
  /\ pc = "down"
  /\ cur = NoJob
  /\ todo = <<>>
  /\ trimmed = FALSE
  /\ failures = [j \in Job |-> 0]
  /\ unrecorded = {}
  /\ misfiled = {}
  /\ unchecked = {}

-----------------------------------------------------------------------------
(* The window's thread, on its own catalog connection *)

(* A folder is added, rescanned or prepared again, a file asked for again, *)
(* a search index deleted for rebuild, or an orphaned discovered file      *)
(* queued by recovery: a row appears that the loop learns of by listing.   *)
WindowQueues(j, k, s) ==
  /\ k \in WindowKinds
  /\ Insert(j, k, s)
  /\ UNCHANGED <<memoryVars, pc, historyVars>>

(* remove_source: the rows of the folder go with it by cascade. *)
WindowRemovesSource(s) ==
  /\ s \in live
  /\ live' = live \ {s}
  /\ status' = [j \in Job |-> IF status[j] # "unborn" /\ sourceOf[j] = s
                              THEN "gone" ELSE status[j]]
  /\ UNCHANGED <<kindOf, sourceOf, memoryVars, pc, historyVars>>

(* A file erased from the catalog, by the window or by a scan that now     *)
(* skips its folder, takes the rows of its jobs with it.                   *)
FileErased(j) ==
  /\ status[j] \notin {"unborn", "gone"}
  /\ kindOf[j] # "scan"
  /\ status' = [status EXCEPT ![j] = "gone"]
  /\ UNCHANGED <<kindOf, sourceOf, live, memoryVars, pc, historyVars>>

-----------------------------------------------------------------------------
(* Session start and end *)

(* resume and pause of a fresh Scheduler: the mode is set before the rows  *)
(* are written, and a failed write is only logged.                         *)
ResumeOrPause(enabled) ==
  LET from == IF enabled THEN "paused" ELSE "queued"
      to   == IF enabled THEN "queued" ELSE "paused"
  IN /\ mode' = IF enabled THEN "Normal" ELSE "Paused"
     /\ \/ status' = [j \in Job |-> IF status[j] = from THEN to ELSE status[j]]
        \/ MayFail("mode")

(* The loop starts with the setting background_indexing as it is now: the  *)
(* window may have changed it since the last start.                        *)
Start(enabled) ==
  /\ pc = "down"
  /\ pc' = "top"
  /\ ResumeOrPause(enabled)
  /\ UNCHANGED <<kindOf, sourceOf, live, queues, known, userActive,
                 onBattery, cur, todo, trimmed, historyVars>>

(* The window closes and the loop returns, or the process dies wherever it *)
(* is: everything in memory is lost.                                       *)
Stop ==
  /\ pc # "down"
  /\ pc' = "down"
  /\ queues' = [k \in Kind |-> <<>>]
  /\ known' = {}
  /\ mode' = "Normal"
  /\ userActive' = FALSE
  /\ onBattery' = FALSE
  /\ cur' = NoJob
  /\ todo' = <<>>
  /\ trimmed' = FALSE
  /\ failures' = [j \in Job |-> 0]
  /\ unrecorded' = {}
  /\ misfiled' = {}
  /\ unchecked' = {}
  /\ UNCHANGED catalogVars

-----------------------------------------------------------------------------
(* One iteration of the loop *)

(* The loop holds a model, at startup or after a change of model, and      *)
(* queues embeddings for what lacks them.                                  *)
Backfill(j, s) ==
  /\ pc = "top"
  /\ Insert(j, "embedding", s)
  /\ UNCHANGED <<memoryVars, pc, historyVars>>

(* Faulty variants: each condition sets the mode on its own, so that the   *)
(* end of activity forgets the battery; observations lift a pause.         *)
ModePerSource(active, battery) ==
  IF mode = "Paused" THEN "Paused"
  ELSE IF active THEN "UserActive"
  ELSE IF mode = "UserActive" THEN "Normal"
  ELSE IF battery THEN "LowImpact"
  ELSE "Normal"

ModeIgnoringPause(active, battery) ==
  IF active THEN "UserActive" ELSE IF battery THEN "LowImpact" ELSE "Normal"

(* apply_resource_observation: the mode is derived anew from both          *)
(* conditions, and a pause is never lifted by one.                         *)
DerivedMode(active, battery) ==
  IF mode = "Paused" THEN "Paused"
  ELSE IF active THEN "UserActive"
  ELSE IF battery THEN "LowImpact"
  ELSE "Normal"

Observe ==
  /\ pc = "top"
  /\ pc' = "tick"
  /\ \E seen \in Observations : userActive' = seen[1] /\ onBattery' = seen[2]
  /\ mode' = DerivedMode(userActive', onBattery' /\ PauseOnBattery)
  /\ UNCHANGED <<catalogVars, queues, known, cur, todo, trimmed, historyVars>>

(* Scheduler::tick hands out the back of the first queue it may serve. *)
TakeNext ==
  \E k \in Kind :
    /\ IsNextKind(queues, mode, k)
    /\ cur' = Last(queues[k])
    /\ queues' = Popped(queues, k)

Tick ==
  /\ pc = "tick"
  /\ TakeNext
  /\ pc' = "check"
  /\ trimmed' = FALSE
  /\ UNCHANGED <<catalogVars, known, mode, userActive, onBattery, todo, historyVars>>

(* Nothing to serve: rehydrate starts, unless the table cannot be read. *)
TickFindsNothing ==
  /\ pc = "tick"
  /\ Servable(queues, mode) = {}
  /\ \/ pc' = "loadQueued" /\ todo' \in Listings("queued")
     \/ "list" \in Faults /\ pc' = "retick" /\ UNCHANGED todo
  /\ UNCHANGED <<catalogVars, queues, known, mode, userActive, onBattery, cur,
                 trimmed, historyVars>>

(* index_job_from_record: the copy of a row starts at zero attempts        *)
(* whatever the row went through before.                                   *)
JobFromRow(j) ==
  [id |-> j, kind |-> kindOf[j], source |-> sourceOf[j],
   priority |-> DefaultPriority[kindOf[j]], attempts |-> 0]

(* load_persisted: the copy goes behind those of its priority.             *)
Load(j) ==
  LET k == kindOf[j]
  IN /\ \E p \in 1 .. Len(queues[k]) + 1 :
          /\ IsInsertionPoint(queues[k], JobFromRow(j), p)
          /\ queues' = Pushed(queues, k, p, JobFromRow(j))
     /\ known' = known \union {j}

RoomFor(j) == HasRoom(queues[kindOf[j]], Capacity[kindOf[j]])

(* First loop of rehydrate: a queued row is loaded unless already known,   *)
(* or marked blocked when its queue is full.                               *)
LoadQueuedRow ==
  /\ pc = "loadQueued"
  /\ todo # <<>>
  /\ todo' = Tail(todo)
  /\ LET j == Head(todo)
     IN \/ /\ j \in known
           /\ UNCHANGED <<status, queues, known>>
        \/ /\ j \notin known
           /\ RoomFor(j)
           /\ Load(j)
           /\ UNCHANGED status
        \/ /\ j \notin known
           /\ ~RoomFor(j)
           /\ SetStatus(j, "blocked") \/ MayFail("block")
           /\ UNCHANGED <<queues, known>>
  /\ UNCHANGED <<kindOf, sourceOf, live, mode, userActive, onBattery,
                 cur, trimmed, pc, failures, unrecorded, misfiled, unchecked>>

(* Faulty variant: nobody looks for blocked rows. *)
NoBlockedRows == {<<>>}

BlockedRows == Listings("blocked")

QueuedRowsDone ==
  /\ pc = "loadQueued"
  /\ todo = <<>>
  /\ \/ pc' = "loadBlocked" /\ todo' \in BlockedRows
     \/ "list" \in Faults /\ pc' = "retick" /\ UNCHANGED todo
  /\ UNCHANGED <<catalogVars, queues, known, mode, userActive, onBattery, cur,
                 trimmed, historyVars>>

(* Second loop: a blocked row is loaded whether known or not, then its row *)
(* is set back to queued; a failure of that write is only logged.          *)
LoadBlockedRow ==
  /\ pc = "loadBlocked"
  /\ todo # <<>>
  /\ todo' = Tail(todo)
  /\ LET j == Head(todo)
     IN \/ /\ RoomFor(j)
           /\ Load(j)
           /\ \/ SetStatus(j, "queued") /\ UNCHANGED misfiled
              \/ MayFail("unblock") /\ misfiled' = misfiled \union {j}
        \/ /\ ~RoomFor(j)
           /\ UNCHANGED <<status, queues, known, misfiled>>
  /\ UNCHANGED <<kindOf, sourceOf, live, mode, userActive, onBattery,
                 cur, trimmed, pc, failures, unrecorded, unchecked>>

BlockedRowsDone ==
  /\ pc = "loadBlocked"
  /\ todo = <<>>
  /\ pc' = "retick"
  /\ UNCHANGED <<catalogVars, memoryVars, historyVars>>

Retick ==
  /\ pc = "retick"
  /\ TakeNext
  /\ pc' = "check"
  /\ todo' = <<>>
  /\ trimmed' = FALSE
  /\ UNCHANGED <<catalogVars, known, mode, userActive, onBattery, historyVars>>

(* indexing_is_idle: nothing in memory, nothing unfinished in the table. *)
IndexingIsIdle ==
  /\ \A k \in Kind : queues[k] = <<>>
  /\ \A j \in Job : status[j] \notin Unfinished

(* Still nothing: decide whether to trim the extraction cache, then sleep. *)
FindIdle ==
  /\ pc = "retick"
  /\ Servable(queues, mode) = {}
  /\ todo' = <<>>
  /\ pc' = IF ~trimmed /\ IndexingIsIdle THEN "trim" ELSE "top"
  /\ UNCHANGED <<catalogVars, queues, known, mode, userActive, onBattery, cur,
                 trimmed, historyVars>>

TrimExtractionCache ==
  /\ pc = "trim"
  /\ pc' = "top"
  /\ trimmed' = TRUE
  /\ UNCHANGED <<catalogVars, queues, known, mode, userActive, onBattery, cur,
                 todo, historyVars>>

(* known.remove, with a faulty variant that forgets to, and the arms that  *)
(* leave the id in known on purpose.                                       *)
ForgetNothing(j) == UNCHANGED known
Forget(j)        == known' = known \ {j}
KeepKnown(j)     == UNCHANGED known

(* job_is_still_queued, and the dispatch it guards. *)
Dispatch ==
  /\ pc = "check"
  /\ status[cur.id] = "queued"
  /\ pc' = "run"
  /\ UNCHANGED <<catalogVars, memoryVars, historyVars>>

(* The row is gone or no longer queued, or cannot be read. *)
SkipStale ==
  /\ pc = "check"
  /\ \/ status[cur.id] # "queued" /\ UNCHANGED unchecked
     \/ "check" \in Faults /\ unchecked' = unchecked \union {cur.id}
  /\ pc' = "top"
  /\ Forget(cur.id)
  /\ cur' = NoJob
  /\ UNCHANGED <<catalogVars, queues, mode, userActive, onBattery, todo, trimmed,
                 failures, unrecorded, misfiled>>

-----------------------------------------------------------------------------
(* The job runs, and its outcome is recorded *)

(* What a worker queues while it runs: the next stage, or, when the        *)
(* extracted text is missing, the extraction again.                        *)
Follows == [k \in Kind |->
              CASE k = "scan" -> {"extract"}
                [] k = "extract" -> {"chunk"}
                [] k \in {"chunk", "keyword"} -> {"embedding", "extract"}
                [] k = "embedding" -> {"extract"}
                [] OTHER -> {}]

WorkerQueues(j, k) ==
  /\ pc = "run"
  /\ k \in Follows[cur.kind]
  /\ Insert(j, k, cur.source)
  /\ UNCHANGED <<memoryVars, pc, historyVars>>

(* Scheduler::complete.  When the write fails the id stays in known. *)
Complete ==
  /\ pc = "run"
  /\ pc' = "top"
  /\ cur' = NoJob
  /\ \/ /\ SetStatus(cur.id, "succeeded")
        /\ Forget(cur.id)
        /\ UNCHANGED unrecorded
     \/ /\ MayFail("outcome")
        /\ unrecorded' = unrecorded \union {cur.id}
        /\ KeepKnown(cur.id)
  /\ UNCHANGED <<kindOf, sourceOf, live, queues, mode, userActive,
                 onBattery, todo, trimmed, failures, misfiled, unchecked>>

(* History: counted up to one more than the limit. *)
CountFailure == failures' = [failures EXCEPT ![cur.id] = IF @ > MaxAttempts THEN @ ELSE @ + 1]

MayRetry(attempts) == attempts < MaxAttempts

(* Scheduler::fail while attempts remain and the category allows another:  *)
(* the copy goes back into its queue, then the row is written.             *)
Retry ==
  LET again == [cur EXCEPT !.attempts = @ + 1]
      items == queues[cur.kind]
      room  == HasRoom(items, Capacity[cur.kind])
  IN /\ pc = "run"
     /\ MayRetry(again.attempts)
     /\ pc' = "top"
     /\ cur' = NoJob
     /\ IF room
        THEN \E p \in 1 .. Len(items) + 1 :
               /\ IsInsertionPoint(items, again, p)
               /\ queues' = Pushed(queues, cur.kind, p, again)
        ELSE UNCHANGED queues
     /\ SetStatus(cur.id, IF room THEN "queued" ELSE "blocked") \/ MayFail("outcome")
     /\ KeepKnown(cur.id)
     /\ CountFailure
     /\ UNCHANGED <<kindOf, sourceOf, live, mode, userActive, onBattery,
                    todo, trimmed, unrecorded, misfiled, unchecked>>

(* The kinds whose errors can be of a terminal category; a scan or an      *)
(* extraction only ever fails as worker_error, which is tried again.       *)
MayFailTerminally == {"chunk", "keyword", "embedding"}

(* Scheduler::fail otherwise: attempts exhausted or a terminal category.   *)
(* The id stays in known either way.                                       *)
FailForGood ==
  /\ pc = "run"
  /\ ~MayRetry(cur.attempts + 1) \/ cur.kind \in MayFailTerminally
  /\ pc' = "top"
  /\ cur' = NoJob
  /\ \/ SetStatus(cur.id, "failed") /\ UNCHANGED unrecorded
     \/ MayFail("outcome") /\ unrecorded' = unrecorded \union {cur.id}
  /\ KeepKnown(cur.id)
  /\ CountFailure
  /\ UNCHANGED <<kindOf, sourceOf, live, queues, mode, userActive,
                 onBattery, todo, trimmed, misfiled, unchecked>>

-----------------------------------------------------------------------------
Rehydrate == LoadQueuedRow \/ QueuedRowsDone \/ LoadBlockedRow \/ BlockedRowsDone
RunJob    == Complete \/ Retry \/ FailForGood
LoopStep  == \/ Observe \/ Tick \/ TickFindsNothing \/ Rehydrate \/ Retick
             \/ FindIdle \/ TrimExtractionCache \/ Dispatch \/ SkipStale \/ RunJob

Window ==
  \/ \E j \in Job, k \in Kind, s \in Source : WindowQueues(j, k, s)
  \/ \E s \in Source : WindowRemovesSource(s)
  \/ \E j \in Job : FileErased(j)

Next ==
  \/ Window
  \/ \E enabled \in BOOLEAN : Start(enabled)
  \/ Stop
  \/ LoopStep
  \/ \E j \in Job, s \in Source : Backfill(j, s)
  \/ \E j \in Job, k \in Kind : WorkerQueues(j, k)

Spec == Init /\ [][Next]_vars

(* The loop's thread keeps running while it is up: it never waits on the   *)
(* window, only sleeps for IDLE_POLL.                                      *)
FairSpec == Spec /\ WF_vars(LoopStep)

-----------------------------------------------------------------------------
(* Correctness *)

TypeOK ==
  /\ status \in [Job -> Status]
  /\ kindOf \in [Job -> Kind]
  /\ sourceOf \in [Job -> Source]
  /\ live \subseteq Source
  /\ queues \in [Kind -> Seq(IndexJob)]
  /\ \A k \in Kind : Len(queues[k]) <= Capacity[k]
  /\ known \subseteq Job
  /\ mode \in Mode
  /\ userActive \in BOOLEAN
  /\ onBattery \in BOOLEAN
  /\ pc \in {"down", "top", "tick", "loadQueued", "loadBlocked", "retick",
             "trim", "check", "run"}
  /\ IF pc \in {"check", "run"} THEN cur \in IndexJob ELSE cur = NoJob
  /\ todo \in Seq(Job)
  /\ trimmed \in BOOLEAN
  /\ failures \in [Job -> Nat]
  /\ unrecorded \subseteq Job
  /\ misfiled \subseteq Job
  /\ unchecked \subseteq Job

(* The ids of the in-memory copies, waiting in a queue or in hand. *)
Waiting == IdsOf(queues)
InHand  == IF pc \in {"check", "run"} THEN {cur.id} ELSE {}

(* No queued row falls between the table and the queues: while the loop is *)
(* up, a row the loop believes it has loaded is in a queue or in hand,     *)
(* unless the very write of its outcome failed.  This is what makes the    *)
(* "known" set of rehydrate safe to skip by (scheduler_host.rs:784-801,    *)
(* RFC-036 section 20.2).                                                  *)
NoQueuedRowOrphaned ==
  \A j \in Job : status[j] = "queued" /\ j \in known
                   => j \in Waiting \union InHand \union unrecorded

(* A row has one copy in memory, and none while it is blocked, unless the  *)
(* write that sets a reloaded row back to queued failed: rehydrate's       *)
(* second loop does not look at "known" (scheduler_host.rs:814-842).       *)
OneCopyPerRow ==
  /\ DistinctIds(queues, misfiled)
  /\ \A j \in Job \ misfiled : j \in InHand \/ status[j] = "blocked" => j \notin Waiting

(* Whenever a job runs there is room to put it back, so the retry branch   *)
(* of Scheduler::fail never has to mark a row blocked (dispatch.rs:346).   *)
RetryHasRoom ==
  pc \in {"check", "run"} => Len(queues[cur.kind]) < Capacity[cur.kind]

(* Within a session a job fails at most MAX_JOB_ATTEMPTS times before it   *)
(* is given up, but for two kinds of row: one with a second copy, and one  *)
(* put down because whether it is still queued could not be read, which    *)
(* is loaded again and counted anew (dispatch.rs:324-383, limits.rs:57).   *)
AttemptsBounded ==
  \A j \in Job \ (unchecked \union misfiled) : failures[j] <= MaxAttempts

(* While the user is active, or the machine is on battery and the setting  *)
(* asks for it, no embedding job is handed out, however the two conditions *)
(* came and went (dispatch.rs:110-139).                                    *)
EmbeddingYields ==
  pc = "check" /\ cur.kind = "embedding" => ~userActive /\ ~(onBattery /\ PauseOnBattery)

(* The extraction cache is not trimmed while a chunk job still needs the   *)
(* text in it, although the window may queue work between the idle check   *)
(* and the trim (scheduler_host.rs:908-934).                               *)
TrimSparesChunking ==
  pc = "trim" => \A j \in Job : status[j] \in Unfinished => kindOf[j] \notin {"chunk", "keyword"}

(***************************************************************************)
(* Why the invariants above hold: the strengthening that every step keeps. *)
(***************************************************************************)

(* A copy in memory is of a row that was inserted, in the queue of its     *)
(* kind, known to rehydrate, and with attempts left.                       *)
CopyOf(copy, k) ==
  /\ copy.kind = k
  /\ kindOf[copy.id] = k
  /\ status[copy.id] # "unborn"
  /\ copy.id \in known \union misfiled
  /\ copy.attempts < MaxAttempts
  /\ copy.id \in unchecked \union misfiled \/ failures[copy.id] = copy.attempts

CopiesSound ==
  /\ \A k \in Kind : \A i \in DOMAIN queues[k] : CopyOf(queues[k][i], k)
  /\ pc \in {"check", "run"} => CopyOf(cur, cur.kind)
  /\ \A j \in known : status[j] # "unborn"

(* The list rehydrate walks has no row twice; a blocked row on it is not   *)
(* in memory, whatever the window deleted since the list was read.         *)
ListSound ==
  /\ pc \in {"loadQueued", "loadBlocked"} =>
       \A a, b \in DOMAIN todo : todo[a] = todo[b] => a = b
  /\ pc = "loadQueued" => \A a \in DOMAIN todo : status[todo[a]] \in {"queued", "gone"}
  /\ pc = "loadBlocked" => \A a \in DOMAIN todo :
       /\ status[todo[a]] \in {"blocked", "gone"}
       /\ todo[a] \in misfiled \/ todo[a] \notin Waiting

(* A row that may be loaded has not failed in this session, but for those  *)
(* AttemptsBounded leaves out: what has failed is known, or finished.      *)
Untried(j) == j \in unchecked \union misfiled \/ failures[j] = 0

LoadedOnce ==
  /\ \A j \in Job :
       \/ status[j] \in {"unborn", "paused", "blocked"}
       \/ status[j] = "queued" /\ j \notin known
       \/ pc = "down"
       => Untried(j)
  /\ \A a \in DOMAIN todo :
       \/ pc = "loadQueued" /\ todo[a] \notin known
       \/ pc = "loadBlocked"
       => Untried(todo[a])

RunningRowSound == pc = "run" => status[cur.id] \in {"queued", "gone"}

(* Until a job is handed out the mode is the one the observations of this  *)
(* iteration call for, and none is handed out in a pause.                  *)
ModeSound ==
  /\ pc \in {"tick", "loadQueued", "loadBlocked", "retick"} =>
       \/ mode = "Paused"
       \/ userActive /\ mode = "UserActive"
       \/ ~userActive /\ onBattery /\ PauseOnBattery /\ mode = "LowImpact"
       \/ ~userActive /\ ~(onBattery /\ PauseOnBattery)
  /\ pc \in {"check", "run"} => mode # "Paused"

(* Between sessions nothing is left of the last one. *)
NothingWhileDown == pc = "down" => mode = "Normal" /\ known = {}

(* The inductive invariant of the host. *)
HostInv ==
  /\ TypeOK
  /\ CopiesSound
  /\ ListSound
  /\ LoadedOnce
  /\ RunningRowSound
  /\ OneCopyPerRow
  /\ RetryHasRoom
  /\ NoQueuedRowOrphaned
  /\ AttemptsBounded
  /\ ModeSound
  /\ NothingWhileDown
  /\ EmbeddingYields
  /\ TrimSparesChunking

(* The table and the loop together keep the ledger of JobLedger: a paused, *)
(* blocked or queued row is pending, and the job in progress is the one    *)
(* dispatched and not yet reported back.                                   *)
Entry   == [j \in Job |-> IF status[j] \in Unfinished THEN "pending" ELSE status[j]]
Working == IF pc = "run" THEN {cur.id} ELSE {}
Ledger  == INSTANCE JobLedger WITH entry <- Entry, working <- Working

(* Only a pending job is ever run, one at a time; what is finished or      *)
(* deleted is never run again and never comes back, whatever copies of it  *)
(* are still in memory (scheduler_host.rs:577-592).                        *)
ImplementsLedger == Ledger!Spec

-----------------------------------------------------------------------------
(* What a session started with background_indexing off may not do: run     *)
(* anything, whatever the window queues and whatever is observed           *)
(* (dispatch.rs:145-163).                                                  *)
PauseHolds ==
  [][mode = "Paused" => pc' \notin {"check", "run"} /\ (mode' = "Paused" \/ pc' = "down")]_vars

(* The loop stays up with background_indexing on, and embedding is not     *)
(* held back for ever.                                                     *)
Undisturbed ==
  /\ <>[](pc # "down" /\ mode # "Paused")
  /\ []<>(pc = "tick" /\ mode = "Normal")

(* Every unfinished row is worked off or deleted, blocked and paused ones  *)
(* included.                                                               *)
EveryJobSettles ==
  Undisturbed => \A j \in Job : (status[j] \in Unfinished) ~> (status[j] \notin Unfinished)

=============================================================================
