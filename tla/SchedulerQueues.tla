--------------------------- MODULE SchedulerQueues ---------------------------
(***************************************************************************)
(* The in-memory job queues of the indexing scheduler, as operators on     *)
(* values: workers/src/scheduler/{queue,job,limits}.rs.  A queue is a      *)
(* sequence served from its back (the VecDeque's pop_back); the operators  *)
(* say where a job is inserted, which job is served and what cancelling a  *)
(* folder leaves.  The modules that own a queue variable extend this one.  *)
(***************************************************************************)
EXTENDS Integers, SequencesExt

(* One queue per kind of work.  QueueSet keeps six; Cleanup and Repair     *)
(* share the last.                                                         *)
Kind == {"scan", "extract", "chunk", "keyword", "embedding", "maintenance"}

(* The order in which pop_next looks at the queues. *)
ServeRank == [k \in Kind |->
                CASE k = "scan" -> 1
                  [] k = "extract" -> 2
                  [] k = "chunk" -> 3
                  [] k = "keyword" -> 4
                  [] k = "embedding" -> 5
                  [] OTHER -> 6]

(* JobPriority: Maintenance < LowBackground < NormalBackground <           *)
(* UserVisible < UserBlocking.                                             *)
Priority == 0 .. 4

DefaultPriority == [k \in Kind |->
                      CASE k = "embedding" -> 1
                        [] k = "maintenance" -> 0
                        [] OTHER -> 2]

Mode == {"Normal", "UserActive", "LowImpact", "Paused"}

(* The modes in which pop_next passes over the embedding queue. *)
YieldingModes == {"UserActive", "LowImpact"}

(***************************************************************************)
(* BoundedQueue::push scans from the back for the first job of strictly    *)
(* lower priority and inserts just behind it, or at the front when there   *)
(* is none: p is that place.                                               *)
(***************************************************************************)
IsInsertionPoint(items, job, p) ==
  /\ p > 1 => items[p - 1].priority < job.priority
  /\ \A i \in p .. Len(items) : items[i].priority >= job.priority

Pushed(queues, k, p, job) == [queues EXCEPT ![k] = InsertAt(@, p, job)]

(* BoundedQueue::pop takes the back. *)
Popped(queues, k) == [queues EXCEPT ![k] = Front(@)]

HasRoom(items, capacity) == Len(items) < capacity

(***************************************************************************)
(* The queues tick may serve in a mode, and the one pop_next serves.       *)
(***************************************************************************)
Servable(queues, mode) ==
  IF mode = "Paused" THEN {}
  ELSE {k \in Kind : /\ queues[k] # <<>>
                     /\ ~(k = "embedding" /\ mode \in YieldingModes)}

IsNextKind(queues, mode, k) ==
  /\ k \in Servable(queues, mode)
  /\ \A other \in Servable(queues, mode) : ServeRank[k] <= ServeRank[other]

(***************************************************************************)
(* The ids of the jobs in a family of queues, one per kind.                *)
(***************************************************************************)
IdsOf(q) == UNION {{q[k][i].id : i \in DOMAIN q[k]} : k \in Kind}

(* No queue holds an id twice, outside the set except. *)
DistinctIds(q, except) ==
  \A k \in Kind : \A a, b \in DOMAIN q[k] :
    q[k][a].id = q[k][b].id => a = b \/ q[k][a].id \in except
=============================================================================
