--------------------------- MODULE FileIndex_proofs ---------------------------
(***************************************************************************)
(* Proofs about FileIndex, for any number of contents, extractions and     *)
(* events: type correctness, the extraction whose chunks are active, that  *)
(* what search shows follows SearchableText, and, in the second half, that *)
(* a file nothing is left to be done for is left as promised: its row and  *)
(* the text search finds, its vectors, and the text of a file left out.    *)
(***************************************************************************)
EXTENDS FileIndex, FiniteSetTheorems, TLAPS

(* The job in hand is of the kind the loop works on.                       *)
HandMatches ==
  /\ pc \in {"scan", "scan_enqueue", "scan_reactivate", "scan_missing",
             "scan_deactivate", "scan_evict"} => hand = "scan"
  /\ pc \in {"extract", "extract_put", "extract_record", "extract_enqueue"}
       => hand = "extract"
  /\ pc \in {"chunk", "chunk_store", "chunk_evict", "chunk_again", "chunk_embed"}
       => hand = "chunk"
  /\ pc \in {"embedding", "embedding_store"} => hand = "embedding"
  /\ pc \in {"cache_missing", "replaced", "fatal"} => hand \in {"chunk", "embedding"}

(* It has a row, unless that was removed under it. *)
HandQueued ==
  pc \notin {"idle", "down", "backfill", "file_fails"} /\ ~orphan => jobs[hand] > 0

(* The chunk job has found an extraction record. *)
RecordFound == pc = "chunk_store" /\ ~orphan => extractions > 0

Typed == TypeOK /\ HandMatches /\ HandQueued /\ RecordFound

-----------------------------------------------------------------------------
(* Types of what the actions assign *)

LEMMA EventTyped ==
  ASSUME NEW e, Event(e), events \in 0 .. MaxEvents
  PROVE  events' \in 0 .. MaxEvents
  BY FileAssumption DEF Event

LEMMA LapseTyped ==
  ASSUME NEW names \in SUBSET Lapses, Lapse(names), lapses \subseteq Lapses
  PROVE  lapses' \subseteq Lapses
  BY DEF Lapse

LEMMA NothingTyped == Nothing \in 0 .. MaxVersion /\ NoRow \in Row /\ NoEntry \in Entry
  BY FileAssumption DEF NoRow, NoEntry, Row, Entry, FileStatus, Nothing

LEMMA EntryTyped ==
  ASSUME NEW s \in 0 .. MaxVersion, NEW t \in 0 .. MaxVersion
  PROVE  [stamp |-> s, text |-> t] \in Entry
  BY DEF Entry

LEMMA RowTyped ==
  ASSUME NEW h \in 0 .. MaxVersion
  PROVE  [status |-> "discovered", hash |-> h, indexed |-> FALSE] \in Row
  BY DEF Row, FileStatus

LEMMA StatusTyped ==
  ASSUME NEW r \in Row, NEW s \in FileStatus
  PROVE  [r EXCEPT !.status = s] \in Row
  BY DEF Row

LEMMA RowFields ==
  ASSUME NEW r \in Row
  PROVE  /\ r.status \in FileStatus
         /\ r.hash \in 0 .. MaxVersion
         /\ r.indexed \in BOOLEAN
  BY DEF Row

LEMMA WithStatusTyped ==
  ASSUME row \in Row, NEW s \in FileStatus
  PROVE  WithStatus(s) \in Row
  BY RowFields DEF WithStatus, Row, FileStatus

LEMMA ChangedTyped ==
  ASSUME NEW r \in Row, NEW h \in 0 .. MaxVersion, NEW s \in FileStatus
  PROVE  [r EXCEPT !.hash = h, !.status = s] \in Row
  BY DEF Row

LEMMA IndexedTyped ==
  ASSUME row \in Row
  PROVE  Indexed \in Row
  BY RowFields DEF Indexed, Row, FileStatus

LEMMA FinishedTyped ==
  ASSUME jobs \in [Kind -> Nat], hand \in Kind, jobs[hand] > 0
  PROVE  Finished \in [Kind -> Nat]
  <1>1. jobs[hand] - 1 \in Nat
    OBVIOUS
  <1> QED BY <1>1 DEF Finished

LEMMA DiskBounds ==
  ASSUME disk \in 0 .. MaxVersion, newest \in 1 .. MaxVersion,
         Change \/ Vanish \/ Return \/ Revert
  PROVE  disk' \in 0 .. MaxVersion /\ newest' \in 1 .. MaxVersion
  <1>1. CASE Change BY <1>1, FileAssumption DEF Change
  <1>2. CASE Vanish BY <1>2, FileAssumption DEF Vanish, Nothing
  <1>3. CASE Return BY <1>3, FileAssumption DEF Return
  <1>4. CASE Revert BY <1>4, FileAssumption DEF Revert
  <1> QED BY <1>1, <1>2, <1>3, <1>4

-----------------------------------------------------------------------------
(* Type correctness *)

LEMMA InitTyped == Init => Typed
  <1> SUFFICES ASSUME Init PROVE Typed
    OBVIOUS
  <1>1. TypeOK
    <2>1. disk \in 0 .. MaxVersion /\ newest \in 1 .. MaxVersion
      BY FileAssumption DEF Init
    <2>2. extractions \in 0 .. MaxExtraction /\ events \in 0 .. MaxEvents
      BY FileAssumption DEF Init
    <2>3. /\ chunks \in [Extraction -> {"none", "active", "stale"}]
          /\ jobs \in [Kind -> Nat]
      BY DEF Init
    <2>4. /\ textOf \in [Extraction -> 0 .. MaxVersion]
          /\ vectors \in [Extraction -> 0 .. MaxVersion]
          /\ text \in 0 .. MaxVersion
      BY NothingTyped DEF Init
    <2>5. row \in Row /\ cache \in Entry
      BY NothingTyped DEF Init
    <2>6. pc \in Pc /\ hand \in Kind
      BY DEF Init, Pc, Kind
    <2>7. /\ folder \in BOOLEAN /\ seen \in BOOLEAN /\ erased \in BOOLEAN
          /\ orphan \in BOOLEAN /\ requeued \in BOOLEAN /\ checked \in BOOLEAN
      BY DEF Init
    <2>8. keyword \subseteq Extraction /\ lapses \subseteq Lapses
          /\ window \in {"none", "keyword", "vector"}
      BY DEF Init
    <2> QED BY <2>1, <2>2, <2>3, <2>4, <2>5, <2>6, <2>7, <2>8 DEF TypeOK
  <1>2. HandMatches /\ HandQueued /\ RecordFound
    BY DEF Init, HandMatches, HandQueued, RecordFound
  <1> QED BY <1>1, <1>2 DEF Typed

LEMMA ScanTyped == Typed /\ Scan => Typed'
  <1> SUFFICES ASSUME Typed, Scan PROVE Typed'
    OBVIOUS
  <1> USE DEF Typed, TypeOK, HandMatches, HandQueued, RecordFound, At, Goto, Calm,
        ScanSteps, NoLapse, Nothing, diskVars, chunkVars, catalogVars, loopVars,
        historyVars, Kind, Pc
  <1>1. CASE ScanAbsent BY <1>1 DEF ScanAbsent
  <1>2. CASE ScanUnreadable
    BY <1>2, EventTyped DEF ScanUnreadable
  <1>3. CASE ScanDenied
    <2>1. [row EXCEPT !.status = "permission_denied"] \in Row
      BY StatusTyped DEF FileStatus
    <2>2. lapses' \subseteq Lapses /\ events' \in 0 .. MaxEvents
      BY <1>3, EventTyped, LapseTyped DEF ScanDenied, Lapses
    <2> QED BY <1>3, <2>1, <2>2 DEF ScanDenied
  <1>4. CASE ScanOversize
    <2>1. NoRow \in Row
      BY NothingTyped
    <2>2. extractions' \in 0 .. MaxExtraction
      BY <1>4, FileAssumption DEF ScanOversize, EraseFile
    <2> QED BY <1>4, <2>1, <2>2, NothingTyped DEF ScanOversize, EraseFile, FileJobs
  <1>5. CASE ScanNew
    BY <1>5, RowTyped DEF ScanNew
  <1>6. CASE ScanUnchanged BY <1>6 DEF ScanUnchanged
  <1>7. CASE ScanReturned
    <2>1. row' \in Row
      BY <1>7, StatusTyped DEF ScanReturned, FileStatus
    <2>2. lapses' \subseteq Lapses
      BY <1>7, LapseTyped DEF ScanReturned, Lapses
    <2> QED BY <1>7, <2>1, <2>2 DEF ScanReturned
  <1>8. CASE ScanChanged
    <2>1. row' \in Row
      BY <1>8, ChangedTyped DEF ScanChanged, FileStatus
    <2> QED BY <1>8, <2>1 DEF ScanChanged
  <1>9. CASE ScanEnqueue BY <1>9 DEF ScanEnqueue, Enqueued
  <1>10. CASE ScanReactivate
    <2>1. lapses' \subseteq Lapses
      BY <1>10, LapseTyped DEF ScanReactivate, Lapses
    <2> QED BY <1>10, <2>1 DEF ScanReactivate, Reactivated
  <1>11. CASE ScanMissing
    <2>1. row' \in Row
      BY <1>11, WithStatusTyped DEF ScanMissing, FileStatus
    <2> QED BY <1>11, <2>1 DEF ScanMissing
  <1>12. CASE ScanDeactivate BY <1>12, SMTT(15), ZenonT(30) DEF ScanDeactivate, StaleExcept
  <1>13. CASE ScanEvict
    <2>1. lapses' \subseteq Lapses /\ events' \in 0 .. MaxEvents
      BY <1>13, EventTyped, LapseTyped DEF ScanEvict, Lapses
    <2> QED BY <1>13, <2>1, NothingTyped DEF ScanEvict
  <1> QED BY <1>1, <1>2, <1>3, <1>4, <1>5, <1>6, <1>7, <1>8, <1>9, <1>10, <1>11,
             <1>12, <1>13 DEF Scan

LEMMA ExtractTyped == Typed /\ Extract => Typed'
  <1> SUFFICES ASSUME Typed, Extract PROVE Typed'
    OBVIOUS
  <1> USE DEF Typed, TypeOK, HandMatches, HandQueued, RecordFound, At, Goto, Calm,
        ExtractSteps, NoLapse, Nothing, diskVars, chunkVars, catalogVars, loopVars,
        historyVars, Kind, Pc
  <1>1. CASE ExtractBlocked BY <1>1 DEF ExtractBlocked
  <1>2. CASE ExtractUnreadable BY <1>2, EventTyped DEF ExtractUnreadable
  <1>3. CASE ExtractFresh
    <2>1. lapses' \subseteq Lapses
      BY <1>3, LapseTyped DEF ExtractFresh, Lapses
    <2> QED BY <1>3, <2>1 DEF ExtractFresh
  <1>4. CASE ExtractRead BY <1>4 DEF ExtractRead
  <1>5. CASE ExtractPut
    <2>1. lapses' \subseteq Lapses
      BY <1>5, LapseTyped DEF ExtractPut, Lapses
    <2>2. cache' \in Entry
      BY <1>5, EntryTyped DEF ExtractPut
    <2> QED BY <1>5, <2>1, <2>2 DEF ExtractPut
  <1>6. CASE ExtractRecord
    <2>1. extractions' \in 0 .. MaxExtraction
      BY <1>6, FileAssumption DEF ExtractRecord
    <2> QED BY <1>6, <2>1, NothingTyped DEF ExtractRecord
  <1>7. CASE ExtractEnqueue BY <1>7 DEF ExtractEnqueue, Enqueued
  <1> QED BY <1>1, <1>2, <1>3, <1>4, <1>5, <1>6, <1>7 DEF Extract

LEMMA ChunkTyped == Typed /\ Chunk => Typed'
  <1> SUFFICES ASSUME Typed, Chunk PROVE Typed'
    OBVIOUS
  <1> USE DEF Typed, TypeOK, HandMatches, HandQueued, RecordFound, At, Goto, Calm,
        ChunkSteps, NoLapse, Nothing, diskVars, chunkVars, catalogVars, loopVars,
        historyVars, Kind, Pc
  <1>1. CASE ChunkBlocked BY <1>1 DEF ChunkBlocked
  <1>2. CASE ChunkMissing BY <1>2 DEF ChunkMissing
  <1>3. CASE ChunkTextless
    <2>1. row' \in Row
      BY <1>3, WithStatusTyped DEF ChunkTextless, FileStatus
    <2>2. lapses' \subseteq Lapses
      BY <1>3, LapseTyped DEF ChunkTextless, Lapses
    <2> QED BY <1>3, <2>1, <2>2 DEF ChunkTextless
  <1>4. CASE ChunkRead
    <2>1. cache.text \in 0 .. MaxVersion
      BY DEF Entry
    <2> QED BY <1>4, <2>1 DEF ChunkRead
  <1>5. CASE ChunkReuse
    <2>1. row' \in Row
      BY <1>5, IndexedTyped DEF ChunkReuse
    <2>2. keyword' \subseteq Extraction
      BY <1>5 DEF ChunkReuse, KeywordWith, KeywordExcept, Active
    <2> QED BY <1>5, <2>1, <2>2, NothingTyped DEF ChunkReuse, StaleExcept
  <1>6. CASE ChunkDiffer BY <1>6, NothingTyped DEF ChunkDiffer
  <1>7. CASE ChunkInsert
    <2>1. row' \in Row
      BY <1>7, IndexedTyped DEF ChunkInsert
    <2>2. extractions \in Extraction
      BY <1>7 DEF ChunkInsert, Extraction
    <2>3. keyword' \subseteq Extraction
      BY <1>7, <2>2 DEF ChunkInsert, KeywordWith, KeywordExcept
    <2> QED BY <1>7, <2>1, <2>3, NothingTyped DEF ChunkInsert, StaleExcept
  <1>8. CASE ChunkClash
    <2>1. lapses' \subseteq Lapses
      BY <1>8, LapseTyped DEF ChunkClash, Lapses
    <2> QED BY <1>8, <2>1, NothingTyped DEF ChunkClash
  <1>9. CASE ChunkEvict BY <1>9, NothingTyped DEF ChunkEvict
  <1>10. CASE ChunkAgain BY <1>10 DEF ChunkAgain, Enqueued
  <1>11. CASE ChunkEmbed BY <1>11 DEF ChunkEmbed, Enqueued
  <1> QED BY <1>1, <1>2, <1>3, <1>4, <1>5, <1>6, <1>7, <1>8, <1>9, <1>10,
             <1>11 DEF Chunk

LEMMA EmbeddingTyped == Typed /\ Embedding => Typed'
  <1> SUFFICES ASSUME Typed, Embedding PROVE Typed'
    OBVIOUS
  <1> USE DEF Typed, TypeOK, HandMatches, HandQueued, RecordFound, At, Goto, Calm,
        EmbeddingSteps, NoLapse, Nothing, diskVars, chunkVars, catalogVars, loopVars,
        historyVars, Kind, Pc
  <1>1. CASE EmbeddingBlocked BY <1>1 DEF EmbeddingBlocked
  <1>2. CASE EmbeddingMissing BY <1>2 DEF EmbeddingMissing
  <1>3. CASE EmbeddingNothing BY <1>3 DEF EmbeddingNothing
  <1>4. CASE EmbeddingRead
    <2>1. cache.text \in 0 .. MaxVersion
      BY DEF Entry
    <2> QED BY <1>4, <2>1 DEF EmbeddingRead
  <1>5. CASE EmbeddingFails BY <1>5, NothingTyped, EventTyped DEF EmbeddingFails
  <1>6. CASE EmbeddingStore BY <1>6, NothingTyped DEF EmbeddingStore, Embedded
  <1> QED BY <1>1, <1>2, <1>3, <1>4, <1>5, <1>6 DEF Embedding

LEMMA OutcomeTyped == Typed /\ Outcome => Typed'
  <1> SUFFICES ASSUME Typed, Outcome PROVE Typed'
    OBVIOUS
  <1> USE DEF Typed, TypeOK, HandMatches, HandQueued, RecordFound, At, Goto, Calm,
        NoLapse, Nothing, diskVars, chunkVars, catalogVars, loopVars,
        historyVars, Kind, Pc
  <1>1. CASE RepairMiss
    <2>1. row' \in Row
      BY <1>1, WithStatusTyped DEF RepairMiss, Retried, FileStatus
    <2>2. lapses' \subseteq Lapses
      BY <1>1, LapseTyped DEF RepairMiss, Lapses
    <2> QED BY <1>1, <2>1, <2>2 DEF RepairMiss, Enqueued
  <1>2. CASE Complete
    <2>1. jobs' \in [Kind -> Nat]
      BY <1>2, FinishedTyped DEF Complete
    <2> QED BY <1>2, <2>1, NothingTyped DEF Complete, Rest
  <1>3. CASE Retry BY <1>3, NothingTyped, EventTyped DEF Retry, Rest
  <1>4. CASE FailForGood
    <2>1. lapses' \subseteq Lapses
      BY <1>4, LapseTyped DEF FailForGood, Lapses
    <2>2. jobs' \in [Kind -> Nat]
      BY <1>4, FinishedTyped DEF FailForGood
    <2> QED BY <1>4, <2>1, <2>2 DEF FailForGood
  <1>7. CASE FileFails
    <2>1. row' \in Row
      BY <1>7, WithStatusTyped DEF FileFails, FileStatus
    <2>2. lapses' \subseteq Lapses
      BY <1>7, LapseTyped DEF FileFails, Lapses
    <2> QED BY <1>7, <2>1, <2>2, NothingTyped DEF FileFails, Rest
  <1>5. CASE FailReplaced
    <2>1. jobs' \in [Kind -> Nat]
      BY <1>5, FinishedTyped DEF FailReplaced
    <2> QED BY <1>5, <2>1, NothingTyped DEF FailReplaced, Rest
  <1>6. CASE Abandon BY <1>6, NothingTyped DEF Abandon
  <1> QED BY <1>1, <1>2, <1>3, <1>4, <1>5, <1>6, <1>7 DEF Outcome

LEMMA WindowTyped == Typed /\ Window => Typed'
  <1> SUFFICES ASSUME Typed, Window PROVE Typed'
    OBVIOUS
  <1> USE DEF Typed, TypeOK, HandMatches, HandQueued, RecordFound, At, Goto, Calm,
        WindowStep, NoLapse, Nothing, diskVars, chunkVars, catalogVars, loopVars,
        historyVars, Kind, Pc
  <1>1. CASE PrepareSourceAgain
    BY <1>1, EventTyped DEF PrepareSourceAgain, Enqueued
  <1>11. CASE ListFailed BY <1>11 DEF ListFailed
  <1>12. CASE PrepareFailed
    <2>1. row' \in Row
      BY <1>12, WithStatusTyped DEF PrepareFailed, Retried, FileStatus
    <2> QED BY <1>12, <2>1 DEF PrepareFailed, Enqueued
  <1>13. CASE CleanupMissing BY <1>13, NothingTyped DEF CleanupMissing
  <1>2. CASE PrepareAgain
    <2>1. row' \in Row
      BY <1>2, WithStatusTyped DEF PrepareAgain, Retried, FileStatus
    <2>2. events' \in 0 .. MaxEvents
      BY <1>2, EventTyped DEF PrepareAgain
    <2> QED BY <1>2, <2>1, <2>2 DEF PrepareAgain, Enqueued
  <1>3. CASE ClearText BY <1>3, NothingTyped, EventTyped DEF ClearText
  <1>4. CASE DeleteKeyword BY <1>4, EventTyped DEF DeleteKeyword
  <1>5. CASE BackfillExtraction
    <2>1. lapses' \subseteq Lapses
      BY <1>5, LapseTyped DEF BackfillExtraction, Lapses
    <2> QED BY <1>5, <2>1 DEF BackfillExtraction, Enqueued
  <1>6. CASE DeleteVectors BY <1>6, NothingTyped, EventTyped DEF DeleteVectors
  <1>7. CASE BackfillEmbedding BY <1>7 DEF BackfillEmbedding, EmbeddingBackfilled, Enqueued
  <1>8. CASE RemoveReplaced
    <2>1. events' \in 0 .. MaxEvents /\ cache' \in Entry
      BY <1>8, EventTyped, NothingTyped DEF RemoveReplaced
    <2> QED BY <1>8, <2>1, NothingTyped DEF RemoveReplaced
  <1>9. CASE RemoveFolder
    <2>1. events' \in 0 .. MaxEvents /\ extractions' \in 0 .. MaxExtraction
      BY <1>9, EventTyped, FileAssumption DEF RemoveFolder, EraseFile
    <2>2. lapses' \subseteq Lapses
      BY <1>9, LapseTyped DEF RemoveFolder, Lapses
    <2> QED BY <1>9, <2>1, <2>2, NothingTyped, SMTT(15), ZenonT(30) DEF RemoveFolder, EraseFile
  <1>10. CASE AddFolder BY <1>10 DEF AddFolder, Enqueued
  <1> QED BY <1>1, <1>2, <1>3, <1>4, <1>5, <1>6, <1>7, <1>8, <1>9, <1>10, <1>11,
             <1>12, <1>13 DEF Window, WindowGoesOn

LEMMA DiskTyped == Typed /\ Disk => Typed'
  <1> SUFFICES ASSUME Typed, Disk PROVE Typed'
    OBVIOUS
  <1>1. disk' \in 0 .. MaxVersion /\ newest' \in 1 .. MaxVersion
    BY DiskBounds DEF Disk, Typed, TypeOK
  <1>2. events' \in 0 .. MaxEvents
    BY EventTyped DEF Disk, Change, Vanish, Return, Revert, Typed, TypeOK
  <1>3. lapses' \subseteq Lapses
    BY LapseTyped DEF Disk, Change, Vanish, Return, Revert, NoLapse, Lapses, Typed, TypeOK
  <1>4. DiskStep /\ checked' \in BOOLEAN
    BY DEF Disk, Change, Vanish, Return, Revert
  <1> QED
    BY <1>1, <1>2, <1>3, <1>4 DEF DiskStep, Typed, TypeOK, HandMatches, HandQueued,
       RecordFound, chunkVars, catalogVars, loopVars

(* Taking a job, trimming, dying and starting again. *)
LEMMA SessionTyped ==
  Typed /\ (Backfill \/ (\E k \in Kind : Take(k)) \/ Trim \/ Crash \/ Start) => Typed'
  <1> SUFFICES ASSUME Typed, Backfill \/ (\E k \in Kind : Take(k)) \/ Trim \/ Crash \/ Start
               PROVE  Typed'
    OBVIOUS
  <1> USE DEF Typed, TypeOK, HandMatches, HandQueued, RecordFound, NoLapse,
        Nothing, diskVars, chunkVars, catalogVars, loopVars, historyVars, Kind, Pc
  <1>1. CASE \E k \in Kind : Take(k)
    <2>1. PICK k \in Kind : Take(k)
      BY <1>1
    <2> QED BY <2>1, SMTT(15), ZenonT(30) DEF Take
  <1>2. CASE Trim
    BY <1>2, EventTyped, NothingTyped DEF Trim
  <1>3. CASE Crash
    <2>1. lapses' \subseteq Lapses /\ events' \in 0 .. MaxEvents
      BY <1>3, LapseTyped, EventTyped DEF Crash, Lapses
    <2> QED BY <1>3, <2>1, NothingTyped DEF Crash
  <1>4. CASE Start
    <2>1. jobs' \in [Kind -> Nat]
      BY <1>4 DEF Start
    <2> QED BY <1>4, <2>1 DEF Start
  <1>5. CASE Backfill
    BY <1>5 DEF Backfill, EmbeddingBackfilled, Enqueued, At, Goto, Calm
  <1> QED BY <1>1, <1>2, <1>3, <1>4, <1>5

LEMMA StepTyped == Typed /\ [Next]_vars => Typed'
  <1> SUFFICES ASSUME Typed, [Next]_vars PROVE Typed'
    OBVIOUS
  <1>1. CASE Loop
    BY <1>1, ScanTyped, ExtractTyped, ChunkTyped, EmbeddingTyped, OutcomeTyped,
       SessionTyped DEF Loop
  <1>2. CASE Window BY <1>2, WindowTyped
  <1>3. CASE Disk BY <1>3, DiskTyped
  <1>4. CASE Trim \/ Crash \/ Start BY <1>4, SessionTyped
  <1>5. CASE UNCHANGED vars
    BY <1>5 DEF vars, diskVars, catalogVars, chunkVars, loopVars, historyVars, Typed,
       TypeOK, HandMatches, HandQueued, RecordFound
  <1> QED BY <1>1, <1>2, <1>3, <1>4, <1>5 DEF Next

(* Whatever happens to the file, the catalog and the process, every        *)
(* variable keeps its type; a job is never counted off twice, although its *)
(* row may be removed while the loop works on it.                          *)
THEOREM FileTypeCorrect == Spec => []TypeOK
  <1>1. Spec => []Typed
    BY InitTyped, StepTyped, PTL DEF Spec
  <1>2. Typed => TypeOK
    BY DEF Typed
  <1> QED BY <1>1, <1>2, PTL

-----------------------------------------------------------------------------
(* Which extraction is shown                                               *)
(*                                                                         *)
(* At most one extraction is active because the active one is the newest   *)
(* that has chunks at all.  For that to survive a file's return, nothing   *)
(* may be active when the newest stale chunks are taken back, which is so  *)
(* because what is missing has no active chunks, between the scan's last   *)
(* two statements apart.                                                   *)

Holders == Active \cup Stale

Orderly == "still_active" \notin lapses

WithinRecords == \A g \in Holders : g <= extractions
ActiveIsNewest == Orderly => \A g \in Active : \A h \in Holders : h <= g
NewestExists == Orderly /\ Holders # {} => \E g \in Holders : \A h \in Holders : h <= g
MissingIsHidden ==
  Orderly /\ row.status = "missing" /\ Active # {} => pc = "scan_deactivate"
HiddenOnReturn ==
  pc = "scan_reactivate" => row.status # "missing" /\ (Orderly => Active = {})
OrphanHasNoRow == orphan => row.status = "none"

ShownInv ==
  /\ WithinRecords /\ ActiveIsNewest /\ NewestExists
  /\ MissingIsHidden /\ HiddenOnReturn /\ OrphanHasNoRow

(* A step that leaves the chunks alone *)
LEMMA ShownKept ==
  ASSUME ShownInv, chunks' = chunks, extractions' = extractions,
         lapses \subseteq lapses', OrphanHasNoRow',
         pc' = "scan_reactivate" => row'.status # "missing" /\ (Orderly' => Active = {}),
         Orderly' /\ row'.status = "missing" /\ Active # {} => pc' = "scan_deactivate"
  PROVE  ShownInv'
  <1>1. Active' = Active /\ Stale' = Stale /\ (Orderly' => Orderly)
    BY DEF Active, Stale, Orderly
  <1> QED
    BY <1>1 DEF ShownInv, WithinRecords, ActiveIsNewest, NewestExists, MissingIsHidden,
       HiddenOnReturn, Holders

LEMMA StatusOf ==
  ASSUME row \in Row, NEW s
  PROVE  /\ WithStatus(s).status \in {"none", s}
         /\ [row EXCEPT !.status = s].status = s
  BY DEF WithStatus, Row

LEMMA InitShown == Init => ShownInv
  BY DEF Init, ShownInv, WithinRecords, ActiveIsNewest, NewestExists, MissingIsHidden,
     HiddenOnReturn, OrphanHasNoRow, Holders, Active, Stale, NoRow

LEMMA EmbeddingShown == Typed /\ ShownInv /\ Embedding => ShownInv'
  <1> SUFFICES ASSUME Typed, ShownInv, Embedding PROVE ShownInv'
    OBVIOUS
  <1>1. /\ chunks' = chunks /\ extractions' = extractions /\ lapses' = lapses
        /\ row' = row /\ orphan' = orphan /\ pc \in {"embedding", "embedding_store"}
        /\ pc' \notin {"scan_reactivate", "scan_deactivate"}
    BY DEF Embedding, EmbeddingBlocked, EmbeddingMissing, EmbeddingNothing, EmbeddingRead,
       EmbeddingFails, EmbeddingStore, EmbeddingSteps, At, Goto, Calm, chunkVars, historyVars
  <1> QED
    BY <1>1, ShownKept DEF ShownInv, MissingIsHidden, OrphanHasNoRow, Orderly

LEMMA DiskShown == Typed /\ ShownInv /\ Disk => ShownInv'
  <1> SUFFICES ASSUME Typed, ShownInv, Disk PROVE ShownInv'
    OBVIOUS
  <1>1. /\ chunks' = chunks /\ extractions' = extractions /\ lapses \subseteq lapses'
        /\ row' = row /\ orphan' = orphan /\ pc' = pc
    BY DEF Disk, Change, Vanish, Return, Revert, DiskStep, NoLapse, Lapse, catalogVars,
       chunkVars, loopVars
  <1> QED
    BY <1>1, ShownKept DEF ShownInv, MissingIsHidden, HiddenOnReturn, OrphanHasNoRow, Orderly

LEMMA ExtractShown == Typed /\ ShownInv /\ Extract => ShownInv'
  <1> SUFFICES ASSUME Typed, ShownInv, Extract PROVE ShownInv'
    OBVIOUS
  <1>1. /\ chunks' = chunks /\ lapses \subseteq lapses' /\ row' = row
        /\ orphan' = orphan /\ pc \notin {"scan_reactivate", "scan_deactivate"}
        /\ pc' \notin {"scan_reactivate", "scan_deactivate"}
    BY DEF Extract, ExtractBlocked, ExtractUnreadable, ExtractFresh, ExtractRead,
       ExtractPut, ExtractRecord, ExtractEnqueue, ExtractSteps, At, Goto, Calm, Lapse,
       catalogVars, chunkVars
  <1>2. extractions' = extractions \/ extractions' = extractions + 1
    BY DEF Extract, ExtractBlocked, ExtractUnreadable, ExtractFresh, ExtractRead,
       ExtractPut, ExtractRecord, ExtractEnqueue, catalogVars, chunkVars
  <1>3. Active' = Active /\ Stale' = Stale /\ (Orderly' => Orderly)
    BY <1>1 DEF Active, Stale, Orderly
  <1>4. WithinRecords'
    <2> SUFFICES ASSUME NEW g \in Holders PROVE g <= extractions'
      BY <1>3 DEF WithinRecords, Holders
    <2>1. g \in Nat /\ extractions \in Nat /\ g <= extractions
      BY FileAssumption DEF Typed, TypeOK, ShownInv, WithinRecords, Holders, Active, Stale,
         Extraction
    <2> QED BY <1>2, <2>1
  <1> QED
    BY <1>1, <1>3, <1>4 DEF ShownInv, ActiveIsNewest, NewestExists, MissingIsHidden,
       HiddenOnReturn, OrphanHasNoRow, Holders

LEMMA OutcomeShown == Typed /\ ShownInv /\ Outcome => ShownInv'
  <1> SUFFICES ASSUME Typed, ShownInv, Outcome PROVE ShownInv'
    OBVIOUS
  <1>1. /\ chunks' = chunks /\ extractions' = extractions /\ lapses \subseteq lapses'
        /\ pc' \notin {"scan_reactivate", "scan_deactivate"}
        /\ orphan' => orphan
    BY DEF Outcome, RepairMiss, Complete, Retry, FailForGood, FileFails, FailReplaced, Abandon, Rest,
       Goto, Calm, At, Lapse, catalogVars, chunkVars, historyVars
  <1>2. row'.status = "missing" => row.status = "missing"
    BY StatusOf DEF Outcome, RepairMiss, Complete, Retry, FailForGood, FileFails, FailReplaced, Abandon,
       Retried, catalogVars, Typed, TypeOK
  <1>3. orphan => row' = row /\ row.status = "none"
    BY DEF Outcome, RepairMiss, Complete, Retry, FailForGood, FileFails, FailReplaced, Abandon, At,
       catalogVars, ShownInv, OrphanHasNoRow
  <1>4. pc = "scan_deactivate" => orphan
    BY DEF Outcome, RepairMiss, Complete, Retry, FailForGood, FileFails, FailReplaced, Abandon, At
  <1> QED
    BY <1>1, <1>2, <1>3, <1>4, ShownKept DEF ShownInv, MissingIsHidden, OrphanHasNoRow, Orderly

LEMMA WindowShown == Typed /\ ShownInv /\ Window => ShownInv'
  <1> SUFFICES ASSUME Typed, ShownInv, Window PROVE ShownInv'
    OBVIOUS
  <1>1. CASE PrepareFailed \/ PrepareAgain
    <2>1. /\ chunks' = chunks /\ extractions' = extractions /\ lapses' = lapses
          /\ pc' = pc /\ orphan' = orphan
      BY <1>1 DEF PrepareFailed, PrepareAgain, WindowStep, chunkVars, loopVars,
         historyVars
    <2>2. row' = row \/ (row'.status \in {"none", "discovered"} /\ row.status = "failed")
      BY <1>1, StatusOf DEF PrepareFailed, PrepareAgain, Retried, Typed, TypeOK
    <2> QED
      BY <2>1, <2>2, ShownKept DEF ShownInv, MissingIsHidden, HiddenOnReturn,
         OrphanHasNoRow, Orderly
  <1>2. CASE RemoveReplaced
    <2>1. /\ row' = row /\ orphan' = orphan /\ pc' = pc /\ lapses' = lapses
          /\ extractions' = extractions
      BY <1>2 DEF RemoveReplaced, WindowStep, historyVars
    <2>2. Active' = Active /\ Stale' = (IF Active = {} THEN Stale ELSE {})
      BY <1>2 DEF RemoveReplaced, Active, Stale
    <2> QED
      BY <2>1, <2>2 DEF ShownInv, WithinRecords, ActiveIsNewest, NewestExists, MissingIsHidden,
         HiddenOnReturn, OrphanHasNoRow, Holders, Orderly
  <1>3. CASE RemoveFolder
    <2>1. Active' = {} /\ Stale' = {} /\ row'.status = "none"
      BY <1>3 DEF RemoveFolder, EraseFile, NoRow, Active, Stale
    <2> QED
      BY <2>1 DEF ShownInv, WithinRecords, ActiveIsNewest, NewestExists, MissingIsHidden,
         HiddenOnReturn, OrphanHasNoRow, Holders, Orderly
  <1>4. CASE \/ ClearText \/ DeleteKeyword \/ BackfillExtraction \/ DeleteVectors
             \/ BackfillEmbedding \/ AddFolder \/ PrepareSourceAgain \/ ListFailed
             \/ CleanupMissing
    <2>1. /\ chunks' = chunks /\ extractions' = extractions /\ lapses \subseteq lapses'
          /\ row' = row /\ pc' = pc /\ orphan' = orphan
      BY <1>4 DEF ClearText, DeleteKeyword, BackfillExtraction, DeleteVectors,
         BackfillEmbedding, AddFolder, PrepareSourceAgain, ListFailed, CleanupMissing,
         WindowStep, Lapse, catalogVars, chunkVars, loopVars,
         historyVars
    <2> QED
      BY <2>1, ShownKept DEF ShownInv, MissingIsHidden, HiddenOnReturn, OrphanHasNoRow, Orderly
  <1> QED BY <1>1, <1>2, <1>3, <1>4 DEF Window, WindowGoesOn

LEMMA SessionShown ==
  Typed /\ ShownInv /\ (Backfill \/ (\E k \in Kind : Take(k)) \/ Trim \/ Crash \/ Start) => ShownInv'
  <1> SUFFICES ASSUME Typed, ShownInv, Backfill \/ (\E k \in Kind : Take(k)) \/ Trim \/ Crash \/ Start
               PROVE  ShownInv'
    OBVIOUS
  <1>1. /\ chunks' = chunks /\ extractions' = extractions /\ lapses \subseteq lapses'
        /\ row' = row /\ (orphan' => orphan)
    BY DEF Backfill, At, Goto, Calm, Take, Trim, Crash, Start, Lapse, catalogVars, chunkVars, loopVars, historyVars
  <1>2. pc' \notin {"scan_reactivate", "scan_deactivate"}
    BY DEF Backfill, At, Goto, Calm, Take, Trim, Crash, Start, Kind, loopVars
  <1>3. Orderly' /\ row.status = "missing" /\ Active # {} => FALSE
    <2>1. CASE Crash
      BY <2>1 DEF Crash, Lapse, Orderly, ShownInv, MissingIsHidden
    <2>2. CASE Backfill \/ (\E k \in Kind : Take(k)) \/ Trim \/ Start
      BY <2>2 DEF Backfill, At, Goto, Take, Trim, Start, historyVars, Orderly, ShownInv, MissingIsHidden
    <2> QED BY <2>1, <2>2
  <1> QED
    BY <1>1, <1>2, <1>3, ShownKept DEF ShownInv, OrphanHasNoRow

LEMMA ScanShown == Typed /\ ShownInv /\ Scan => ShownInv'
  <1> SUFFICES ASSUME Typed, ShownInv, Scan PROVE ShownInv'
    OBVIOUS
  <1>1. CASE ScanOversize
    <2>1. Active' = {} /\ Stale' = {} /\ row'.status = "none"
      BY <1>1 DEF ScanOversize, EraseFile, NoRow, Active, Stale
    <2> QED
      BY <2>1 DEF ShownInv, WithinRecords, ActiveIsNewest, NewestExists, MissingIsHidden,
         HiddenOnReturn, OrphanHasNoRow, Holders, Orderly
  <1>2. CASE ScanReactivate
    <2>1. /\ lapses \subseteq lapses' /\ extractions' = extractions /\ row' = row
          /\ ~orphan' /\ pc = "scan_reactivate" /\ pc' = "scan_missing"
      BY <1>2 DEF ScanReactivate, At, Goto, Calm, Lapse
    <2>2. Active' \cup Stale' = Holders
      BY <1>2 DEF ScanReactivate, Reactivated, Active, Stale, Holders
    <2>3. WithinRecords' /\ NewestExists' /\ OrphanHasNoRow'
      BY <2>1, <2>2 DEF ShownInv, WithinRecords, NewestExists, OrphanHasNoRow, Holders, Orderly
    <2>4. MissingIsHidden' /\ HiddenOnReturn'
      BY <2>1 DEF ShownInv, MissingIsHidden, HiddenOnReturn
    <2>5. ASSUME Orderly' PROVE \A g \in Active' : \A h \in Holders : h <= g
      <3>1. Active = {} /\ Holders = Stale
        BY <2>1, <2>5 DEF ShownInv, HiddenOnReturn, Orderly, Holders
      <3> QED
        BY <1>2, <3>1 DEF ScanReactivate, Reactivated, Active
    <2> QED BY <2>2, <2>3, <2>4, <2>5 DEF ShownInv, ActiveIsNewest, Holders
  <1>3. CASE ScanDeactivate
    <2>1. /\ lapses' = lapses /\ extractions' = extractions /\ row' = row
          /\ ~orphan' /\ pc' \in {"scan_evict", "ok"}
      BY <1>3 DEF ScanDeactivate, At, Goto, Calm
    <2>2. Active' \cup Stale' = Holders
      BY <1>3 DEF ScanDeactivate, StaleExcept, Active, Stale, Holders
    <2>3. Active' = IF row.status = "missing" THEN {} ELSE Active
      BY <1>3 DEF ScanDeactivate, StaleExcept, Active
    <2> QED
      BY <2>1, <2>2, <2>3 DEF ShownInv, WithinRecords, ActiveIsNewest, NewestExists, MissingIsHidden,
         HiddenOnReturn, OrphanHasNoRow, Holders, Orderly
  <1>4. CASE ScanReturned
    <2>1. /\ chunks' = chunks /\ extractions' = extractions /\ lapses \subseteq lapses'
          /\ ~orphan' /\ pc = "scan" /\ row.status = "missing"
      BY <1>4 DEF ScanReturned, ScanSteps, At, Calm, Lapse, chunkVars
    <2>2. row'.status # "missing"
      BY <1>4, StatusOf DEF ScanReturned, Typed, TypeOK
    <2> QED
      BY <2>1, <2>2, ShownKept DEF ShownInv, MissingIsHidden, OrphanHasNoRow, Orderly
  <1>5. CASE ScanMissing
    BY <1>5, ShownKept DEF ScanMissing, ScanSteps, At, Goto, Calm, chunkVars, OrphanHasNoRow,
       Orderly
  <1>6. CASE \/ ScanAbsent \/ ScanUnreadable \/ ScanDenied \/ ScanNew \/ ScanUnchanged
             \/ ScanChanged \/ ScanEnqueue \/ ScanEvict
    <2>1. /\ chunks' = chunks /\ extractions' = extractions /\ lapses \subseteq lapses'
          /\ orphan' = orphan /\ pc' \notin {"scan_reactivate", "scan_deactivate"}
          /\ pc \notin {"scan_reactivate", "scan_deactivate"}
      BY <1>6 DEF ScanAbsent, ScanUnreadable, ScanDenied, ScanNew, ScanUnchanged, ScanChanged,
         ScanEnqueue, ScanEvict, ScanSteps, At, Goto, Calm, Lapse, NoLapse, catalogVars, chunkVars
    <2>2. row'.status = "missing" => row' = row
      <3>1. CASE ScanDenied BY <3>1, StatusOf DEF ScanDenied, Typed, TypeOK
      <3>2. CASE ScanNew BY <3>2 DEF ScanNew
      <3>3. CASE ScanChanged BY <3>3 DEF ScanChanged, Typed, TypeOK, Row
      <3> QED BY <1>6, <3>1, <3>2, <3>3 DEF ScanAbsent, ScanUnreadable, ScanUnchanged,
                ScanEnqueue, ScanEvict, ScanSteps, catalogVars
    <2>3. orphan => row' = row
      BY <1>6 DEF ScanAbsent, ScanUnreadable, ScanDenied, ScanNew, ScanUnchanged, ScanChanged,
         ScanEnqueue, ScanEvict, At
    <2> QED
      BY <2>1, <2>2, <2>3, ShownKept DEF ShownInv, MissingIsHidden, OrphanHasNoRow, Orderly
  <1> QED BY <1>1, <1>2, <1>3, <1>4, <1>5, <1>6 DEF Scan

LEMMA ChunkShown == Typed /\ ShownInv /\ Chunk => ShownInv'
  <1> SUFFICES ASSUME Typed, ShownInv, Chunk PROVE ShownInv'
    OBVIOUS
  <1>1. CASE ChunkReuse
    <2>1. /\ lapses' = lapses /\ extractions' = extractions /\ ~orphan' /\ pc' = "ok"
      BY <1>1 DEF ChunkReuse, ChunkSteps, At, Goto, Calm
    <2>2. row'.status # "missing"
      BY <1>1 DEF ChunkReuse, Indexed, Typed, TypeOK, Row
    <2>3. Active' = {extractions} /\ Active' \cup Stale' = Holders
      BY <1>1 DEF ChunkReuse, StaleExcept, Active, Stale, Holders
    <2> QED
      BY <2>1, <2>2, <2>3 DEF ShownInv, WithinRecords, ActiveIsNewest, NewestExists, MissingIsHidden,
         HiddenOnReturn, OrphanHasNoRow, Holders, Orderly
  <1>2. CASE ChunkInsert
    <2>1. /\ lapses' = lapses /\ extractions' = extractions /\ ~orphan' /\ pc' = "chunk_embed"
      BY <1>2 DEF ChunkInsert, ChunkSteps, At, Goto, Calm
    <2>2. row'.status # "missing"
      BY <1>2 DEF ChunkInsert, Indexed, Typed, TypeOK, Row
    <2>3. extractions \in Extraction
      BY <1>2, FileAssumption DEF ChunkInsert, At, Typed, TypeOK, RecordFound, Extraction
    <2>4. Active' = {extractions} /\ Active' \cup Stale' = Holders \cup {extractions}
      BY <1>2, <2>3 DEF ChunkInsert, StaleExcept, Active, Stale, Holders, Typed, TypeOK
    <2>5. \A g \in Active' \cup Stale' : g <= extractions
      BY <2>3, <2>4, FileAssumption DEF ShownInv, WithinRecords, Extraction
    <2> QED
      BY <2>1, <2>2, <2>4, <2>5 DEF ShownInv, WithinRecords, ActiveIsNewest, NewestExists, MissingIsHidden,
         HiddenOnReturn, OrphanHasNoRow, Holders, Orderly
  <1>3. CASE \/ ChunkBlocked \/ ChunkMissing \/ ChunkTextless \/ ChunkRead \/ ChunkDiffer
             \/ ChunkClash \/ ChunkEvict \/ ChunkAgain \/ ChunkEmbed
    <2>1. /\ chunks' = chunks /\ extractions' = extractions /\ lapses \subseteq lapses'
          /\ orphan' = orphan /\ pc' \notin {"scan_reactivate", "scan_deactivate"}
          /\ pc \notin {"scan_reactivate", "scan_deactivate"}
      BY <1>3 DEF ChunkBlocked, ChunkMissing, ChunkTextless, ChunkRead, ChunkDiffer, ChunkClash,
         ChunkEvict, ChunkAgain, ChunkEmbed, ChunkSteps, At, Goto, Calm, Lapse, chunkVars
    <2>2. (row'.status = "missing" => row' = row) /\ (orphan => row' = row)
      BY <1>3, StatusOf DEF ChunkBlocked, ChunkMissing, ChunkTextless, ChunkRead, ChunkDiffer,
         ChunkClash, ChunkEvict, ChunkAgain, ChunkEmbed, At, Typed, TypeOK
    <2> QED
      BY <2>1, <2>2, ShownKept DEF ShownInv, MissingIsHidden, OrphanHasNoRow, Orderly
  <1> QED BY <1>1, <1>2, <1>3 DEF Chunk

LEMMA StepShown == Typed /\ ShownInv /\ [Next]_vars => ShownInv'
  <1> SUFFICES ASSUME Typed, ShownInv, [Next]_vars PROVE ShownInv'
    OBVIOUS
  <1>1. CASE Loop
    BY <1>1, ScanShown, ExtractShown, ChunkShown, EmbeddingShown, OutcomeShown,
       SessionShown DEF Loop
  <1>2. CASE Window BY <1>2, WindowShown
  <1>3. CASE Disk BY <1>3, DiskShown
  <1>4. CASE Trim \/ Crash \/ Start BY <1>4, SessionShown
  <1>5. CASE UNCHANGED vars
    BY <1>5, ShownKept DEF vars, catalogVars, chunkVars, loopVars, historyVars, ShownInv,
       MissingIsHidden, HiddenOnReturn, OrphanHasNoRow, Orderly
  <1> QED BY <1>1, <1>2, <1>3, <1>4, <1>5 DEF Next

LEMMA FileInvariant == Spec => [](Typed /\ ShownInv)
  <1>1. Init => Typed /\ ShownInv
    BY InitTyped, InitShown
  <1>2. Typed /\ ShownInv /\ [Next]_vars => (Typed /\ ShownInv)'
    BY StepTyped, StepShown
  <1> QED BY <1>1, <1>2, PTL DEF Spec

(* The chunks of at most one extraction are active: search never ranks two *)
(* versions of a file, unless the process died between the two statements  *)
(* by which a scan hides what is missing.                                  *)
THEOREM OneExtractionShown == Spec => []OneActive
  <1>1. Typed /\ ShownInv => OneActive
    <2> SUFFICES ASSUME Typed, ShownInv, Orderly PROVE Cardinality(Active) <= 1
      BY DEF OneActive, Orderly
    <2>1. CASE Active = {}
      BY <2>1, FS_EmptySet
    <2>2. CASE Active # {}
      <3>1. PICK g \in Active : TRUE
        BY <2>2
      <3>2. \A h \in Active : h <= g /\ g <= h
        BY <3>1 DEF ShownInv, ActiveIsNewest, Holders
      <3>3. \A h \in Active : h \in Int
        BY FileAssumption DEF Active, Extraction
      <3>4. Active = {g}
        BY <3>1, <3>2, <3>3
      <3> QED BY <3>4, FS_Singleton, SMTT(30)
    <2> QED BY <2>1, <2>2
  <1> QED BY <1>1, FileInvariant, PTL

-----------------------------------------------------------------------------
(* The steps that write chunk_status: what they make of the active and the *)
(* stale extractions.                                                      *)

Writes == \/ ScanOversize \/ ScanReactivate \/ ScanDeactivate
          \/ ChunkReuse \/ ChunkInsert \/ RemoveReplaced \/ RemoveFolder

LEMMA OthersKeepChunks ==
  ASSUME [Next]_vars, ~Writes
  PROVE  chunks' = chunks
  <1>1. CASE Backfill \/ (\E k \in Kind : Take(k)) \/ Trim \/ Crash \/ Start
    BY <1>1 DEF Backfill, Take, Trim, Crash, Start, catalogVars, chunkVars
  <1>2. CASE Scan
    BY <1>2 DEF Scan, Writes, ScanAbsent, ScanUnreadable, ScanDenied, ScanNew, ScanUnchanged,
       ScanReturned, ScanChanged, ScanEnqueue, ScanMissing, ScanEvict, ScanSteps,
       catalogVars, chunkVars
  <1>3. CASE Extract
    BY <1>3 DEF Extract, ExtractBlocked, ExtractUnreadable, ExtractFresh, ExtractRead,
       ExtractPut, ExtractRecord, ExtractEnqueue, catalogVars, chunkVars
  <1>4. CASE Chunk
    BY <1>4 DEF Chunk, Writes, ChunkBlocked, ChunkMissing, ChunkTextless, ChunkRead,
       ChunkDiffer, ChunkClash, ChunkEvict, ChunkAgain, ChunkEmbed, chunkVars
  <1>5. CASE Embedding
    BY <1>5 DEF Embedding, EmbeddingBlocked, EmbeddingMissing, EmbeddingNothing,
       EmbeddingRead, EmbeddingFails, EmbeddingStore, chunkVars
  <1>6. CASE Outcome
    BY <1>6 DEF Outcome, RepairMiss, Complete, Retry, FailForGood, FileFails, FailReplaced,
       Abandon,       Rest, catalogVars, chunkVars
  <1>7. CASE Window
    BY <1>7 DEF Window, WindowGoesOn, Writes, PrepareSourceAgain, ListFailed, PrepareFailed,
       CleanupMissing, PrepareAgain, ClearText, DeleteKeyword,
       BackfillExtraction, DeleteVectors, BackfillEmbedding, AddFolder, WindowStep,
       catalogVars, chunkVars
  <1>8. CASE Disk
    BY <1>8 DEF Disk, Change, Vanish, Return, Revert, DiskStep, catalogVars, chunkVars
  <1>9. CASE UNCHANGED vars
    BY <1>9 DEF vars, catalogVars, chunkVars
  <1> QED BY <1>1, <1>2, <1>3, <1>4, <1>5, <1>6, <1>7, <1>8, <1>9 DEF Next, Loop

LEMMA ErasedHoldsNothing ==
  ASSUME ScanOversize \/ RemoveFolder
  PROVE  Active' = {} /\ Stale' = {} /\ row'.status = "none"
  BY DEF ScanOversize, RemoveFolder, EraseFile, NoRow, Active, Stale

LEMMA DeactivatedHolds ==
  ASSUME ScanDeactivate
  PROVE  /\ Active' = IF row.status = "missing" THEN {} ELSE Active
         /\ Holders' = Holders
         /\ row' = row
  BY DEF ScanDeactivate, StaleExcept, Active, Stale, Holders

LEMMA ReuseHolds ==
  ASSUME ChunkReuse
  PROVE  extractions \in Active /\ Active' = {extractions} /\ Holders' = Holders
  BY DEF ChunkReuse, StaleExcept, Active, Stale, Holders

LEMMA InsertHolds ==
  ASSUME Typed, ChunkInsert
  PROVE  /\ extractions \in Extraction \ Holders
         /\ Active' = {extractions}
         /\ Holders' = Holders \cup {extractions}
  <1>1. extractions \in Extraction
    BY FileAssumption DEF ChunkInsert, At, Typed, TypeOK, RecordFound, Extraction
  <1> QED
    BY <1>1 DEF ChunkInsert, StaleExcept, Active, Stale, Holders, Typed, TypeOK

LEMMA TidiedHolds ==
  ASSUME RemoveReplaced
  PROVE  Active' = Active /\ Holders' = IF Active = {} THEN Holders ELSE Active
  BY DEF RemoveReplaced, Active, Stale, Holders

(* A file search found before, and finds nothing of after a step, is       *)
(* missing, left out or removed: a new version takes the old one's place   *)
(* in the step that hides it, and no failure takes anything away.          *)
THEOREM ReplacedNotTaken == Spec => HiddenOnlyWhenGone
  <1>1. Typed /\ [Next]_vars =>
          (Active # {} /\ Active' = {} => row'.status \in {"none", "missing"})
    <2> SUFFICES ASSUME Typed, [Next]_vars, Active # {}, Active' = {}
                 PROVE  row'.status \in {"none", "missing"}
      OBVIOUS
    <2>1. CASE ~Writes
      BY <2>1, OthersKeepChunks DEF Active
    <2>2. CASE ScanOversize \/ RemoveFolder BY <2>2, ErasedHoldsNothing
    <2>3. CASE ScanDeactivate BY <2>3, DeactivatedHolds
    <2>4. CASE ScanReactivate
      BY <2>4 DEF ScanReactivate, Reactivated, Active, Stale
    <2>5. CASE ChunkReuse BY <2>5, ReuseHolds
    <2>6. CASE ChunkInsert BY <2>6, InsertHolds
    <2>7. CASE RemoveReplaced BY <2>7, TidiedHolds
    <2> QED BY <2>1, <2>2, <2>3, <2>4, <2>5, <2>6, <2>7 DEF Writes
  <1>2. Spec => []Typed
    BY InitTyped, StepTyped, PTL DEF Spec
  <1> QED BY <1>1, <1>2, PTL DEF Spec, HiddenOnlyWhenGone

-----------------------------------------------------------------------------
(* What search shows follows SearchableText                                *)

LEMMA NewestIs ==
  ASSUME NEW S \in SUBSET Extraction, NEW g \in S, \A h \in S : h <= g
  PROVE  Newest(S) = g
  <1>1. \A h \in S : h \in Int
    BY FileAssumption DEF Extraction
  <1>2. S # {}
    OBVIOUS
  <1> DEFINE n == CHOOSE x \in S : \A h \in S : h <= x
  <1>3. n \in S /\ \A h \in S : h <= n
    OBVIOUS
  <1>4. n = g
    BY <1>1, <1>3
  <1> QED BY <1>2, <1>4 DEF Newest

LEMMA NewestOfNone == Newest({}) = 0
  BY DEF Newest

LEMMA HoldersAreExtractions == Active \subseteq Extraction /\ Holders \subseteq Extraction
  BY DEF Active, Stale, Holders

(* Unless a crash left a missing file active, the shown extraction is the  *)
(* newest there is, or none.                                               *)
LEMMA ShownIsLatest ==
  ASSUME ShownInv, Orderly, Active # {}
  PROVE  /\ Newest(Active) = Newest(Holders)
         /\ Newest(Active) \in Active
         /\ Newest(Active) # 0
  <1>1. PICK g \in Active : \A h \in Holders : h <= g
    BY DEF ShownInv, ActiveIsNewest
  <1>2. g \in Holders /\ (\A h \in Active : h <= g) /\ g # 0
    BY <1>1, FileAssumption DEF Holders, Active, Extraction
  <1> QED BY <1>1, <1>2, NewestIs, HoldersAreExtractions

LEMMA LatestIsHeld ==
  ASSUME ShownInv, Orderly, Holders # {}
  PROVE  /\ Newest(Holders) \in Holders
         /\ Newest(Holders) # 0
         /\ \A h \in Holders : h <= Newest(Holders)
  <1>1. PICK g \in Holders : \A h \in Holders : h <= g
    BY DEF ShownInv, NewestExists
  <1>2. g # 0
    BY FileAssumption DEF Holders, Active, Stale, Extraction
  <1> QED BY <1>1, <1>2, NewestIs, HoldersAreExtractions

LEMMA StepFollows ==
  ASSUME Typed, ShownInv, ShownInv', [Next]_vars
  PROVE  [Promise!Next \/ "still_active" \in lapses]_(Promise!vars)
  <1> SUFFICES ASSUME Orderly
               PROVE  Promise!Next \/ UNCHANGED <<Newest(Active), Newest(Holders)>>
    BY DEF Orderly, Promise!vars, Holders
  <1> DEFINE shown == Newest(Active)
             latest == Newest(Holders)
  <1>n. shown' = Newest(Active') /\ latest' = Newest(Holders')
    BY DEF Newest
  <1>r. latest' > latest /\ shown' = latest' => Promise!Next
    BY DEF Promise!Next, Promise!Replace, Holders
  <1>h. shown # 0 /\ shown' = 0 /\ latest' = latest => Promise!Next
    BY DEF Promise!Next, Promise!Hide, Holders
  <1>b. shown = 0 /\ latest # 0 /\ shown' = latest /\ latest' = latest => Promise!Next
    BY DEF Promise!Next, Promise!Restore, Holders
  <1>f. shown' = 0 /\ latest' = 0 => Promise!Next
    BY DEF Promise!Next, Promise!Forget, Holders
  <1>1. CASE ~Writes
    <2>1. Active' = Active /\ Holders' = Holders
      BY <1>1, OthersKeepChunks DEF Active, Stale, Holders
    <2> QED BY <1>n, <2>1
  <1>2. CASE ScanOversize \/ RemoveFolder
    <2>1. Active' = {} /\ Holders' = {}
      BY <1>2, ErasedHoldsNothing DEF Holders
    <2> QED BY <1>f, <1>n, <2>1, NewestOfNone
  <1>3. CASE ScanDeactivate
    <2>1. latest' = latest
      BY <1>n, <1>3, DeactivatedHolds
    <2>2. CASE Active = {} \/ row.status # "missing"
      BY <1>n, <1>3, <2>1, <2>2, DeactivatedHolds
    <2>3. CASE Active # {} /\ row.status = "missing"
      <3>1. shown # 0
        BY <2>3, ShownIsLatest
      <3>2. shown' = 0
        BY <1>n, <1>3, <2>3, DeactivatedHolds, NewestOfNone
      <3> QED BY <1>h, <2>1, <3>1, <3>2
    <2> QED BY <2>2, <2>3
  <1>4. CASE ScanReactivate
    <2>1. Active = {} /\ Holders = Stale
      BY <1>4 DEF ScanReactivate, At, ShownInv, HiddenOnReturn, Holders
    <2>2. Holders' = Holders
      BY <1>4 DEF ScanReactivate, Reactivated, Active, Stale, Holders
    <2>3. Active' = {g \in Holders : \A h \in Holders : h <= g}
      BY <1>4, <2>1 DEF ScanReactivate, Reactivated, Active, Stale
    <2>4. CASE Holders = {}
      BY <1>n, <2>1, <2>2, <2>3, <2>4
    <2>5. CASE Holders # {}
      <3>1. latest \in Holders /\ latest # 0 /\ \A h \in Holders : h <= latest
        BY <2>5, LatestIsHeld
      <3>2. Active' \subseteq Extraction /\ latest \in Active' /\ \A h \in Active' : h <= latest
        BY <2>3, <3>1, HoldersAreExtractions
      <3>3. Newest(Active') = latest
        BY <3>2, NewestIs
      <3>4. shown' = latest /\ latest' = latest
        BY <1>n, <2>2, <3>3
      <3>5. shown = 0
        BY <2>1, NewestOfNone
      <3> QED BY <1>b, <3>1, <3>4, <3>5
    <2> QED BY <2>4, <2>5
  <1>5. CASE ChunkReuse
    <2>1. \A h \in Holders : h <= extractions
      BY DEF ShownInv, WithinRecords
    <2>2. shown = extractions /\ Newest({extractions}) = extractions
      BY <1>5, <2>1, ReuseHolds, NewestIs, HoldersAreExtractions DEF Holders
    <2>3. latest' = latest
      BY <1>n, <1>5, ReuseHolds
    <2> QED BY <1>n, <1>5, <2>2, <2>3, ReuseHolds
  <1>6. CASE ChunkInsert
    <2>1. \A h \in Holders : h <= extractions /\ h # extractions
      BY <1>6, InsertHolds DEF ShownInv, WithinRecords
    <2>2. extractions \in Nat /\ extractions > 0 /\ \A h \in Holders : h \in Nat
      BY <1>6, InsertHolds, HoldersAreExtractions, FileAssumption DEF Extraction
    <2>3. latest < extractions
      <3>1. CASE Holders = {} BY <2>2, <3>1, NewestOfNone
      <3>2. CASE Holders # {} BY <2>1, <2>2, <3>2, LatestIsHeld
      <3> QED BY <3>1, <3>2
    <2>4. Newest({extractions}) = extractions /\ Newest(Holders \cup {extractions}) = extractions
      BY <1>6, <2>1, <2>2, InsertHolds, NewestIs, HoldersAreExtractions
    <2>5. shown' = extractions /\ latest' = extractions
      BY <1>n, <1>6, <2>4, InsertHolds
    <2>6. latest \in Int
      <3>1. CASE Holders = {} BY <3>1, NewestOfNone
      <3>2. CASE Holders # {} BY <2>2, <3>2, LatestIsHeld
      <3> QED BY <3>1, <3>2
    <2> QED BY <1>r, <2>2, <2>3, <2>5, <2>6
  <1>7. CASE RemoveReplaced
    <2>1. CASE Active = {}
      BY <1>n, <1>7, <2>1, TidiedHolds
    <2>2. CASE Active # {}
      BY <1>n, <1>7, <2>2, TidiedHolds, ShownIsLatest
    <2> QED BY <2>1, <2>2
  <1> QED BY <1>1, <1>2, <1>3, <1>4, <1>5, <1>6, <1>7 DEF Writes

(* What search shows of a file follows SearchableText: a newer version     *)
(* takes the place of the shown one, it is hidden and shown again, or it   *)
(* is forgotten with its row; never is an older version shown, unless the  *)
(* process died between the two statements that hide what is missing.      *)
THEOREM SearchNeverGoesBack == Spec => NeverGoesBack
  <1>1. Init => Promise!Init
    BY NewestOfNone DEF Init, Promise!Init, Active, Stale
  <1>2. (Typed /\ ShownInv) /\ (Typed /\ ShownInv)' /\ [Next]_vars
          => [Promise!Next \/ "still_active" \in lapses]_(Promise!vars)
    BY StepFollows
  <1> QED BY <1>1, <1>2, FileInvariant, PTL DEF Spec, NeverGoesBack

-----------------------------------------------------------------------------
(*                        THE FILE AT REST                                 *)
(*                                                                         *)
(* What is recorded of the file, and what is still to be done about it     *)
(*                                                                         *)
(* When the loop has nothing left to do, nothing is known but what the     *)
(* rows say.  So each row is tied to the content it was made from, and     *)
(* each gap between the rows to the job, the window's next statement or    *)
(* the check that closes it.  Nothing of this survives a circumstance that *)
(* does harm.                                                              *)

Clean == lapses \subseteq Harmless
Forward == lapses \subseteq {"text_kept"}
Tracked == row.status # "none"

(* Where the loop may be *)

OrphanAtWork == orphan => pc \notin {"idle", "down", "backfill"} /\ row.status = "none"
FolderGone ==
  ~folder => /\ row.status = "none" /\ jobs["scan"] = 0
             /\ orphan \/ pc \in {"idle", "down", "backfill"}

ScanHasRow ==
  ~orphan =>
    /\ pc = "scan_enqueue" => row.status \in {"discovered", "stale"} /\ seen
    /\ pc = "scan_reactivate" => row.status = "indexed" /\ seen

ScanBegins == pc = "scan" => ~seen
ErrorIsOfFile == pc \in {"error", "file_fails"} => hand \in FileJobs
StoreHasText == pc = "chunk_store" => text \notin Textless
ErasedInScan == erased => pc \in {"scan_missing", "scan_deactivate"}

LoopSound == /\ OrphanAtWork /\ FolderGone /\ ScanHasRow /\ ScanBegins /\ ErrorIsOfFile
             /\ StoreHasText /\ ErasedInScan

(* The rows *)

NoneIsEmpty ==
  row.status = "none" =>
    /\ row = NoRow
    /\ \A g \in Extraction : chunks[g] = "none"
    /\ \A k \in FileJobs : jobs[k] = 0

(* A hash is that of a content the file had. *)
HashBound ==
  /\ disk <= newest /\ row.hash <= newest
  /\ Clean /\ Tracked => row.hash # Nothing /\ row.status # "permission_denied"

ChunksHaveText == \A g \in Holders : textOf[g] \notin Textless

(* The jobs.  One that is about to be finished does nothing more.          *)

Spent == {"chunk_embed", "ok", "replaced", "fatal"}
FutureExtract == jobs["extract"] > (IF hand = "extract" /\ pc = "ok" THEN 1 ELSE 0)
FutureChunk == jobs["chunk"] > (IF hand = "chunk" /\ pc \in Spent THEN 1 ELSE 0)
Future == FutureExtract \/ FutureChunk

ExtractIsFollowed == pc = "ok" /\ hand = "extract" /\ ~orphan => jobs["chunk"] > 0
MissIsFollowed == Clean /\ pc \in {"replaced", "fatal"} /\ ~orphan => jobs["extract"] > 0
ChunkIsDone ==
  pc \in {"chunk_embed", "ok"} /\ hand = "chunk" /\ ~orphan =>
    row.status \in {"indexed", "no_text_found"} \/ jobs["extract"] > 0

HasRecord ==
  Clean /\ (jobs["chunk"] > 0 \/ (pc = "extract_enqueue" /\ ~orphan)) => extractions > 0

WaitingHasWork ==
  Clean /\ row.status \in {"discovered", "stale"} =>
    \/ Future
    \/ pc = "scan_enqueue"
    \/ pc = "down" /\ row.status = "discovered"
    \/ pc = "file_fails" /\ hand # "embedding"

KeywordOrWork == Clean /\ ~(Active \subseteq keyword) => window = "keyword" \/ Future

(* The texts.  The row is of the present content, or of the newest, which  *)
(* is the one that may be present again when the next scan looks.          *)

Current == Tracked /\ row.hash \in {disk, newest}

CacheTrue == Clean => cache.text = cache.stamp
HashIsNewest == Clean /\ Tracked /\ row.hash = newest => disk \in {newest, Nothing}
StoreIsCurrent == Clean /\ Current /\ pc = "chunk_store" /\ ~orphan => text = row.hash
IndexedTrue ==
  Clean /\ Current /\ row.status = "indexed" /\ pc # "scan_reactivate" =>
    Active # {} /\ \A g \in Active : textOf[g] = row.hash
NoTextTrue ==
  Clean /\ row.status = "no_text_found" =>
    Active = {} /\ (Current => row.hash \in Textless)

(* The check: a scan is still to come to the file, or it has seen what the *)
(* path holds.                                                             *)

ScanPassed == {"scan_enqueue", "scan_reactivate", "scan_missing", "scan_deactivate",
               "scan_evict", "ok"}
PendingScan ==
  jobs["scan"] > (IF hand = "scan" /\ pc \in ScanPassed /\ ~orphan THEN 1 ELSE 0)
Looked ==
  /\ disk = Nothing => \/ pc = "scan_missing" /\ ~seen /\ ~orphan
                       \/ row.status \in {"none", "missing"} /\ (pc = "chunk_store" => orphan)
  /\ disk \in Oversize => row.status = "none"
  /\ Admitted => /\ row.status \notin {"none", "missing"} /\ row.hash = disk
                 /\ pc = "scan_missing" => seen
CheckedLooked == checked /\ folder => PendingScan \/ Looked

FailedSound ==
  checked /\ folder /\ Clean /\ Admitted =>
    /\ row.status = "failed" => window \in {"ask", "failed"} \/ Future
    /\ window # "ask" /\ ~orphan /\ hand \in {"extract", "chunk"} =>
         /\ pc # "error"
         /\ pc = "file_fails" => jobs["extract"] > 0

TextHasRow ==
  cache # NoEntry /\ "text_kept" \notin lapses =>
    Tracked \/ (erased /\ ~orphan) \/ pc = "scan_evict"

(* The vectors.  As long as no older content is put back, chunks that have *)
(* vectors of another text are of a content that was replaced since, and   *)
(* the check replaces them.                                                *)

NeverBack == Forward => disk \in {newest, Nothing}
TextsBound ==
  /\ \A g \in Extraction : textOf[g] <= newest
  /\ text <= newest /\ cache.text <= newest
HandBehind ==
  Forward /\ pc = "embedding_store" =>
    \A g \in Holders : text = textOf[g] \/ textOf[g] < newest
VectorsBehind ==
  Forward => \A g \in Holders : vectors[g] \in {Nothing, textOf[g]} \/ textOf[g] < newest

-----------------------------------------------------------------------------
(* What the statements make of a row and of the jobs                       *)

LEMMA WithStatusIs ==
  ASSUME row \in Row, NEW s
  PROVE  /\ WithStatus(s).status = IF row.status = "none" THEN "none" ELSE s
         /\ WithStatus(s).hash = row.hash
         /\ row.status = "none" => WithStatus(s) = row
  BY DEF WithStatus, Row

LEMMA IndexedIs ==
  ASSUME row \in Row
  PROVE  Indexed.status = "indexed" /\ Indexed.hash = row.hash
  BY DEF Indexed, Row

LEMMA RetriedIs ==
  ASSUME row \in Row
  PROVE  /\ Retried.hash = row.hash
         /\ Retried.status = IF row.status = "failed" THEN "discovered" ELSE row.status
         /\ row.status = "none" => Retried = row
  BY WithStatusIs DEF Retried

LEMMA EnqueuedIs ==
  ASSUME jobs \in [Kind -> Nat], NEW k \in Kind
  PROVE  /\ Enqueued(k)[k] = jobs[k] + 1
         /\ \A j \in Kind \ {k} : Enqueued(k)[j] = jobs[j]
         /\ \A j \in Kind : jobs[j] \in Nat
  BY DEF Enqueued

LEMMA Shapes ==
  ASSUME Typed
  PROVE  /\ row \in Row /\ row \in [status : FileStatus, hash : Nat, indexed : BOOLEAN]
         /\ jobs \in [Kind -> Nat] /\ hand \in Kind
         /\ chunks \in [Extraction -> {"none", "active", "stale"}]
         /\ textOf \in [Extraction -> Nat] /\ vectors \in [Extraction -> Nat]
         /\ disk \in Nat /\ newest \in Nat /\ text \in Nat /\ extractions \in Nat
         /\ cache \in [stamp : Nat, text : Nat] /\ keyword \subseteq Extraction
  BY FileAssumption DEF Typed, TypeOK, Entry, Row

(* The words in which the actions are written. *)
USE DEF At, Goto, Calm, NoLapse, Lapse, Rest, ScanSteps, ExtractSteps, ChunkSteps,
        EmbeddingSteps, WindowStep, DiskStep, diskVars, chunkVars, catalogVars, loopVars,
        historyVars, Nothing, Kind

(* A missing text is asked for again, or a lapse is recorded. *)
LEMMA MissRepaired ==
  ASSUME Typed, RepairMiss
  PROVE  /\ jobs'["extract"] >= jobs["extract"]
         /\ \A k \in {"scan", "chunk", "embedding"} : jobs'[k] = jobs[k]
         /\ Clean' => Clean /\ jobs'["extract"] > 0
         /\ row' = row \/ (row' = Retried /\ jobs'["extract"] > 0)
         /\ pc' \in {"replaced", "fatal"}
         /\ hand' = hand /\ ~orphan /\ ~orphan' /\ pc = "cache_missing"
  <1>1. \/ jobs' = jobs /\ row' = row
        \/ jobs' = Enqueued("extract") /\ row' = Retried
    BY DEF RepairMiss
  <1>2. /\ jobs["extract"] \in Nat
        /\ Enqueued("extract")["extract"] = jobs["extract"] + 1
        /\ \A k \in {"scan", "chunk", "embedding"} : Enqueued("extract")[k] = jobs[k]
    BY EnqueuedIs DEF Typed, TypeOK
  <1>3. jobs'["extract"] = 0 => ~Clean'
    BY DEF RepairMiss, Clean, Harmless
  <1>4. Clean' => Clean
    BY DEF RepairMiss, Clean
  <1>5. /\ pc' \in {"replaced", "fatal"}
        /\ hand' = hand /\ ~orphan /\ ~orphan' /\ pc = "cache_missing"
    BY DEF RepairMiss
  <1>6. jobs'["extract"] \in Nat
    BY <1>1, <1>2
  <1> QED BY <1>1, <1>2, <1>3, <1>4, <1>5, <1>6

(* A file back with the content last recorded gets its chunks back. *)
LEMMA ChunksTakenBack ==
  ASSUME ScanReactivate, Clean'
  PROVE  \E g \in Stale : Active' = {g} /\ textOf[g] = row.hash /\ g \in keyword
  <1>1. PICK g \in Stale : /\ Active = {}
                           /\ \A h \in Stale : h <= g
                           /\ textOf[g] = row.hash
                           /\ g \in keyword
    BY DEF ScanReactivate, Clean, Harmless
  <1>2. Active' = {g}
    BY <1>1, FileAssumption DEF ScanReactivate, Reactivated, Active, Stale, Extraction
  <1> QED BY <1>1, <1>2

(* A job with no row is no job. *)
LEMMA WorkHasRow ==
  ASSUME Typed, NoneIsEmpty, hand \in FileJobs, ~orphan,
         pc \notin {"idle", "down", "backfill", "file_fails"}
  PROVE  Tracked
  BY DEF Typed, HandQueued, NoneIsEmpty, Tracked, FileJobs

(* The keyword index is backfilled by a job, unless one is on its way that *)
(* writes it again; one that has written it already is the lapse.          *)
LEMMA BackfillKeepsWork ==
  ASSUME Typed, NoneIsEmpty, OrphanAtWork, ExtractIsFollowed, MissIsFollowed,
         BackfillExtraction, Clean', ~(Active \subseteq keyword)
  PROVE  Future'
  <1>1. ~orphan /\ Active # {} /\ pc' = pc /\ hand' = hand /\ Clean
    BY DEF NoneIsEmpty, OrphanAtWork, Active, BackfillExtraction, Clean
  <1>2. /\ jobs["extract"] \in Nat /\ jobs["chunk"] \in Nat
        /\ Enqueued("extract")["extract"] = jobs["extract"] + 1
    BY EnqueuedIs DEF Typed, TypeOK
  <1>3. CASE Idle(0)
    <2>1. jobs' = Enqueued("extract")
      BY <1>1, <1>3 DEF BackfillExtraction
    <2>2. ~(hand = "extract" /\ pc = "ok")
      BY <1>1, <1>3 DEF Idle, Typed, HandQueued
    <2> QED BY <1>1, <1>2, <2>1, <2>2 DEF Future, FutureExtract
  <1>4. CASE ~Idle(0)
    <2>1. jobs' = jobs
      BY <1>4 DEF BackfillExtraction
    <2>2. ~(hand = "chunk" /\ pc \in {"chunk_embed", "ok"} /\ Idle(1))
      BY DEF BackfillExtraction, Clean, Harmless
    <2>3. hand = "chunk" /\ pc \in {"replaced", "fatal"} => jobs["extract"] > 0
      BY <1>1 DEF MissIsFollowed
    <2>4. hand = "extract" => pc \notin {"replaced", "fatal"}
      BY DEF Typed, HandMatches
    <2>5. hand = "extract" /\ pc = "ok" => jobs["chunk"] > 0
      BY <1>1 DEF ExtractIsFollowed
    <2> QED BY <1>1, <1>2, <1>4, <2>1, <2>2, <2>3, <2>4, <2>5
            DEF Future, FutureExtract, FutureChunk, Spent, Idle
  <1> QED BY <1>3, <1>4

LEMMA InsertedIsTrue ==
  ASSUME Typed, NoneIsEmpty, StoreIsCurrent, IndexedTrue, ChunkInsert
  PROVE  IndexedTrue'
  <1> SUFFICES ASSUME Clean', Current'
               PROVE  Active' # {} /\ \A g \in Active' : textOf'[g] = row'.hash
    BY DEF IndexedTrue
  <1>1. /\ row'.hash = row.hash /\ disk' = disk /\ newest' = newest
        /\ Clean /\ pc = "chunk_store" /\ ~orphan /\ hand = "chunk"
    BY IndexedIs DEF ChunkInsert, Clean, Typed, TypeOK, HandMatches
  <1>2. text = row.hash
    BY <1>1, WorkHasRow DEF StoreIsCurrent, Current, FileJobs
  <1>3. Active' = {extractions} /\ textOf'[extractions] = text
    BY InsertHolds DEF ChunkInsert, Typed, TypeOK
  <1> QED BY <1>1, <1>2, <1>3

(* A failed file the window asks for is queued, or is queued already. *)
LEMMA AskedIsQueued ==
  ASSUME Typed, OrphanAtWork, ExtractIsFollowed, ChunkIsDone, MissIsFollowed, FailedSound,
         PrepareFailed
  PROVE  FailedSound'
  <1>1. /\ jobs["extract"] \in Nat /\ jobs["chunk"] \in Nat
        /\ Enqueued("extract")["extract"] = jobs["extract"] + 1
    BY EnqueuedIs DEF Typed, TypeOK
  <1>2. /\ checked' = checked /\ folder' = folder /\ disk' = disk /\ lapses' = lapses
        /\ pc' = pc /\ hand' = hand /\ orphan' = orphan /\ window = "failed"
        /\ jobs' = jobs \/ jobs' = Enqueued("extract")
    BY DEF PrepareFailed
  <1>3. ASSUME row'.status = "failed", Clean PROVE Future'
    <2>1. ~Idle(0) /\ row.status = "failed"
      BY <1>3, RetriedIs DEF PrepareFailed, Typed, TypeOK
    <2>2. jobs' = jobs /\ ~orphan
      BY <2>1 DEF PrepareFailed, OrphanAtWork
    <2> QED BY <1>1, <1>2, <1>3, <2>1, <2>2
            DEF ExtractIsFollowed, ChunkIsDone, MissIsFollowed, Idle, Future, FutureExtract,
                FutureChunk, Spent, HandMatches, Typed
  <1> QED BY <1>1, <1>2, <1>3 DEF FailedSound, Admitted, Clean

LEMMA RepairedIsQueued ==
  ASSUME Typed, FailedSound, RepairMiss
  PROVE  FailedSound'
  <1>1. checked' = checked /\ folder' = folder /\ disk' = disk
    BY DEF RepairMiss
  <1>2. row'.status # "failed" \/ row' = row
    BY MissRepaired, RetriedIs DEF Typed, TypeOK
  <1>3. Clean' => Future'
    BY MissRepaired DEF Future, FutureExtract
  <1> QED BY <1>1, <1>2, <1>3, MissRepaired DEF FailedSound, Admitted

LEMMA TextlessIsTrue ==
  ASSUME Typed, NoneIsEmpty, HashIsNewest, CacheTrue, NoTextTrue, ChunkTextless
  PROVE  NoTextTrue'
  <1> SUFFICES ASSUME Clean' PROVE Active = {} /\ (Current' => row.hash \in Textless)
    BY Shapes, WithStatusIs DEF NoTextTrue, ChunkTextless, Active
  <1>1. Clean /\ Active = {}
    BY DEF ChunkTextless, Clean, Harmless
  <1>2. ASSUME Current' PROVE row.hash = disk
    <2>1. row.hash \in {disk, newest} /\ disk # Nothing
      BY <1>2, Shapes, WithStatusIs DEF Current, ChunkTextless, Fresh
    <2>2. Tracked
      BY WorkHasRow DEF ChunkTextless, Typed, HandMatches, FileJobs
    <2> QED BY <1>1, <2>1, <2>2 DEF HashIsNewest
  <1>3. cache.text = disk
    BY <1>1 DEF CacheTrue, ChunkTextless, Fresh
  <1>4. disk \in Textless
    BY <1>3 DEF ChunkTextless
  <1> QED BY <1>1, <1>2, <1>4

(* A text that is embedded is that of the newest content, so the chunks it *)
(* is not the text of are of an older one.                                 *)
LEMMA ReadIsNewest ==
  ASSUME Typed, CacheTrue, NeverBack, TextsBound, EmbeddingRead
  PROVE  HandBehind'
  <1> SUFFICES ASSUME Forward', NEW g \in Holders
               PROVE  text' = textOf[g] \/ textOf[g] < newest
    BY DEF HandBehind, EmbeddingRead, Holders, Active, Stale
  <1>1. Forward /\ Clean
    BY DEF EmbeddingRead, Forward, Clean, Harmless
  <1>2. text' = newest
    BY <1>1 DEF EmbeddingRead, Fresh, CacheTrue, NeverBack
  <1>3. textOf[g] <= newest /\ textOf[g] \in Nat /\ newest \in Nat
    BY FileAssumption DEF TextsBound, Holders, Active, Stale, Typed, TypeOK
  <1> QED BY <1>2, <1>3

-----------------------------------------------------------------------------
(* Who writes what                                                         *)

WritesRow == \/ ScanDenied \/ ScanOversize \/ ScanNew \/ ScanReturned \/ ScanChanged
             \/ ScanMissing \/ ChunkTextless \/ ChunkReuse \/ ChunkInsert \/ RepairMiss
             \/ FileFails \/ PrepareFailed \/ PrepareAgain \/ RemoveFolder
WritesTexts == ScanOversize \/ ChunkInsert \/ RemoveReplaced \/ RemoveFolder
WritesVectors == WritesTexts \/ EmbeddingStore \/ DeleteVectors
WritesCache == ScanEvict \/ ExtractPut \/ ChunkEvict \/ Trim \/ ClearText \/ CleanupMissing
WritesJobs == \/ ScanOversize \/ ScanEnqueue \/ ExtractEnqueue \/ ChunkAgain \/ ChunkEmbed
              \/ RepairMiss \/ Complete \/ FailForGood \/ FailReplaced \/ Backfill
              \/ PrepareSourceAgain \/ PrepareFailed \/ PrepareAgain \/ BackfillExtraction
              \/ BackfillEmbedding \/ RemoveFolder \/ AddFolder \/ Start
WritesHand == \/ ExtractRead \/ ExtractRecord \/ ChunkRead \/ ChunkReuse \/ ChunkDiffer
              \/ ChunkInsert \/ ChunkClash \/ EmbeddingRead \/ EmbeddingFails
              \/ EmbeddingStore \/ Complete \/ Retry \/ FileFails \/ FailReplaced
              \/ Abandon \/ Crash

LEMMA OthersKeep ==
  ASSUME Next
  PROVE  /\ ~WritesRow => row' = row
         /\ ~WritesTexts => textOf' = textOf
         /\ ~WritesVectors => vectors' = vectors
         /\ ~WritesCache => cache' = cache
         /\ ~WritesJobs => jobs' = jobs
         /\ ~WritesHand => text' = text
         /\ ~Disk => disk' = disk /\ newest' = newest
         /\ lapses \subseteq lapses'
  <1> USE DEF WritesRow, WritesTexts, WritesVectors, WritesCache, WritesJobs, WritesHand
  <1>1. CASE Scan
    BY <1>1 DEF Scan, ScanAbsent, ScanUnreadable, ScanDenied, ScanOversize, ScanNew,
       ScanUnchanged, ScanReturned, ScanChanged, ScanEnqueue, ScanReactivate, ScanMissing,
       ScanDeactivate, ScanEvict
  <1>2. CASE Extract
    BY <1>2 DEF Extract, ExtractBlocked, ExtractUnreadable, ExtractFresh, ExtractRead,
       ExtractPut, ExtractRecord, ExtractEnqueue
  <1>3. CASE Chunk
    BY <1>3 DEF Chunk, ChunkBlocked, ChunkMissing, ChunkTextless, ChunkRead, ChunkReuse,
       ChunkDiffer, ChunkInsert, ChunkClash, ChunkEvict, ChunkAgain, ChunkEmbed
  <1>4. CASE Embedding
    BY <1>4 DEF Embedding, EmbeddingBlocked, EmbeddingMissing, EmbeddingNothing,
       EmbeddingRead, EmbeddingFails, EmbeddingStore
  <1>5. CASE Outcome
    BY <1>5 DEF Outcome, RepairMiss, Complete, Retry, FailForGood, FileFails, FailReplaced,
       Abandon
  <1>6. CASE Backfill \/ (\E k \in Kind : Take(k)) \/ Trim \/ Crash \/ Start
    BY <1>6 DEF Backfill, Take, Trim, Crash, Start
  <1>7. CASE Window
    BY <1>7 DEF Window, WindowGoesOn, PrepareSourceAgain, ListFailed, PrepareFailed,
       CleanupMissing, PrepareAgain, ClearText, DeleteKeyword, BackfillExtraction,
       DeleteVectors, BackfillEmbedding, RemoveReplaced, RemoveFolder, AddFolder
  <1>8. CASE Disk
    BY <1>8 DEF Disk, Change, Vanish, Return, Revert
  <1> QED BY <1>1, <1>2, <1>3, <1>4, <1>5, <1>6, <1>7, <1>8 DEF Next, Loop

(* Only a returned file's chunks are taken back. *)
LEMMA OthersReactivateNot ==
  ASSUME Next, ~(ScanReturned \/ ScanReactivate \/ Abandon \/ Crash)
  PROVE  pc' = "scan_reactivate" <=> pc = "scan_reactivate"
  <1>1. CASE Scan
    BY <1>1 DEF Scan, ScanAbsent, ScanUnreadable, ScanDenied, ScanOversize, ScanNew,
       ScanUnchanged, ScanChanged, ScanEnqueue, ScanMissing, ScanDeactivate, ScanEvict
  <1>2. CASE Extract
    BY <1>2 DEF Extract, ExtractBlocked, ExtractUnreadable, ExtractFresh, ExtractRead,
       ExtractPut, ExtractRecord, ExtractEnqueue
  <1>3. CASE Chunk
    BY <1>3 DEF Chunk, ChunkBlocked, ChunkMissing, ChunkTextless, ChunkRead, ChunkReuse,
       ChunkDiffer, ChunkInsert, ChunkClash, ChunkEvict, ChunkAgain, ChunkEmbed
  <1>4. CASE Embedding
    BY <1>4 DEF Embedding, EmbeddingBlocked, EmbeddingMissing, EmbeddingNothing,
       EmbeddingRead, EmbeddingFails, EmbeddingStore
  <1>5. CASE Outcome
    BY <1>5 DEF Outcome, RepairMiss, Complete, Retry, FailForGood, FileFails, FailReplaced
  <1>6. CASE Backfill \/ (\E k \in Kind : Take(k)) \/ Trim \/ Start
    BY <1>6 DEF Backfill, Take, Trim, Start
  <1>7. CASE Window
    BY <1>7 DEF Window, WindowGoesOn, PrepareSourceAgain, ListFailed, PrepareFailed,
       CleanupMissing, PrepareAgain, ClearText, DeleteKeyword, BackfillExtraction,
       DeleteVectors, BackfillEmbedding, RemoveReplaced, RemoveFolder, AddFolder
  <1>8. CASE Disk
    BY <1>8 DEF Disk, Change, Vanish, Return, Revert
  <1> QED BY <1>1, <1>2, <1>3, <1>4, <1>5, <1>6, <1>7, <1>8 DEF Next, Loop

-----------------------------------------------------------------------------
(* Each part is kept by every step                                         *)

LEMMA NoneIsEmptyKept ==
  ASSUME Typed, ScanHasRow, NoneIsEmpty, Next
  PROVE  NoneIsEmpty'
  <1>1. CASE ScanDenied \/ ScanOversize \/ ScanNew
    BY <1>1, Shapes DEF ScanDenied, ScanOversize, ScanNew, NoneIsEmpty, FileJobs,
       EraseFile
  <1>2. CASE ScanReturned \/ ScanChanged \/ ScanEnqueue \/ ScanReactivate
    BY <1>2, Shapes DEF ScanReturned, ScanChanged, ScanEnqueue, ScanReactivate,
       NoneIsEmpty, ScanHasRow
  <1>3. CASE ScanMissing \/ ScanDeactivate
    BY <1>3, Shapes, WithStatusIs DEF ScanMissing, ScanDeactivate, NoneIsEmpty, Typed
  <1>4. CASE ExtractEnqueue
    BY <1>4 DEF ExtractEnqueue, NoneIsEmpty, FileJobs, Typed, HandMatches, HandQueued
  <1>5. CASE ChunkTextless \/ ChunkReuse \/ ChunkInsert \/ ChunkAgain \/ ChunkEmbed
    BY <1>5, Shapes, WithStatusIs, IndexedIs DEF ChunkTextless, ChunkReuse, ChunkInsert,
       ChunkAgain, ChunkEmbed, NoneIsEmpty, FileJobs, Typed, HandMatches, HandQueued
  <1>6. CASE RepairMiss \/ Complete \/ FailForGood \/ FileFails \/ FailReplaced
    BY <1>6, Shapes, WithStatusIs, RetriedIs DEF RepairMiss, Complete, FailForGood,
       FileFails, FailReplaced, NoneIsEmpty, FileJobs, Finished, Typed, HandMatches,
       HandQueued
  <1>7. CASE Backfill \/ Start
    BY <1>7 DEF Backfill, Start, NoneIsEmpty, FileJobs, EmbeddingBackfilled, Active
  <1>8. CASE PrepareSourceAgain \/ PrepareFailed \/ PrepareAgain \/ BackfillExtraction
     \/ BackfillEmbedding \/ RemoveReplaced \/ RemoveFolder \/ AddFolder
    BY <1>8, Shapes, RetriedIs DEF PrepareSourceAgain, PrepareFailed, PrepareAgain,
       BackfillExtraction, BackfillEmbedding, RemoveReplaced, RemoveFolder, AddFolder,
       NoneIsEmpty, FileJobs, NoRow, Enqueued, Active, Typed, EraseFile,
       EmbeddingBackfilled
  <1>9. CASE ~WritesRow /\ ~Writes /\ ~WritesJobs
    BY <1>9, OthersKeep, OthersKeepChunks DEF NoneIsEmpty, FileJobs, Extraction, NoRow
  <1> QED BY <1>1, <1>2, <1>3, <1>4, <1>5, <1>6, <1>7, <1>8, <1>9 DEF WritesRow, Writes,
     WritesJobs

LEMMA LoopSoundKept ==
  ASSUME Typed, NoneIsEmpty, LoopSound, Next
  PROVE  LoopSound'
  <1> USE DEF LoopSound, OrphanAtWork, FolderGone, ScanHasRow, ScanBegins,
     ErrorIsOfFile, StoreHasText, ErasedInScan
  <1>1. CASE ScanAbsent \/ ScanUnreadable \/ ScanDenied \/ ScanOversize \/ ScanNew \/
     ScanUnchanged \/ ScanReturned
    BY <1>1, Shapes DEF ScanAbsent, ScanUnreadable, ScanDenied, ScanOversize, ScanNew,
       ScanUnchanged, ScanReturned
  <1>2. CASE ScanChanged BY <1>2 DEF ScanChanged
  <1>3. CASE ScanEnqueue BY <1>3 DEF ScanEnqueue
  <1>4. CASE ScanReactivate BY <1>4 DEF ScanReactivate
  <1>5. CASE ScanMissing \/ ScanDeactivate \/ ScanEvict
    BY <1>5, Shapes DEF ScanMissing, ScanDeactivate, ScanEvict
  <1>6. CASE Extract
    BY <1>6 DEF Extract, ExtractBlocked, ExtractUnreadable, ExtractFresh, ExtractRead,
       ExtractPut, ExtractRecord, ExtractEnqueue, FileJobs, Typed, HandMatches
  <1>7. CASE Chunk
    BY <1>7 DEF Chunk, ChunkBlocked, ChunkMissing, ChunkTextless, ChunkRead, ChunkReuse,
       ChunkDiffer, ChunkInsert, ChunkClash, ChunkEvict, ChunkAgain, ChunkEmbed,
       FileJobs, Typed, HandMatches
  <1>8. CASE Embedding
    BY <1>8 DEF Embedding, EmbeddingBlocked, EmbeddingMissing, EmbeddingNothing,
       EmbeddingRead, EmbeddingFails, EmbeddingStore, FileJobs, Typed, HandMatches
  <1>9. CASE Outcome
    BY <1>9 DEF Outcome, RepairMiss, Complete, Retry, FailForGood, FileFails,
       FailReplaced, Abandon, FileJobs, Typed, HandMatches
  <1>10. CASE (\E k \in Kind : Take(k)) \/ Backfill \/ Trim \/ Crash \/ Start
    BY <1>10 DEF Take, Backfill, Trim, Crash, Start, NoneIsEmpty, FileJobs, Active,
       EmbeddingBackfilled
  <1>11. CASE PrepareSourceAgain \/ ListFailed \/ PrepareFailed \/ PrepareAgain \/
     ClearText \/ DeleteKeyword
    BY <1>11, Shapes, RetriedIs DEF PrepareSourceAgain, ListFailed, PrepareFailed,
       PrepareAgain, ClearText, DeleteKeyword, Enqueued, EmbeddingBackfilled
  <1>12. CASE BackfillExtraction \/ DeleteVectors \/ BackfillEmbedding \/ RemoveReplaced
     \/ CleanupMissing
    BY <1>12, Shapes, RetriedIs DEF BackfillExtraction, DeleteVectors,
       BackfillEmbedding, RemoveReplaced, CleanupMissing, Enqueued, EmbeddingBackfilled
  <1>13. CASE RemoveFolder
    BY <1>13, Shapes, RetriedIs DEF RemoveFolder, EraseFile, NoRow
  <1>14. CASE AddFolder BY <1>14, Shapes, RetriedIs DEF AddFolder, EraseFile, NoRow
  <1>15. CASE Disk BY <1>15 DEF Disk, Change, Vanish, Return, Revert
  <1> QED BY <1>1, <1>2, <1>3, <1>4, <1>5, <1>6, <1>7, <1>8, <1>9, <1>10, <1>11, <1>12,
     <1>13, <1>14, <1>15 DEF Next, Loop, Scan, Window, WindowGoesOn

LEMMA HashBoundKept ==
  ASSUME Typed, NoneIsEmpty, HashBound, Next
  PROVE  HashBound'
  <1>1. CASE ScanDenied \/ ScanOversize \/ ScanNew
    <2>1. CASE ScanDenied \/ ScanOversize
      BY <2>1, Shapes DEF ScanDenied, ScanOversize, HashBound, Clean, Harmless, Tracked,
         NoRow, EraseFile, Admitted
    <2>2. CASE ScanNew
      BY <2>2, Shapes DEF ScanNew, HashBound, Clean, Harmless, Tracked, NoRow, Admitted
    <2> QED BY <1>1, <2>1, <2>2
  <1>2. CASE ScanReturned \/ ScanChanged
    BY <1>2, Shapes DEF ScanReturned, ScanChanged, HashBound, Admitted
  <1>3. CASE ScanMissing
    BY <1>3, Shapes, WithStatusIs DEF ScanMissing, HashBound, Tracked, Clean
  <1>4. CASE ChunkTextless \/ ChunkReuse \/ ChunkInsert
    BY <1>4, Shapes, WithStatusIs, IndexedIs DEF ChunkTextless, ChunkReuse, ChunkInsert,
       HashBound, Tracked, Clean, NoneIsEmpty, Active, FileJobs, Typed, HandMatches,
       HandQueued
  <1>5. CASE RepairMiss \/ FileFails
    BY <1>5, Shapes, WithStatusIs, RetriedIs DEF RepairMiss, FileFails, HashBound,
       Tracked, Clean
  <1>6. CASE PrepareFailed \/ PrepareAgain \/ RemoveFolder
    BY <1>6, Shapes, RetriedIs DEF PrepareFailed, PrepareAgain, RemoveFolder, HashBound,
       Tracked, Clean, EraseFile, NoRow
  <1>7. CASE Disk
    BY <1>7, Shapes DEF Disk, Change, Vanish, Return, Revert, HashBound, Tracked, Clean
  <1>8. CASE ~WritesRow /\ ~Disk
    BY <1>8, OthersKeep DEF HashBound, Tracked, Clean, Harmless
  <1> QED BY <1>1, <1>2, <1>3, <1>4, <1>5, <1>6, <1>7, <1>8 DEF WritesRow, Disk

LEMMA ChunksHaveTextKept ==
  ASSUME Typed, StoreHasText, ChunksHaveText, Next
  PROVE  ChunksHaveText'
  <1>1. CASE ScanOversize \/ ScanReactivate \/ ScanDeactivate
    BY <1>1 DEF ScanOversize, ScanReactivate, ScanDeactivate, ChunksHaveText, Holders,
       Stale, Active, StaleExcept, Reactivated, EraseFile
  <1>2. CASE ChunkReuse \/ ChunkInsert
    BY <1>2, Shapes DEF ChunkReuse, ChunkInsert, ChunksHaveText, StoreHasText, Holders,
       Stale, Active, StaleExcept
  <1>3. CASE RemoveReplaced \/ RemoveFolder
    BY <1>3 DEF RemoveReplaced, RemoveFolder, ChunksHaveText, Holders, Stale, Active,
       EraseFile
  <1>4. CASE ~Writes /\ ~WritesTexts
    BY <1>4, OthersKeep, OthersKeepChunks DEF ChunksHaveText, Holders, Stale,
       Extraction, Active
  <1> QED BY <1>1, <1>2, <1>3, <1>4 DEF Writes, WritesTexts

LEMMA ExtractIsFollowedKept ==
  ASSUME Typed, ExtractIsFollowed, Next
  PROVE  ExtractIsFollowed'
  <1>1. CASE Scan
    BY <1>1 DEF Scan, ScanAbsent, ScanUnreadable, ScanDenied, ScanOversize, ScanNew,
       ScanUnchanged, ScanReturned, ScanChanged, ScanEnqueue, ScanReactivate,
       ScanMissing, ScanDeactivate, ScanEvict, ExtractIsFollowed, Typed, HandMatches
  <1>2. CASE Extract
    BY <1>2, Shapes DEF Extract, ExtractBlocked, ExtractUnreadable, ExtractFresh,
       ExtractRead, ExtractPut, ExtractRecord, ExtractEnqueue, ExtractIsFollowed,
       Enqueued
  <1>3. CASE Chunk
    BY <1>3 DEF Chunk, ChunkBlocked, ChunkMissing, ChunkTextless, ChunkRead, ChunkReuse,
       ChunkDiffer, ChunkInsert, ChunkClash, ChunkEvict, ChunkAgain, ChunkEmbed,
       ExtractIsFollowed, Typed, HandMatches
  <1>4. CASE Embedding
    BY <1>4 DEF Embedding, EmbeddingBlocked, EmbeddingMissing, EmbeddingNothing,
       EmbeddingRead, EmbeddingFails, EmbeddingStore, ExtractIsFollowed, Typed,
       HandMatches
  <1>5. CASE Outcome
    BY <1>5 DEF Outcome, RepairMiss, Complete, Retry, FailForGood, FileFails,
       FailReplaced, Abandon, ExtractIsFollowed
  <1>6. CASE (\E k \in Kind : Take(k)) \/ Backfill \/ Trim \/ Crash \/ Start
    BY <1>6 DEF Take, Backfill, Trim, Crash, Start, ExtractIsFollowed
  <1>7. CASE Window
    BY <1>7, Shapes DEF Window, WindowGoesOn, PrepareSourceAgain, ListFailed,
       PrepareFailed, PrepareAgain, ClearText, DeleteKeyword, BackfillExtraction,
       DeleteVectors, BackfillEmbedding, RemoveReplaced, CleanupMissing, RemoveFolder,
       AddFolder, ExtractIsFollowed, Enqueued, EmbeddingBackfilled
  <1>8. CASE Disk BY <1>8 DEF Disk, Change, Vanish, Return, Revert, ExtractIsFollowed
  <1> QED BY <1>1, <1>2, <1>3, <1>4, <1>5, <1>6, <1>7, <1>8 DEF Next, Loop

LEMMA MissIsFollowedKept ==
  ASSUME Typed, MissIsFollowed, Next
  PROVE  MissIsFollowed'
  <1>1. CASE Scan
    BY <1>1 DEF Scan, ScanAbsent, ScanUnreadable, ScanDenied, ScanOversize, ScanNew,
       ScanUnchanged, ScanReturned, ScanChanged, ScanEnqueue, ScanReactivate,
       ScanMissing, ScanDeactivate, ScanEvict, MissIsFollowed
  <1>2. CASE Extract
    BY <1>2 DEF Extract, ExtractBlocked, ExtractUnreadable, ExtractFresh, ExtractRead,
       ExtractPut, ExtractRecord, ExtractEnqueue, MissIsFollowed
  <1>3. CASE Chunk
    BY <1>3 DEF Chunk, ChunkBlocked, ChunkMissing, ChunkTextless, ChunkRead, ChunkReuse,
       ChunkDiffer, ChunkInsert, ChunkClash, ChunkEvict, ChunkAgain, ChunkEmbed,
       MissIsFollowed
  <1>4. CASE Embedding
    BY <1>4 DEF Embedding, EmbeddingBlocked, EmbeddingMissing, EmbeddingNothing,
       EmbeddingRead, EmbeddingFails, EmbeddingStore, MissIsFollowed
  <1>5. CASE RepairMiss BY <1>5, MissRepaired DEF RepairMiss, MissIsFollowed
  <1>6. CASE Complete \/ Retry \/ FailForGood \/ FileFails \/ FailReplaced \/ Abandon
    BY <1>6 DEF Complete, Retry, FailForGood, FileFails, FailReplaced, Abandon,
       MissIsFollowed
  <1>7. CASE (\E k \in Kind : Take(k)) \/ Backfill \/ Trim \/ Crash \/ Start
    BY <1>7 DEF Take, Backfill, Trim, Crash, Start, MissIsFollowed
  <1>8. CASE PrepareSourceAgain \/ ListFailed \/ PrepareFailed \/ PrepareAgain \/
     ClearText \/ DeleteKeyword \/ BackfillExtraction
    BY <1>8, Shapes DEF PrepareSourceAgain, ListFailed, PrepareFailed, PrepareAgain,
       ClearText, DeleteKeyword, BackfillExtraction, MissIsFollowed, Clean, Enqueued,
       Idle
  <1>9. CASE DeleteVectors \/ BackfillEmbedding \/ RemoveReplaced \/ CleanupMissing \/
     RemoveFolder \/ AddFolder
    BY <1>9, Shapes DEF DeleteVectors, BackfillEmbedding, RemoveReplaced,
       CleanupMissing, RemoveFolder, AddFolder, MissIsFollowed, Clean, Enqueued,
       EmbeddingBackfilled
  <1>10. CASE Disk
    BY <1>10 DEF Disk, Change, Vanish, Return, Revert, MissIsFollowed, Clean
  <1> QED BY <1>1, <1>2, <1>3, <1>4, <1>5, <1>6, <1>7, <1>8, <1>9, <1>10 DEF Next, Loop,
     Outcome, Window, WindowGoesOn

LEMMA ChunkIsDoneKept ==
  ASSUME Typed, NoneIsEmpty, OrphanAtWork, ChunkIsDone, Next
  PROVE  ChunkIsDone'
  <1>1. CASE Scan
    BY <1>1 DEF Scan, ScanAbsent, ScanUnreadable, ScanDenied, ScanOversize, ScanNew,
       ScanUnchanged, ScanReturned, ScanChanged, ScanEnqueue, ScanReactivate,
       ScanMissing, ScanDeactivate, ScanEvict, ChunkIsDone, Typed, HandMatches
  <1>2. CASE Extract
    BY <1>2 DEF Extract, ExtractBlocked, ExtractUnreadable, ExtractFresh, ExtractRead,
       ExtractPut, ExtractRecord, ExtractEnqueue, ChunkIsDone, Typed, HandMatches
  <1>3. CASE Chunk
    BY <1>3, Shapes, WithStatusIs, IndexedIs DEF Chunk, ChunkBlocked, ChunkMissing,
       ChunkTextless, ChunkRead, ChunkReuse, ChunkDiffer, ChunkInsert, ChunkClash,
       ChunkEvict, ChunkAgain, ChunkEmbed, ChunkIsDone, NoneIsEmpty, OrphanAtWork,
       FileJobs, Typed, HandQueued, Enqueued, NoEntry
  <1>4. CASE Embedding
    BY <1>4 DEF Embedding, EmbeddingBlocked, EmbeddingMissing, EmbeddingNothing,
       EmbeddingRead, EmbeddingFails, EmbeddingStore, ChunkIsDone, Typed, HandMatches
  <1>5. CASE Outcome
    BY <1>5 DEF Outcome, RepairMiss, Complete, Retry, FailForGood, FileFails,
       FailReplaced, Abandon, ChunkIsDone
  <1>6. CASE (\E k \in Kind : Take(k)) \/ Backfill \/ Trim \/ Crash \/ Start
    BY <1>6 DEF Take, Backfill, Trim, Crash, Start, ChunkIsDone
  <1>7. CASE PrepareSourceAgain \/ ListFailed \/ PrepareFailed \/ PrepareAgain \/
     ClearText \/ DeleteKeyword \/ BackfillExtraction
    BY <1>7, Shapes DEF PrepareSourceAgain, ListFailed, PrepareFailed, PrepareAgain,
       ClearText, DeleteKeyword, BackfillExtraction, ChunkIsDone, Enqueued, NoRow
  <1>8. CASE DeleteVectors \/ BackfillEmbedding \/ RemoveReplaced \/ CleanupMissing \/
     RemoveFolder \/ AddFolder
    BY <1>8, Shapes DEF DeleteVectors, BackfillEmbedding, RemoveReplaced,
       CleanupMissing, RemoveFolder, AddFolder, ChunkIsDone, Enqueued,
       EmbeddingBackfilled
  <1>9. CASE Disk BY <1>9 DEF Disk, Change, Vanish, Return, Revert, ChunkIsDone
  <1> QED BY <1>1, <1>2, <1>3, <1>4, <1>5, <1>6, <1>7, <1>8, <1>9 DEF Next, Loop,
     Window, WindowGoesOn

LEMMA HasRecordKept ==
  ASSUME Typed, HasRecord, Next
  PROVE  HasRecord'
  <1>1. CASE Scan
    BY <1>1, Shapes DEF Scan, ScanAbsent, ScanUnreadable, ScanDenied, ScanOversize,
       ScanNew, ScanUnchanged, ScanReturned, ScanChanged, ScanEnqueue, ScanReactivate,
       ScanMissing, ScanDeactivate, ScanEvict, HasRecord, Clean, Enqueued, FileJobs
  <1>2. CASE ExtractBlocked \/ ExtractUnreadable
    BY <1>2 DEF ExtractBlocked, ExtractUnreadable, HasRecord, Clean
  <1>3. CASE ExtractFresh BY <1>3, Shapes DEF ExtractFresh, HasRecord, Clean, Harmless
  <1>4. CASE ExtractRead \/ ExtractPut \/ ExtractRecord \/ ExtractEnqueue
    BY <1>4, Shapes DEF ExtractRead, ExtractPut, ExtractRecord, ExtractEnqueue,
       HasRecord, Clean
  <1>5. CASE Chunk
    BY <1>5, Shapes DEF Chunk, ChunkBlocked, ChunkMissing, ChunkTextless, ChunkRead,
       ChunkReuse, ChunkDiffer, ChunkInsert, ChunkClash, ChunkEvict, ChunkAgain,
       ChunkEmbed, HasRecord, Clean, Enqueued
  <1>6. CASE Embedding
    BY <1>6 DEF Embedding, EmbeddingBlocked, EmbeddingMissing, EmbeddingNothing,
       EmbeddingRead, EmbeddingFails, EmbeddingStore, HasRecord, Clean
  <1>7. CASE Outcome
    BY <1>7, Shapes DEF Outcome, RepairMiss, Complete, Retry, FailForGood, FileFails,
       FailReplaced, Abandon, HasRecord, Clean, Finished, Enqueued, Typed
  <1>8. CASE (\E k \in Kind : Take(k)) \/ Backfill \/ Trim \/ Crash \/ Start
    BY <1>8, Shapes DEF Take, Backfill, Trim, Crash, Start, HasRecord, Clean,
       EmbeddingBackfilled, Enqueued
  <1>9. CASE Window
    BY <1>9, Shapes DEF Window, WindowGoesOn, PrepareSourceAgain, ListFailed,
       PrepareFailed, PrepareAgain, ClearText, DeleteKeyword, BackfillExtraction,
       DeleteVectors, BackfillEmbedding, RemoveReplaced, CleanupMissing, RemoveFolder,
       AddFolder, HasRecord, Clean, Enqueued, EraseFile, EmbeddingBackfilled
  <1>10. CASE Disk BY <1>10 DEF Disk, Change, Vanish, Return, Revert, HasRecord, Clean
  <1> QED BY <1>1, <1>2, <1>3, <1>4, <1>5, <1>6, <1>7, <1>8, <1>9, <1>10 DEF Next, Loop,
     Extract

LEMMA WaitingHasWorkKept ==
  ASSUME Typed, OrphanAtWork, ExtractIsFollowed, MissIsFollowed, ChunkIsDone,
     WaitingHasWork, Next
  PROVE  WaitingHasWork'
  <1>1. CASE Scan
    <2>1. CASE ScanAbsent \/ ScanUnreadable \/ ScanDenied \/ ScanOversize
      BY <2>1, Shapes DEF ScanAbsent, ScanUnreadable, ScanDenied, ScanOversize,
         WaitingHasWork, Future, FutureChunk, FutureExtract, Clean, Harmless, NoRow,
         EraseFile, Idle, Typed, HandMatches
    <2>2. CASE ScanNew \/ ScanUnchanged \/ ScanReturned \/ ScanChanged
      BY <2>2, Shapes, WithStatusIs DEF ScanNew, ScanUnchanged, ScanReturned,
         ScanChanged, WaitingHasWork, Future, FutureChunk, Spent, FutureExtract, Clean,
         Harmless, Idle, Typed, HandMatches
    <2>3. CASE ScanEnqueue
      BY <2>3, Shapes DEF ScanEnqueue, WaitingHasWork, Future, FutureChunk,
         FutureExtract, Clean, Harmless, Idle, Enqueued, Typed, HandMatches
    <2>4. CASE ScanReactivate \/ ScanMissing \/ ScanDeactivate \/ ScanEvict
      BY <2>4, Shapes, WithStatusIs DEF ScanReactivate, ScanMissing, ScanDeactivate,
         ScanEvict, WaitingHasWork, Future, FutureChunk, Spent, FutureExtract, Clean,
         Harmless, Idle, Typed, HandMatches
    <2> QED BY <1>1, <2>1, <2>2, <2>3, <2>4 DEF Scan
  <1>2. CASE Extract
    BY <1>2, Shapes DEF Extract, ExtractBlocked, ExtractUnreadable, ExtractFresh,
       ExtractRead, ExtractPut, ExtractRecord, ExtractEnqueue, WaitingHasWork, Future,
       FutureChunk, Spent, FutureExtract, Clean, Enqueued
  <1>3. CASE Chunk
    BY <1>3, Shapes, WithStatusIs, IndexedIs DEF Chunk, ChunkBlocked, ChunkMissing,
       ChunkTextless, ChunkRead, ChunkReuse, ChunkDiffer, ChunkInsert, ChunkClash,
       ChunkEvict, ChunkAgain, ChunkEmbed, WaitingHasWork, Future, FutureChunk, Spent,
       FutureExtract, Clean, Enqueued, Typed, HandMatches
  <1>4. CASE Embedding
    <2>1. CASE EmbeddingBlocked \/ EmbeddingMissing \/ EmbeddingNothing
      BY <2>1 DEF EmbeddingBlocked, EmbeddingMissing, EmbeddingNothing, WaitingHasWork,
         Future, FutureChunk, FutureExtract, Clean, Typed, HandMatches
    <2>2. CASE EmbeddingRead \/ EmbeddingFails \/ EmbeddingStore
      BY <2>2 DEF EmbeddingRead, EmbeddingFails, EmbeddingStore, WaitingHasWork, Future,
         FutureChunk, FutureExtract, Clean, Typed, HandMatches
    <2> QED BY <1>4, <2>1, <2>2 DEF Embedding
  <1>5. CASE RepairMiss
    BY <1>5, MissRepaired DEF RepairMiss, WaitingHasWork, Future, FutureExtract
  <1>6. CASE Complete \/ Retry \/ FailForGood \/ FileFails \/ FailReplaced \/ Abandon
    BY <1>6, Shapes, WithStatusIs DEF Complete, Retry, FailForGood, FileFails,
       FailReplaced, Abandon, WaitingHasWork, OrphanAtWork, ExtractIsFollowed,
       MissIsFollowed, ChunkIsDone, Clean, Harmless, Future, FutureChunk, FutureExtract,
       Finished, Typed, HandMatches, HandQueued
  <1>7. CASE (\E k \in Kind : Take(k)) \/ Backfill \/ Trim \/ Crash \/ Start
    BY <1>7, Shapes DEF Take, Backfill, Trim, Crash, Start, WaitingHasWork, Future,
       FutureChunk, Spent, FutureExtract, Clean, EmbeddingBackfilled, Enqueued,
       Harmless, Active, Typed, Idle
  <1>8. CASE Window
    BY <1>8, Shapes, RetriedIs DEF Window, WindowGoesOn, PrepareSourceAgain, ListFailed,
       PrepareFailed, PrepareAgain, ClearText, DeleteKeyword, BackfillExtraction,
       DeleteVectors, BackfillEmbedding, RemoveReplaced, CleanupMissing, RemoveFolder,
       AddFolder, WaitingHasWork, Future, FutureChunk, FutureExtract, Clean, Enqueued,
       OrphanAtWork, NoRow, Typed, HandQueued, Idle, EmbeddingBackfilled, EraseFile
  <1>9. CASE Disk
    BY <1>9 DEF Disk, Change, Vanish, Return, Revert, WaitingHasWork, Future,
       FutureChunk, FutureExtract, Clean
  <1> QED BY <1>1, <1>2, <1>3, <1>4, <1>5, <1>6, <1>7, <1>8, <1>9 DEF Next, Loop,
     Outcome

LEMMA KeywordOrWorkKept ==
  ASSUME Typed, NoneIsEmpty, OrphanAtWork, ExtractIsFollowed, MissIsFollowed,
     KeywordOrWork, Next
  PROVE  KeywordOrWork'
  <1>1. CASE ScanAbsent \/ ScanUnreadable \/ ScanDenied \/ ScanOversize \/ ScanNew \/
     ScanUnchanged \/ ScanReturned \/ ScanChanged \/ ScanEnqueue
    BY <1>1, Shapes DEF ScanAbsent, ScanUnreadable, ScanDenied, ScanOversize, ScanNew,
       ScanUnchanged, ScanReturned, ScanChanged, ScanEnqueue, KeywordOrWork, Future,
       FutureChunk, Spent, FutureExtract, Active, Clean, EraseFile, Enqueued, Typed,
       HandMatches
  <1>2. CASE ScanReactivate
    BY <1>2 DEF ScanReactivate, KeywordOrWork, Active, Extraction, Clean, Harmless,
       Stale, Reactivated
  <1>3. CASE ScanMissing \/ ScanDeactivate \/ ScanEvict
    BY <1>3 DEF ScanMissing, ScanDeactivate, ScanEvict, KeywordOrWork, Future,
       FutureChunk, Spent, FutureExtract, Active, Clean, StaleExcept, Typed, HandMatches
  <1>4. CASE Extract
    BY <1>4, Shapes DEF Extract, ExtractBlocked, ExtractUnreadable, ExtractFresh,
       ExtractRead, ExtractPut, ExtractRecord, ExtractEnqueue, KeywordOrWork, Future,
       FutureChunk, Spent, FutureExtract, Active, Clean, Enqueued
  <1>5. CASE ChunkBlocked \/ ChunkMissing \/ ChunkTextless \/ ChunkRead \/ ChunkReuse \/
     ChunkDiffer \/ ChunkInsert \/ ChunkClash \/ ChunkEvict
    BY <1>5, Shapes, WithStatusIs, IndexedIs DEF ChunkBlocked, ChunkMissing,
       ChunkTextless, ChunkRead, ChunkReuse, ChunkDiffer, ChunkInsert, ChunkClash,
       ChunkEvict, KeywordOrWork, NoneIsEmpty, Clean, Harmless, Future, FutureChunk,
       Spent, FutureExtract, Active, KeywordWith, StaleExcept, Typed
  <1>6. CASE ChunkAgain \/ ChunkEmbed
    BY <1>6, Shapes DEF ChunkAgain, ChunkEmbed, KeywordOrWork, Future, FutureChunk,
       FutureExtract, Active, Clean, Enqueued, Spent, Typed, HandMatches
  <1>7. CASE Embedding
    BY <1>7 DEF Embedding, EmbeddingBlocked, EmbeddingMissing, EmbeddingNothing,
       EmbeddingRead, EmbeddingFails, EmbeddingStore, KeywordOrWork, Future,
       FutureChunk, FutureExtract, Active, Clean, Typed, HandMatches
  <1>8. CASE RepairMiss
    BY <1>8, MissRepaired DEF RepairMiss, KeywordOrWork, Future, FutureExtract
  <1>9. CASE Complete \/ Retry
    BY <1>9, Shapes DEF Complete, Retry, KeywordOrWork, Future, FutureChunk, Spent,
       FutureExtract, Active, Clean, Finished
  <1>10. CASE FailForGood
    BY <1>10 DEF FailForGood, KeywordOrWork, Active, Clean, Harmless
  <1>11. CASE FileFails \/ FailReplaced \/ Abandon
    BY <1>11, Shapes DEF FileFails, FailReplaced, Abandon, KeywordOrWork, NoneIsEmpty,
       OrphanAtWork, MissIsFollowed, Clean, Future, FutureChunk, FutureExtract, Active,
       Finished, Typed, HandMatches
  <1>12. CASE (\E k \in Kind : Take(k)) \/ Backfill \/ Trim \/ Crash \/ Start
    BY <1>12, Shapes DEF Take, Backfill, Trim, Crash, Start, KeywordOrWork, Future,
       FutureChunk, Spent, FutureExtract, Active, Clean, EmbeddingBackfilled, Enqueued,
       NoneIsEmpty, OrphanAtWork, Harmless, Typed, HandQueued, Idle
  <1>13. CASE PrepareSourceAgain \/ ListFailed \/ PrepareFailed \/ PrepareAgain \/
     ClearText \/ DeleteKeyword
    BY <1>13, Shapes DEF PrepareSourceAgain, ListFailed, PrepareFailed, PrepareAgain,
       ClearText, DeleteKeyword, KeywordOrWork, Future, FutureChunk, FutureExtract,
       Active, Clean, Enqueued, Idle
  <1>14. CASE BackfillExtraction
    BY <1>14, BackfillKeepsWork DEF BackfillExtraction, KeywordOrWork, Active
  <1>15. CASE DeleteVectors \/ BackfillEmbedding \/ RemoveReplaced \/ CleanupMissing \/
     RemoveFolder \/ AddFolder
    BY <1>15, Shapes DEF DeleteVectors, BackfillEmbedding, RemoveReplaced,
       CleanupMissing, RemoveFolder, AddFolder, KeywordOrWork, Future, FutureChunk,
       FutureExtract, Active, Clean, Enqueued, EraseFile, EmbeddingBackfilled
  <1>16. CASE Disk
    BY <1>16 DEF Disk, Change, Vanish, Return, Revert, KeywordOrWork, Future,
       FutureChunk, FutureExtract, Active, Clean
  <1> QED BY <1>1, <1>2, <1>3, <1>4, <1>5, <1>6, <1>7, <1>8, <1>9, <1>10, <1>11, <1>12,
     <1>13, <1>14, <1>15, <1>16 DEF Next, Loop, Scan, Chunk, Outcome, Window,
     WindowGoesOn

LEMMA CacheTrueKept ==
  ASSUME CacheTrue, Next
  PROVE  CacheTrue'
  <1>1. CASE ScanEvict BY <1>1 DEF CacheTrue, ScanEvict, NoEntry, Clean
  <1>2. CASE ExtractPut BY <1>2 DEF ExtractPut, CacheTrue, Clean, Harmless
  <1>3. CASE ChunkEvict BY <1>3 DEF ChunkEvict, CacheTrue, NoEntry
  <1>4. CASE Trim BY <1>4 DEF Trim, CacheTrue, NoEntry
  <1>5. CASE ClearText \/ CleanupMissing
    BY <1>5 DEF ClearText, CleanupMissing, CacheTrue, NoEntry, Clean
  <1>6. CASE ~WritesCache
    BY <1>6, OthersKeep DEF CacheTrue, Clean, Harmless
  <1> QED BY <1>1, <1>2, <1>3, <1>4, <1>5, <1>6 DEF WritesCache

LEMMA HashIsNewestKept ==
  ASSUME Typed, NoneIsEmpty, HashBound, HashIsNewest, Next
  PROVE  HashIsNewest'
  <1>1. CASE ScanDenied \/ ScanOversize \/ ScanNew
    BY <1>1 DEF ScanDenied, ScanOversize, ScanNew, HashIsNewest, NoneIsEmpty, HashBound,
       Tracked, Clean, Harmless, NoRow, EraseFile
  <1>2. CASE ScanReturned \/ ScanChanged
    BY <1>2, Shapes DEF ScanReturned, ScanChanged, HashIsNewest
  <1>3. CASE ScanMissing
    BY <1>3, Shapes, WithStatusIs DEF ScanMissing, HashIsNewest, Tracked, Clean
  <1>4. CASE ChunkTextless \/ ChunkReuse \/ ChunkInsert
    BY <1>4, Shapes, WithStatusIs, IndexedIs DEF ChunkTextless, ChunkReuse, ChunkInsert,
       HashIsNewest, Tracked, Clean, NoneIsEmpty, Active, FileJobs, Typed, HandMatches,
       HandQueued
  <1>5. CASE RepairMiss \/ FileFails
    BY <1>5, Shapes, RetriedIs, WithStatusIs DEF RepairMiss, FileFails, HashIsNewest,
       Tracked, Clean
  <1>6. CASE PrepareFailed \/ PrepareAgain \/ RemoveFolder
    BY <1>6, Shapes, RetriedIs DEF PrepareFailed, PrepareAgain, RemoveFolder,
       HashIsNewest, Tracked, Clean, EraseFile, NoRow
  <1>7. CASE Disk
    BY <1>7 DEF Disk, Change, Vanish, Return, Revert, HashIsNewest, Clean, Harmless
  <1>8. CASE ~WritesRow /\ ~Disk
    BY <1>8, OthersKeep DEF HashIsNewest, Tracked, Clean, Harmless
  <1> QED BY <1>1, <1>2, <1>3, <1>4, <1>5, <1>6, <1>7, <1>8 DEF WritesRow, Disk

LEMMA StoreIsCurrentKept ==
  ASSUME Typed, HashBound, CacheTrue, HashIsNewest, StoreIsCurrent, Next
  PROVE  StoreIsCurrent'
  <1>1. CASE Scan
    BY <1>1 DEF Scan, ScanAbsent, ScanUnreadable, ScanDenied, ScanOversize, ScanNew,
       ScanUnchanged, ScanReturned, ScanChanged, ScanEnqueue, ScanReactivate,
       ScanMissing, ScanDeactivate, ScanEvict, StoreIsCurrent
  <1>2. CASE Extract
    BY <1>2 DEF Extract, ExtractBlocked, ExtractUnreadable, ExtractFresh, ExtractRead,
       ExtractPut, ExtractRecord, ExtractEnqueue, StoreIsCurrent
  <1>3. CASE Chunk
    BY <1>3 DEF Chunk, ChunkBlocked, ChunkMissing, ChunkTextless, ChunkRead, ChunkReuse,
       ChunkDiffer, ChunkInsert, ChunkClash, ChunkEvict, ChunkAgain, ChunkEmbed,
       StoreIsCurrent, CacheTrue, HashIsNewest, Tracked, Clean, Current, Fresh
  <1>4. CASE Embedding
    BY <1>4 DEF Embedding, EmbeddingBlocked, EmbeddingMissing, EmbeddingNothing,
       EmbeddingRead, EmbeddingFails, EmbeddingStore, StoreIsCurrent
  <1>5. CASE Outcome
    BY <1>5 DEF Outcome, RepairMiss, Complete, Retry, FailForGood, FileFails,
       FailReplaced, Abandon, StoreIsCurrent
  <1>6. CASE (\E k \in Kind : Take(k)) \/ Backfill \/ Trim \/ Crash \/ Start
    BY <1>6 DEF Take, Backfill, Trim, Crash, Start, StoreIsCurrent
  <1>7. CASE Window
    BY <1>7, Shapes, RetriedIs DEF Window, WindowGoesOn, PrepareSourceAgain, ListFailed,
       PrepareFailed, PrepareAgain, ClearText, DeleteKeyword, BackfillExtraction,
       DeleteVectors, BackfillEmbedding, RemoveReplaced, CleanupMissing, RemoveFolder,
       AddFolder, StoreIsCurrent, Current, Tracked, Clean
  <1>8. CASE Change \/ Vanish
    BY <1>8, Shapes DEF Change, Vanish, StoreIsCurrent, HashBound, Current, Tracked,
       Clean
  <1>9. CASE Return \/ Revert
    BY <1>9 DEF Return, Revert, StoreIsCurrent, Current, Tracked, Clean, Harmless
  <1> QED BY <1>1, <1>2, <1>3, <1>4, <1>5, <1>6, <1>7, <1>8, <1>9 DEF Next, Loop, Disk

LEMMA IndexedTrueKept ==
  ASSUME Typed, NoneIsEmpty, HashBound, StoreIsCurrent, OrphanAtWork, IndexedTrue, Next
  PROVE  IndexedTrue'
  <1>1. CASE ScanDenied \/ ScanOversize \/ ScanNew \/ ScanReturned
    BY <1>1, Shapes DEF ScanDenied, ScanOversize, ScanNew, ScanReturned, IndexedTrue,
       NoRow, EraseFile
  <1>2. CASE ScanChanged BY <1>2 DEF ScanChanged, IndexedTrue
  <1>3. CASE ScanReactivate
    BY <1>3, ChunksTakenBack DEF ScanReactivate, IndexedTrue, Clean
  <1>4. CASE ScanMissing \/ ScanDeactivate
    BY <1>4, Shapes, WithStatusIs DEF ScanMissing, ScanDeactivate, IndexedTrue, Active,
       Current, Tracked, Clean
  <1>5. CASE ChunkTextless \/ ChunkReuse
    BY <1>5, Shapes, WithStatusIs, IndexedIs DEF ChunkTextless, ChunkReuse, IndexedTrue,
       NoneIsEmpty, StoreIsCurrent, Current, Tracked, Clean, Active, StaleExcept
  <1>6. CASE ChunkInsert BY <1>6, InsertedIsTrue DEF ChunkInsert, IndexedTrue
  <1>7. CASE RepairMiss \/ FileFails
    BY <1>7, Shapes, RetriedIs, WithStatusIs DEF RepairMiss, FileFails, IndexedTrue,
       Active, Current, Tracked, Clean
  <1>8. CASE Abandon BY <1>8 DEF OrphanAtWork, IndexedTrue, Abandon
  <1>9. CASE Crash
    BY <1>9 DEF Crash, IndexedTrue, Active, Current, Tracked, Clean, Harmless
  <1>10. CASE PrepareFailed \/ PrepareAgain \/ RemoveReplaced \/ RemoveFolder
    BY <1>10, Shapes, RetriedIs DEF PrepareFailed, PrepareAgain, RemoveReplaced,
       RemoveFolder, IndexedTrue, Active, Current, Tracked, Clean, Stale, EraseFile,
       NoRow
  <1>11. CASE Change \/ Vanish \/ Return
    BY <1>11, Shapes DEF Change, Vanish, Return, IndexedTrue, HashBound, Current,
       Tracked, Clean, Active
  <1>12. CASE Revert BY <1>12 DEF Revert, IndexedTrue, Current, Clean, Harmless
  <1>13. CASE ~WritesRow /\ ~Writes /\ ~WritesTexts /\ ~Disk /\ ~(ScanReturned \/
     ScanReactivate \/ Abandon \/ Crash)
    BY <1>13, OthersKeep, OthersKeepChunks, OthersReactivateNot DEF IndexedTrue, Active,
       Extraction, Current, Tracked, Clean, Harmless
  <1> QED BY <1>1, <1>2, <1>3, <1>4, <1>5, <1>6, <1>7, <1>8, <1>9, <1>10, <1>11, <1>12,
     <1>13 DEF WritesRow, Writes, WritesTexts, Disk

LEMMA NoTextTrueKept ==
  ASSUME Typed, NoneIsEmpty, HashBound, CacheTrue, HashIsNewest, ScanHasRow, NoTextTrue,
     Next
  PROVE  NoTextTrue'
  <1>1. CASE ScanDenied \/ ScanOversize \/ ScanNew \/ ScanReturned
    BY <1>1, Shapes DEF ScanDenied, ScanOversize, ScanNew, ScanReturned, NoTextTrue,
       NoRow, EraseFile
  <1>2. CASE ScanChanged \/ ScanReactivate \/ ScanMissing \/ ScanDeactivate
    BY <1>2, Shapes, WithStatusIs DEF ScanChanged, ScanReactivate, ScanMissing,
       ScanDeactivate, NoTextTrue, ScanHasRow, Current, Tracked, Active, Clean
  <1>3. CASE ChunkTextless BY <1>3, TextlessIsTrue
  <1>4. CASE ChunkReuse \/ ChunkInsert
    BY <1>4, Shapes, IndexedIs DEF ChunkReuse, ChunkInsert, NoTextTrue
  <1>5. CASE RepairMiss \/ FileFails
    BY <1>5, Shapes, WithStatusIs, RetriedIs DEF RepairMiss, FileFails, NoTextTrue,
       Current, Tracked, Active, Extraction, Clean
  <1>6. CASE PrepareFailed \/ PrepareAgain \/ RemoveReplaced \/ RemoveFolder
    BY <1>6, Shapes, RetriedIs DEF PrepareFailed, PrepareAgain, RemoveReplaced,
       RemoveFolder, NoTextTrue, Current, Tracked, Active, Clean, EraseFile, NoRow
  <1>7. CASE Change
    BY <1>7, Shapes DEF HashBound, NoTextTrue, Change, Clean, Current, Tracked, Active
  <1>8. CASE Vanish \/ Return \/ Revert
    BY <1>8 DEF Vanish, Return, Revert, NoTextTrue, HashBound, Tracked, Clean, Current,
       Active, Harmless
  <1>9. CASE ~WritesRow /\ ~Writes /\ ~Disk
    BY <1>9, OthersKeep, OthersKeepChunks DEF NoTextTrue, Current, Tracked, Active,
       Extraction, Clean, Harmless
  <1> QED BY <1>1, <1>2, <1>3, <1>4, <1>5, <1>6, <1>7, <1>8, <1>9 DEF WritesRow, Writes,
     Disk

LEMMA CheckedLookedKept ==
  ASSUME Typed, NoneIsEmpty, FolderGone, OrphanAtWork, ScanHasRow, ScanBegins,
     HashBound, ErrorIsOfFile, CheckedLooked, Next
  PROVE  CheckedLooked'
  <1>1. CASE ScanAbsent
    BY <1>1, FileAssumption DEF CheckedLooked, ScanAbsent, ScanBegins, Looked, Admitted,
       Version
  <1>2. CASE ScanUnreadable \/ ScanDenied \/ ScanOversize
    BY <1>2 DEF ScanUnreadable, ScanDenied, ScanOversize, CheckedLooked, Looked,
       Admitted, NoRow, EraseFile
  <1>3. CASE ScanNew BY <1>3 DEF ScanNew, CheckedLooked, Looked, Admitted
  <1>4. CASE ScanUnchanged \/ ScanReturned \/ ScanChanged \/ ScanEnqueue \/
     ScanReactivate
    BY <1>4, Shapes DEF ScanUnchanged, ScanReturned, ScanChanged, ScanEnqueue,
       ScanReactivate, CheckedLooked, Looked, Admitted, ScanHasRow, PendingScan,
       ScanPassed, Enqueued, Typed, HandQueued
  <1>5. CASE ScanMissing
    BY <1>5, Shapes, WithStatusIs DEF ScanMissing, CheckedLooked, Looked, Admitted,
       PendingScan, ScanPassed, Typed, HandQueued
  <1>6. CASE ScanDeactivate
    BY <1>6, Shapes, WithStatusIs DEF ScanDeactivate, CheckedLooked, Looked, Admitted,
       PendingScan, ScanPassed, Typed, HandQueued
  <1>7. CASE ScanEvict
    BY <1>7 DEF ScanEvict, CheckedLooked, Looked, Admitted, PendingScan, ScanPassed
  <1>8. CASE Extract
    BY <1>8, Shapes DEF Extract, ExtractBlocked, ExtractUnreadable, ExtractFresh,
       ExtractRead, ExtractPut, ExtractRecord, ExtractEnqueue, CheckedLooked, Looked,
       Admitted, PendingScan, Enqueued, Typed, HandMatches
  <1>9. CASE ChunkBlocked \/ ChunkMissing
    BY <1>9 DEF ChunkBlocked, ChunkMissing, CheckedLooked, Looked, Admitted,
       PendingScan, ScanPassed
  <1>10. CASE ChunkTextless
    BY <1>10, Shapes, WithStatusIs DEF ChunkTextless, CheckedLooked, Looked,
       PendingScan, Typed, HandMatches
  <1>11. CASE ChunkRead \/ ChunkReuse \/ ChunkDiffer
    BY <1>11, Shapes, IndexedIs DEF ChunkRead, ChunkReuse, ChunkDiffer, CheckedLooked,
       NoneIsEmpty, Looked, Admitted, PendingScan, Active, Typed, HandMatches
  <1>12. CASE ChunkInsert
    BY <1>12, Shapes, IndexedIs DEF ChunkInsert, CheckedLooked, NoneIsEmpty, HashBound,
       FileJobs, Looked, Admitted, PendingScan, Typed, HandMatches, HandQueued
  <1>13. CASE ChunkClash \/ ChunkEvict \/ ChunkAgain \/ ChunkEmbed
    BY <1>13, Shapes DEF ChunkClash, ChunkEvict, ChunkAgain, ChunkEmbed, CheckedLooked,
       Looked, Admitted, PendingScan, ScanPassed, Enqueued, Typed, HandMatches
  <1>14. CASE Embedding
    BY <1>14 DEF Embedding, EmbeddingBlocked, EmbeddingMissing, EmbeddingNothing,
       EmbeddingRead, EmbeddingFails, EmbeddingStore, CheckedLooked, Looked, Admitted,
       PendingScan, Typed, HandMatches
  <1>15. CASE RepairMiss
    BY <1>15, Shapes, RetriedIs DEF RepairMiss, CheckedLooked, Looked, Admitted,
       PendingScan, ScanPassed, Enqueued
  <1>16. CASE Complete
    BY <1>16, Shapes DEF Complete, CheckedLooked, Looked, Admitted, PendingScan,
       ScanPassed, Finished
  <1>17. CASE Retry \/ FailForGood
    BY <1>17, Shapes DEF Retry, FailForGood, CheckedLooked, ErrorIsOfFile, FileJobs,
       Looked, Admitted, PendingScan, ScanPassed, Finished, Typed, HandMatches
  <1>18. CASE FileFails
    BY <1>18, Shapes, WithStatusIs DEF FileFails, CheckedLooked, Looked, Admitted,
       PendingScan, ScanPassed
  <1>19. CASE FailReplaced
    BY <1>19 DEF FailReplaced, CheckedLooked, Looked, Admitted, PendingScan, ScanPassed,
       Finished, Typed, HandMatches
  <1>20. CASE Abandon
    BY <1>20 DEF Abandon, CheckedLooked, Looked, Admitted, PendingScan, ScanPassed
  <1>21. CASE (\E k \in Kind : Take(k)) \/ Backfill \/ Trim \/ Crash
    BY <1>21, Shapes DEF Take, Backfill, Trim, Crash, CheckedLooked, Looked, Admitted,
       PendingScan, ScanPassed, EmbeddingBackfilled, Enqueued, Typed, HandMatches,
       HandQueued
  <1>22. CASE Start BY <1>22, Shapes DEF Start, CheckedLooked, PendingScan, ScanPassed
  <1>23. CASE PrepareSourceAgain
    BY <1>23, Shapes DEF PrepareSourceAgain, CheckedLooked, PendingScan, ScanPassed,
       Enqueued, Typed, HandQueued
  <1>24. CASE ListFailed \/ PrepareFailed \/ PrepareAgain \/ ClearText \/ DeleteKeyword
    BY <1>24, Shapes, RetriedIs DEF ListFailed, PrepareFailed, PrepareAgain, ClearText,
       DeleteKeyword, CheckedLooked, Looked, Admitted, PendingScan, FolderGone,
       ScanPassed, Enqueued, Typed, HandQueued
  <1>25. CASE BackfillExtraction \/ DeleteVectors
    BY <1>25, Shapes DEF BackfillExtraction, DeleteVectors, CheckedLooked, Looked,
       Admitted, PendingScan, Enqueued, NoneIsEmpty, FolderGone, OrphanAtWork,
       ScanPassed, EmbeddingBackfilled, Active, Typed, HandQueued
  <1>26. CASE BackfillEmbedding
    BY <1>26, Shapes DEF BackfillEmbedding, CheckedLooked, Looked, Admitted,
       PendingScan, Enqueued, NoneIsEmpty, FolderGone, OrphanAtWork, ScanPassed,
       EmbeddingBackfilled, Active, Typed, HandQueued
  <1>27. CASE RemoveReplaced \/ CleanupMissing \/ RemoveFolder
    BY <1>27 DEF RemoveReplaced, CleanupMissing, RemoveFolder, CheckedLooked, Looked,
       Admitted, PendingScan, FolderGone, ScanPassed, Typed, HandQueued
  <1>28. CASE AddFolder
    BY <1>28, Shapes DEF AddFolder, CheckedLooked, PendingScan, ScanPassed, Enqueued,
       Typed, HandQueued
  <1>29. CASE Disk BY <1>29 DEF Disk, Change, Vanish, Return, Revert, CheckedLooked
  <1> QED BY <1>1, <1>2, <1>3, <1>4, <1>5, <1>6, <1>7, <1>8, <1>9, <1>10, <1>11, <1>12,
     <1>13, <1>14, <1>15, <1>16, <1>17, <1>18, <1>19, <1>20, <1>21, <1>22, <1>23, <1>24,
     <1>25, <1>26, <1>27, <1>28, <1>29 DEF Next, Loop, Scan, Chunk, Outcome, Window,
     WindowGoesOn

LEMMA FailedSoundKept ==
  ASSUME Typed, FolderGone, ExtractIsFollowed, ChunkIsDone, MissIsFollowed,
     OrphanAtWork, HasRecord, FailedSound, Next
  PROVE  FailedSound'
  <1>1. CASE ScanAbsent \/ ScanUnreadable \/ ScanDenied \/ ScanOversize
    BY <1>1 DEF ScanAbsent, ScanUnreadable, ScanDenied, ScanOversize, FailedSound,
       Admitted
  <1>2. CASE ScanNew BY <1>2 DEF ScanNew, FailedSound
  <1>3. CASE ScanUnchanged
    BY <1>3 DEF ScanUnchanged, FailedSound, Future, FutureChunk, Spent, FutureExtract,
       Clean
  <1>4. CASE ScanReturned BY <1>4 DEF ScanReturned, FailedSound
  <1>5. CASE ScanChanged BY <1>5 DEF ScanChanged, FailedSound
  <1>6. CASE ScanEnqueue
    BY <1>6, Shapes DEF ScanEnqueue, FailedSound, Future, FutureExtract, Enqueued
  <1>7. CASE ScanReactivate \/ ScanMissing \/ ScanDeactivate \/ ScanEvict
    BY <1>7, Shapes, WithStatusIs DEF ScanReactivate, ScanMissing, ScanDeactivate,
       ScanEvict, FailedSound, Future, FutureChunk, Spent, FutureExtract, Admitted,
       Clean, Typed, HandMatches
  <1>8. CASE ExtractBlocked \/ ExtractUnreadable \/ ExtractFresh \/ ExtractRead \/
     ExtractPut \/ ExtractRecord
    BY <1>8 DEF ExtractBlocked, ExtractUnreadable, ExtractFresh, ExtractRead,
       ExtractPut, ExtractRecord, FailedSound, Future, FutureChunk, Spent,
       FutureExtract, Admitted, Clean
  <1>9. CASE ExtractEnqueue
    BY <1>9, Shapes DEF ExtractEnqueue, FailedSound, Future, FutureChunk, FutureExtract,
       Admitted, Clean, Enqueued
  <1>10. CASE ChunkBlocked
    BY <1>10 DEF ChunkBlocked, FailedSound, HasRecord, Clean, Admitted, Typed,
       HandMatches, HandQueued
  <1>11. CASE ChunkMissing
    BY <1>11 DEF ChunkMissing, FailedSound, Future, FutureChunk, Spent, FutureExtract,
       Clean
  <1>12. CASE ChunkTextless
    BY <1>12, Shapes, WithStatusIs DEF ChunkTextless, FailedSound
  <1>13. CASE ChunkRead \/ ChunkReuse \/ ChunkDiffer \/ ChunkInsert
    BY <1>13, Shapes, IndexedIs DEF ChunkRead, ChunkReuse, ChunkDiffer, ChunkInsert,
       FailedSound, Future, FutureChunk, Spent, FutureExtract, Admitted, Clean
  <1>14. CASE ChunkClash BY <1>14 DEF ChunkClash, FailedSound, Clean, Harmless
  <1>15. CASE ChunkEvict
    BY <1>15 DEF ChunkEvict, FailedSound, Future, FutureChunk, Spent, FutureExtract,
       Admitted, Clean
  <1>16. CASE ChunkAgain
    BY <1>16, Shapes DEF ChunkAgain, FailedSound, Future, FutureChunk, FutureExtract,
       Admitted, Clean, Enqueued
  <1>17. CASE ChunkEmbed
    BY <1>17 DEF ChunkEmbed, FailedSound, Future, FutureChunk, Spent, FutureExtract,
       Admitted, Clean, Enqueued, Typed, HandMatches
  <1>18. CASE Embedding
    BY <1>18 DEF Embedding, EmbeddingBlocked, EmbeddingMissing, EmbeddingNothing,
       EmbeddingRead, EmbeddingFails, EmbeddingStore, FailedSound, Future, FutureChunk,
       FutureExtract, Admitted, Clean, Typed, HandMatches
  <1>19. CASE RepairMiss BY <1>19, RepairedIsQueued DEF RepairMiss, FailedSound
  <1>20. CASE Complete \/ Retry \/ FailForGood \/ FileFails \/ FailReplaced \/ Abandon
    BY <1>20, Shapes DEF Complete, Retry, FailForGood, FileFails, FailReplaced, Abandon,
       FailedSound, ExtractIsFollowed, ChunkIsDone, MissIsFollowed, OrphanAtWork, Clean,
       Future, FutureChunk, FutureExtract, Admitted, Finished, Typed, HandMatches
  <1>21. CASE (\E k \in Kind : Take(k)) \/ Backfill \/ Trim \/ Crash \/ Start
    BY <1>21, Shapes DEF Take, Backfill, Trim, Crash, Start, FailedSound, OrphanAtWork,
       Clean, Future, FutureChunk, Spent, FutureExtract, Admitted, EmbeddingBackfilled,
       Enqueued, Typed, HandQueued
  <1>22. CASE PrepareSourceAgain \/ ListFailed
    BY <1>22 DEF PrepareSourceAgain, ListFailed, FailedSound, Failing
  <1>23. CASE PrepareFailed BY <1>23, AskedIsQueued DEF PrepareFailed, FailedSound
  <1>24. CASE PrepareAgain
    BY <1>24, Shapes, RetriedIs DEF PrepareAgain, FailedSound, Admitted, Clean, Idle
  <1>25. CASE ClearText \/ DeleteKeyword
    BY <1>25 DEF ClearText, DeleteKeyword, FailedSound, Future, FutureChunk,
       FutureExtract, Admitted, Clean
  <1>26. CASE BackfillExtraction
    BY <1>26 DEF BackfillExtraction, FailedSound, Future, FutureChunk, FutureExtract,
       Admitted, Clean, Idle
  <1>27. CASE DeleteVectors \/ BackfillEmbedding \/ RemoveReplaced \/ CleanupMissing \/
     RemoveFolder \/ AddFolder
    BY <1>27, Shapes DEF DeleteVectors, BackfillEmbedding, RemoveReplaced,
       CleanupMissing, RemoveFolder, AddFolder, FailedSound, FolderGone,
       ExtractIsFollowed, ChunkIsDone, MissIsFollowed, Clean, Future, FutureChunk,
       FutureExtract, Admitted, Enqueued, EmbeddingBackfilled
  <1>28. CASE Disk BY <1>28 DEF Disk, Change, Vanish, Return, Revert, FailedSound
  <1> QED BY <1>1, <1>2, <1>3, <1>4, <1>5, <1>6, <1>7, <1>8, <1>9, <1>10, <1>11, <1>12,
     <1>13, <1>14, <1>15, <1>16, <1>17, <1>18, <1>19, <1>20, <1>21, <1>22, <1>23, <1>24,
     <1>25, <1>26, <1>27, <1>28 DEF Next, Loop, Scan, Extract, Chunk, Outcome, Window,
     WindowGoesOn

LEMMA TextHasRowKept ==
  ASSUME Typed, NoneIsEmpty, ErasedInScan, OrphanAtWork, TextHasRow, Next
  PROVE  TextHasRow'
  <1>1. CASE ScanAbsent \/ ScanUnreadable \/ ScanDenied \/ ScanOversize
    BY <1>1, Shapes DEF ScanAbsent, ScanUnreadable, ScanDenied, ScanOversize,
       TextHasRow, ErasedInScan, Tracked, EraseFile
  <1>2. CASE ScanNew \/ ScanUnchanged \/ ScanReturned
    BY <1>2, Shapes DEF ScanNew, ScanUnchanged, ScanReturned, TextHasRow, Tracked
  <1>3. CASE ScanChanged \/ ScanEnqueue \/ ScanReactivate \/ ScanMissing \/
     ScanDeactivate \/ ScanEvict
    <2>1. CASE ScanChanged
      BY <2>1, Shapes, WithStatusIs DEF ScanChanged, TextHasRow, Tracked
    <2>2. CASE ScanEnqueue
      BY <2>2 DEF ScanEnqueue, TextHasRow, Tracked
    <2>3. CASE ScanReactivate \/ ScanMissing \/ ScanDeactivate
      BY <2>3, Shapes, WithStatusIs DEF ScanReactivate, ScanMissing, ScanDeactivate,
         TextHasRow, Tracked
    <2>4. CASE ScanEvict
      BY <2>4 DEF ScanEvict, TextHasRow, Tracked
    <2> QED BY <1>3, <2>1, <2>2, <2>3, <2>4
  <1>4. CASE Extract
    BY <1>4 DEF Extract, ExtractBlocked, ExtractUnreadable, ExtractFresh, ExtractRead,
       ExtractPut, ExtractRecord, ExtractEnqueue, TextHasRow, Tracked, NoneIsEmpty,
       ErasedInScan, OrphanAtWork, FileJobs, Typed, HandMatches, HandQueued
  <1>5. CASE Chunk
    BY <1>5, Shapes, WithStatusIs, IndexedIs DEF Chunk, ChunkBlocked, ChunkMissing,
       ChunkTextless, ChunkRead, ChunkReuse, ChunkDiffer, ChunkInsert, ChunkClash,
       ChunkEvict, ChunkAgain, ChunkEmbed, TextHasRow, Tracked
  <1>6. CASE Embedding
    BY <1>6 DEF Embedding, EmbeddingBlocked, EmbeddingMissing, EmbeddingNothing,
       EmbeddingRead, EmbeddingFails, EmbeddingStore, TextHasRow, Tracked
  <1>7. CASE Outcome
    BY <1>7, Shapes, WithStatusIs, RetriedIs DEF Outcome, RepairMiss, Complete, Retry,
       FailForGood, FileFails, FailReplaced, Abandon, TextHasRow, Tracked
  <1>8. CASE (\E k \in Kind : Take(k)) \/ Backfill \/ Trim \/ Crash \/ Start
    BY <1>8 DEF Take, Backfill, Trim, Crash, Start, TextHasRow, Tracked
  <1>9. CASE Window
    BY <1>9, Shapes, RetriedIs DEF Window, WindowGoesOn, PrepareSourceAgain, ListFailed,
       PrepareFailed, PrepareAgain, ClearText, DeleteKeyword, BackfillExtraction,
       DeleteVectors, BackfillEmbedding, RemoveReplaced, CleanupMissing, RemoveFolder,
       AddFolder, TextHasRow, Tracked
  <1>10. CASE Disk
    BY <1>10 DEF Disk, Change, Vanish, Return, Revert, TextHasRow, Tracked
  <1> QED BY <1>1, <1>2, <1>3, <1>4, <1>5, <1>6, <1>7, <1>8, <1>9, <1>10 DEF Next, Loop,
     Scan

LEMMA NeverBackKept ==
  ASSUME NeverBack, Next
  PROVE  NeverBack'
  <1>1. CASE Disk BY <1>1 DEF Disk, Change, Vanish, Return, Revert, NeverBack, Forward
  <1>2. CASE ~Disk
    BY <1>2, OthersKeep DEF NeverBack, Forward
  <1> QED BY <1>1, <1>2 DEF Disk

LEMMA TextsBoundKept ==
  ASSUME Typed, HashBound, TextsBound, Next
  PROVE  TextsBound'
  <1>1. CASE ScanOversize \/ ScanEvict
    BY <1>1, Shapes DEF ScanOversize, ScanEvict, TextsBound, EraseFile, NoEntry
  <1>2. CASE ExtractRead \/ ExtractPut \/ ExtractRecord
    BY <1>2, Shapes DEF ExtractRead, ExtractPut, ExtractRecord, TextsBound, HashBound
  <1>3. CASE ChunkRead \/ ChunkReuse \/ ChunkDiffer \/ ChunkInsert \/ ChunkClash \/
     ChunkEvict
    BY <1>3, Shapes DEF ChunkRead, ChunkReuse, ChunkDiffer, ChunkInsert, ChunkClash,
       ChunkEvict, TextsBound, Typed, NoEntry
  <1>4. CASE EmbeddingRead \/ EmbeddingFails \/ EmbeddingStore
    BY <1>4, Shapes DEF EmbeddingRead, EmbeddingFails, EmbeddingStore, TextsBound, Typed
  <1>5. CASE Complete \/ Retry \/ FileFails \/ FailReplaced \/ Abandon
    BY <1>5, Shapes DEF Complete, Retry, FileFails, FailReplaced, Abandon, TextsBound,
       Typed
  <1>6. CASE Trim \/ Crash BY <1>6, Shapes DEF Trim, Crash, TextsBound, NoEntry, Typed
  <1>7. CASE ClearText \/ RemoveReplaced \/ CleanupMissing \/ RemoveFolder
    BY <1>7, Shapes DEF ClearText, RemoveReplaced, CleanupMissing, RemoveFolder,
       TextsBound, NoEntry, EraseFile
  <1>8. CASE Change BY <1>8, Shapes DEF TextsBound, Change
  <1>9. CASE Vanish \/ Return \/ Revert
    BY <1>9 DEF Vanish, Return, Revert, TextsBound, Typed
  <1>10. CASE ~WritesTexts /\ ~WritesHand /\ ~WritesCache /\ ~Disk
    BY <1>10, OthersKeep DEF TextsBound, Extraction
  <1> QED BY <1>1, <1>2, <1>3, <1>4, <1>5, <1>6, <1>7, <1>8, <1>9, <1>10 DEF
     WritesTexts, WritesHand, WritesCache, Disk

LEMMA HandBehindKept ==
  ASSUME Typed, TextsBound, NeverBack, CacheTrue, HandBehind, Next
  PROVE  HandBehind'
  <1>1. CASE Scan
    BY <1>1 DEF Scan, ScanAbsent, ScanUnreadable, ScanDenied, ScanOversize, ScanNew,
       ScanUnchanged, ScanReturned, ScanChanged, ScanEnqueue, ScanReactivate,
       ScanMissing, ScanDeactivate, ScanEvict, HandBehind
  <1>2. CASE Extract
    BY <1>2 DEF Extract, ExtractBlocked, ExtractUnreadable, ExtractFresh, ExtractRead,
       ExtractPut, ExtractRecord, ExtractEnqueue, HandBehind
  <1>3. CASE Chunk
    BY <1>3 DEF Chunk, ChunkBlocked, ChunkMissing, ChunkTextless, ChunkRead, ChunkReuse,
       ChunkDiffer, ChunkInsert, ChunkClash, ChunkEvict, ChunkAgain, ChunkEmbed,
       HandBehind
  <1>4. CASE EmbeddingBlocked \/ EmbeddingMissing \/ EmbeddingNothing \/ EmbeddingFails
     \/ EmbeddingStore
    BY <1>4 DEF EmbeddingBlocked, EmbeddingMissing, EmbeddingNothing, EmbeddingFails,
       EmbeddingStore, HandBehind
  <1>5. CASE EmbeddingRead BY <1>5, ReadIsNewest DEF EmbeddingRead, HandBehind
  <1>6. CASE Outcome
    BY <1>6 DEF Outcome, RepairMiss, Complete, Retry, FailForGood, FileFails,
       FailReplaced, Abandon, HandBehind
  <1>7. CASE (\E k \in Kind : Take(k)) \/ Backfill \/ Trim \/ Crash \/ Start
    BY <1>7 DEF Take, Backfill, Trim, Crash, Start, HandBehind
  <1>8. CASE Window
    BY <1>8 DEF Window, WindowGoesOn, PrepareSourceAgain, ListFailed, PrepareFailed,
       PrepareAgain, ClearText, DeleteKeyword, BackfillExtraction, DeleteVectors,
       BackfillEmbedding, RemoveReplaced, CleanupMissing, RemoveFolder, AddFolder,
       HandBehind, Holders, Stale, Active, Forward, EraseFile
  <1>9. CASE Change
    BY <1>9, Shapes DEF TextsBound, Change, HandBehind, Forward, Holders, Active, Stale
  <1>10. CASE Vanish \/ Return \/ Revert
    BY <1>10 DEF Vanish, Return, Revert, HandBehind, Holders, Stale, Active, Forward
  <1> QED BY <1>1, <1>2, <1>3, <1>4, <1>5, <1>6, <1>7, <1>8, <1>9, <1>10 DEF Next, Loop,
     Embedding, Disk

LEMMA VectorsBehindKept ==
  ASSUME Typed, HandBehind, TextsBound, VectorsBehind, Next
  PROVE  VectorsBehind'
  <1>1. CASE ScanOversize \/ ScanReactivate \/ ScanDeactivate
    BY <1>1 DEF ScanOversize, ScanReactivate, ScanDeactivate, VectorsBehind, EraseFile,
       Holders, Stale, Active, Forward, Reactivated, StaleExcept
  <1>2. CASE ChunkReuse
    BY <1>2 DEF ChunkReuse, VectorsBehind, Holders, Stale, Active, Forward, StaleExcept
  <1>3. CASE ChunkInsert
    BY <1>3, Shapes DEF ChunkInsert, VectorsBehind, Holders, Stale, Active, Forward,
       StaleExcept
  <1>4. CASE EmbeddingStore
    BY <1>4 DEF EmbeddingStore, VectorsBehind, HandBehind, Forward, Holders, Stale,
       Active, Embedded
  <1>5. CASE DeleteVectors \/ RemoveReplaced \/ RemoveFolder
    BY <1>5 DEF DeleteVectors, RemoveReplaced, RemoveFolder, VectorsBehind, Holders,
       Stale, Active, Forward, EraseFile
  <1>6. CASE Change
    BY <1>6, Shapes DEF TextsBound, Change, VectorsBehind, Forward, Holders, Active,
       Stale
  <1>7. CASE Vanish \/ Return \/ Revert
    BY <1>7 DEF Vanish, Return, Revert, VectorsBehind, Holders, Stale, Active, Forward
  <1>8. CASE ~Writes /\ ~WritesTexts /\ ~WritesVectors /\ ~Disk
    BY <1>8, OthersKeep, OthersKeepChunks DEF VectorsBehind, Holders, Stale, Extraction,
       Active, Forward
  <1> QED BY <1>1, <1>2, <1>3, <1>4, <1>5, <1>6, <1>7, <1>8 DEF Writes, WritesTexts,
     WritesVectors, Disk

-----------------------------------------------------------------------------
(* Together                                                                *)

RowsSound == NoneIsEmpty /\ HashBound /\ HashIsNewest
WorkSound == /\ ExtractIsFollowed /\ MissIsFollowed /\ ChunkIsDone /\ HasRecord
             /\ WaitingHasWork /\ KeywordOrWork
TextsSound == /\ ChunksHaveText /\ CacheTrue /\ StoreIsCurrent /\ IndexedTrue
              /\ NoTextTrue /\ TextHasRow
CheckSound == CheckedLooked /\ FailedSound
VectorsSound == NeverBack /\ TextsBound /\ HandBehind /\ VectorsBehind

Sound == RowsSound /\ LoopSound /\ WorkSound /\ TextsSound /\ CheckSound /\ VectorsSound

LEMMA InitSound == Init => Sound
  <1> SUFFICES ASSUME Init PROVE Sound
    OBVIOUS
  <1> USE DEF Init
  <1>0. disk = 1 /\ newest = 1 /\ Active = {} /\ Holders = {}
    BY DEF Holders, Active, Stale
  <1>1. RowsSound
    BY <1>0, FileAssumption DEF RowsSound, NoneIsEmpty, HashBound, HashIsNewest,
       Tracked, NoRow, FileJobs
  <1>2. LoopSound
    BY DEF LoopSound, OrphanAtWork, FolderGone, ScanHasRow, ScanBegins, ErrorIsOfFile,
       StoreHasText, ErasedInScan, NoRow
  <1>3. WorkSound
    BY <1>0 DEF WorkSound, ExtractIsFollowed, MissIsFollowed, ChunkIsDone, HasRecord,
       WaitingHasWork, KeywordOrWork, NoRow
  <1>4. TextsSound
    BY <1>0 DEF TextsSound, ChunksHaveText, CacheTrue, StoreIsCurrent, IndexedTrue,
       NoTextTrue, TextHasRow, NoRow, NoEntry
  <1>5. CheckSound
    BY DEF CheckSound, CheckedLooked, PendingScan, ScanPassed, FailedSound, NoRow
  <1>6. VectorsSound
    BY <1>0 DEF VectorsSound, NeverBack, TextsBound, HandBehind, VectorsBehind, NoEntry
  <1> QED BY <1>1, <1>2, <1>3, <1>4, <1>5, <1>6 DEF Sound

LEMMA NextSound == Typed /\ Sound /\ Next => Sound'
  <1> SUFFICES ASSUME Typed, Sound, Next PROVE Sound'
    OBVIOUS
  <1> USE DEF Sound, RowsSound, WorkSound, TextsSound, CheckSound, VectorsSound
  <1>1. RowsSound'
    BY NoneIsEmptyKept, HashBoundKept, HashIsNewestKept DEF LoopSound
  <1>2. LoopSound'
    BY LoopSoundKept
  <1>3. WorkSound'
    BY ExtractIsFollowedKept, MissIsFollowedKept, ChunkIsDoneKept, HasRecordKept,
       WaitingHasWorkKept, KeywordOrWorkKept DEF LoopSound
  <1>4. TextsSound'
    BY ChunksHaveTextKept, CacheTrueKept, StoreIsCurrentKept, IndexedTrueKept,
       NoTextTrueKept, TextHasRowKept DEF LoopSound
  <1>5. CheckSound'
    BY CheckedLookedKept, FailedSoundKept DEF LoopSound
  <1>6. VectorsSound'
    BY NeverBackKept, TextsBoundKept, HandBehindKept, VectorsBehindKept
  <1> QED BY <1>1, <1>2, <1>3, <1>4, <1>5, <1>6

LEMMA StutterSound == Sound /\ UNCHANGED vars => Sound'
  <1> SUFFICES ASSUME Sound, UNCHANGED vars PROVE Sound'
    OBVIOUS
  <1> USE DEF vars, Sound, Clean, Forward, Tracked, Current, Active, Stale, Holders, Future,
        FutureExtract, FutureChunk, Spent
  <1>1. RowsSound'
    BY DEF RowsSound, NoneIsEmpty, HashBound, HashIsNewest
  <1>2. LoopSound'
    BY DEF LoopSound, OrphanAtWork, FolderGone, ScanHasRow, ScanBegins, ErrorIsOfFile,
       StoreHasText, ErasedInScan, NoRow
  <1>3. WorkSound'
    BY DEF WorkSound, ExtractIsFollowed, MissIsFollowed, ChunkIsDone, HasRecord,
       WaitingHasWork, KeywordOrWork
  <1>4. TextsSound'
    BY DEF TextsSound, ChunksHaveText, CacheTrue, StoreIsCurrent, IndexedTrue, NoTextTrue,
       TextHasRow
  <1>5. CheckSound'
    BY DEF CheckSound, CheckedLooked, PendingScan, Looked, Admitted, FailedSound
  <1>6. VectorsSound'
    BY DEF VectorsSound, NeverBack, TextsBound, HandBehind, VectorsBehind
  <1> QED BY <1>1, <1>2, <1>3, <1>4, <1>5, <1>6

-----------------------------------------------------------------------------
(* What follows when the loop has nothing left to do                       *)

(* The check has come to the file, and no job is to come. *)
LEMMA SettledLooked ==
  ASSUME Sound, Settled, folder, checked
  PROVE  Looked /\ ~Future /\ ~orphan
  BY DEF Sound, LoopSound, OrphanAtWork, CheckSound, CheckedLooked, PendingScan, Settled,
     Future, FutureExtract, FutureChunk, ScanPassed, Spent

(* The row of a file that is there and within the policy says what it is. *)
LEMMA SettledStatus ==
  ASSUME Typed, Sound, Settled, folder, checked, Clean, Admitted
  PROVE  row.hash = disk /\ row.status \in {"indexed", "no_text_found"}
  <1>1. Looked /\ ~Future /\ pc = "idle" /\ window = "none"
    BY SettledLooked DEF Settled
  <1>2. row.hash = disk /\ row.status \notin {"none", "missing"}
    BY <1>1 DEF Looked
  <1>3. row.status \notin {"discovered", "stale"}
    BY <1>1 DEF Sound, WorkSound, WaitingHasWork
  <1>4. row.status # "failed"
    BY <1>1 DEF Sound, CheckSound, FailedSound
  <1>5. row.status # "permission_denied"
    BY <1>2 DEF Sound, RowsSound, HashBound, Tracked
  <1>6. row.status \in FileStatus
    BY Shapes
  <1> QED BY <1>2, <1>3, <1>4, <1>5, <1>6 DEF FileStatus

LEMMA SettledIndexed ==
  ASSUME Typed, ShownInv, Sound, Settled, folder, checked, Clean, Admitted,
         row.status = "indexed"
  PROVE  \E g \in Active : Active = {g} /\ textOf[g] = disk /\ g \in keyword
                           /\ disk \notin Textless
  <1>1. row.hash = disk /\ pc = "idle" /\ window = "none" /\ ~Future
    BY SettledStatus, SettledLooked DEF Settled
  <1>2. Active # {} /\ \A g \in Active : textOf[g] = disk
    BY <1>1 DEF Sound, TextsSound, IndexedTrue, Current, Tracked
  <1>3. \A g, h \in Active : g <= h
    BY DEF ShownInv, ActiveIsNewest, Orderly, Clean, Harmless, Holders
  <1>4. Active \subseteq keyword
    BY <1>1 DEF Sound, WorkSound, KeywordOrWork
  <1>5. PICK g \in Active : TRUE
    BY <1>2
  <1>6. Active = {g}
    BY <1>3, <1>5, FileAssumption DEF Active, Extraction
  <1>7. disk \notin Textless
    BY <1>2, <1>5 DEF Sound, TextsSound, ChunksHaveText, Holders
  <1> QED BY <1>2, <1>4, <1>6, <1>7

LEMMA SettledHidden ==
  ASSUME Typed, ShownInv, Sound, Settled, Clean, row.status \in {"none", "missing"}
  PROVE  Active = {}
  <1>1. CASE row.status = "none"
    BY <1>1 DEF Sound, RowsSound, NoneIsEmpty, Active
  <1>2. CASE row.status = "missing"
    BY <1>2 DEF ShownInv, MissingIsHidden, Orderly, Clean, Harmless, Settled
  <1> QED BY <1>1, <1>2

LEMMA SettledUpToDate ==
  ASSUME Typed, ShownInv, Sound, Settled, folder, checked, Clean
  PROVE  UpToDate
  <1>1. CASE disk = Nothing
    <2>1. row.status \in {"none", "missing"}
      BY <1>1, SettledLooked DEF Looked, Settled
    <2> QED BY <1>1, <2>1, SettledHidden, FileAssumption DEF UpToDate, Version
  <1>2. CASE disk \in Oversize
    <2>1. row = NoRow /\ row.status = "none"
      BY <1>2, SettledLooked DEF Looked, Sound, RowsSound, NoneIsEmpty
    <2> QED BY <1>2, <2>1, SettledHidden, FileAssumption DEF UpToDate, Version
  <1>3. CASE Admitted /\ row.status = "indexed"
    BY <1>3, SettledIndexed DEF UpToDate, Admitted
  <1>4. CASE Admitted /\ row.status = "no_text_found"
    <2>1. Active = {} /\ disk \in Textless
      BY <1>4, SettledStatus DEF Sound, TextsSound, NoTextTrue, Current, Tracked
    <2> QED BY <1>4, <2>1 DEF UpToDate, Admitted
  <1> QED BY <1>1, <1>2, <1>3, <1>4, SettledStatus DEF Admitted

LEMMA SettledVectors ==
  ASSUME Typed, ShownInv, Sound, Settled, folder, checked, Forward, NEW g \in Active
  PROVE  vectors[g] \in {Nothing, textOf[g]}
  <1>1. Clean /\ UpToDate
    BY SettledUpToDate DEF Clean, Forward, Harmless
  <1>2. disk # Nothing /\ textOf[g] = disk
    BY <1>1 DEF UpToDate
  <1>3. textOf[g] = newest /\ newest \in Nat
    BY <1>2, Shapes DEF Sound, VectorsSound, NeverBack
  <1> QED BY <1>3 DEF Sound, VectorsSound, VectorsBehind, Holders

LEMMA SettledForgotten ==
  ASSUME Typed, Sound, Settled, folder, checked, disk \in Oversize,
         "text_kept" \notin lapses
  PROVE  cache = NoEntry
  <1>1. row.status = "none" /\ pc = "idle"
    BY SettledLooked DEF Looked, Settled
  <1>2. ~erased
    BY <1>1 DEF Sound, LoopSound, ErasedInScan
  <1> QED BY <1>1, <1>2 DEF Sound, TextsSound, TextHasRow, Tracked

HIDE DEF At, Goto, Calm, NoLapse, Lapse, Rest, ScanSteps, ExtractSteps, ChunkSteps,
         EmbeddingSteps, WindowStep, DiskStep, diskVars, chunkVars, catalogVars, loopVars,
         historyVars, Nothing, Kind

LEMMA FileSound == Spec => [](Typed /\ ShownInv /\ Sound)
  <1>1. Init => Sound
    BY InitSound
  <1>2. (Typed /\ ShownInv) /\ Sound /\ [Next]_vars => Sound'
    BY NextSound, StutterSound
  <1> QED BY <1>1, <1>2, FileInvariant, PTL DEF Spec

(* Nothing left to do means nothing left out: when the queues are empty and *)
(* the file has not changed since its folder was last checked, the row says *)
(* what the file is and search finds exactly its present text, whatever the *)
(* order in which the scan, the workers, the window, crashes and the disk   *)
(* took their steps (scanner.rs, workers/src, scheduler_host.rs:727-777).   *)
THEOREM PreparationKeepsPromise == Spec => []PreparedAsPromised
  <1>1. Typed /\ ShownInv /\ Sound => PreparedAsPromised
    BY SettledUpToDate DEF PreparedAsPromised, Clean
  <1> QED BY <1>1, FileSound, PTL

(* Then no chunk that search finds has a vector of another text, although  *)
(* the batch takes its texts from the cache and its chunks from the        *)
(* catalog, and both may move in between (embedding.rs:112-161).           *)
THEOREM VectorsAreOfTheirText == Spec => []VectorsMatch
  <1>1. Typed /\ ShownInv /\ Sound => VectorsMatch
    BY SettledVectors DEF VectorsMatch, Forward
  <1> QED BY <1>1, FileSound, PTL

(* And of a file over the size limit no extracted text is left behind      *)
(* (erase_left_out and the eviction after it, scheduler_host.rs:727-748).  *)
THEOREM LeftOutTextIsForgotten == Spec => []LeftOutIsForgotten
  <1>1. Typed /\ ShownInv /\ Sound => LeftOutIsForgotten
    BY SettledForgotten DEF LeftOutIsForgotten
  <1> QED BY <1>1, FileSound, PTL

=============================================================================
