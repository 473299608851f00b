------------------------------ MODULE Folders ------------------------------
(***************************************************************************)
(* The folders a person added and the files the catalog holds for each     *)
(* (db/repo/sources.rs, db/repo/files.rs, app/bootstrap/sources.rs): every *)
(* file belongs to one folder (RFC-064).  A new folder takes in the added  *)
(* folders inside it; a folder may be narrowed to its own files and        *)
(* widened again; startup takes in what an interrupted add left apart.     *)
(*                                                                         *)
(* Three threads meet in the catalog: the window's, which adds, widens,    *)
(* removes and checks; narrowing, in a task of its own; and the            *)
(* preparation loop, which runs one job at a time, scans of whole folders  *)
(* among them.  A step below is one transaction, or one read.              *)
(*                                                                         *)
(* A folder and a file are their canonical paths.  The files on disk stay  *)
(* as they are and are readable, and what becomes of one file's content is *)
(* FileIndex; the extraction cache and the folder's status are left out.   *)
(***************************************************************************)
EXTENDS Integers, Sequences, SequencesExt, FiniteSets

CONSTANTS
  None,      \* no folder
  Folder,    \* folders that may be added
  File,      \* files on disk
  Failing,   \* whether a transaction may fail
  MaxAsked,  \* bound: things asked by the person
  MaxCrash   \* bound: crashes

ASSUME FoldersAssumption ==
  /\ None \notin Folder \union File
  /\ \A p \in Folder \union File : p \in Seq(STRING) /\ p # <<>>
  /\ Folder \intersect File = {}
  /\ Failing \in BOOLEAN /\ MaxAsked \in Nat /\ MaxCrash \in Nat

VARIABLES
  mode,    \* of a folder: "none", "deep" (with its subfolders), "top"
  row,     \* of a folder and a file: the status of the row of files
  seen,    \* folder and file: the row has the folder's scan number
  jobs,    \* folders with a scan queued
  scan,    \* the scan that runs
  window,  \* what the window's thread is in the middle of
  asked,   \* things asked, counted
  crashes, \* crashes, counted
  untidy   \* history: an add was cut short, and nothing put it right since

catalog == <<mode, row, seen, jobs>>
vars == <<catalog, scan, window, asked, crashes, untidy>>

(* "gone" is the status missing of a file that was prepared before.        *)
Status == {"none", "discovered", "indexed", "missing", "gone"}
Marked(status) == CASE status = "discovered" -> "missing"
                    [] status = "indexed" -> "gone"
                    [] OTHER -> status
Restored(status) == CASE status = "missing" -> "discovered"
                      [] status = "gone" -> "indexed"
                      [] OTHER -> status

Idle == [at |-> "idle", folder |-> None, inside |-> {}]
NoScan == [folder |-> None, live |-> FALSE, todo |-> {}, file |-> None,
           known |-> FALSE, row |-> None]

Added == {s \in Folder : mode[s] # "none"}
IsTopLevel(s, f) == Len(f) = Len(s) + 1
Holds(s, f) == IsStrictPrefix(s, f) /\ (mode[s] = "deep" \/ IsTopLevel(s, f))

(* A folder takes in another: it lies above it and covers its subfolders.  *)
CoveredBy(t, s) == s \in Added /\ mode[s] = "deep" /\ IsStrictPrefix(s, t)
Inside(s) == {t \in Added : IsStrictPrefix(s, t)}
Overlaps == {t \in Added : \E s \in Folder : CoveredBy(t, s)}

Init ==
  /\ mode = [s \in Folder |-> "none"]
  /\ row = [s \in Folder |-> [f \in File |-> "none"]]
  /\ seen = {} /\ jobs = {} /\ scan = NoScan
  /\ window = [Idle EXCEPT !.at = "combine"]
  /\ asked = 0 /\ crashes = 0 /\ untidy = FALSE

-----------------------------------------------------------------------------
(* What the transactions do, and what the scan under way makes of it: the  *)
(* folder it scans may be gone, and the row it read may be in another.     *)

ScanLoses(gone) == [scan EXCEPT !.live = @ /\ scan.folder \notin gone]

Deleted(s) ==
  /\ mode' = [mode EXCEPT ![s] = "none"]
  /\ row' = [row EXCEPT ![s] = [f \in File |-> "none"]]
  /\ seen' = {p \in seen : p[1] # s}
  /\ jobs' = jobs \ {s}
  /\ scan' = [ScanLoses({s}) EXCEPT !.row = IF @ = s THEN None ELSE @]

Highest(copies) == CHOOSE s \in copies : \A t \in copies : Len(s) <= Len(t)

(* Mutant: the outer folder's copy is kept, prepared or not.               *)
HighestCopy(copies, f) == Highest({s \in copies : row[s][f] # "none"})

(* Of the rows for one file the prepared one is kept, and of two alike the *)
(* one of the higher folder.                                               *)
KeptCopy(copies, f) ==
  LET held == {s \in copies : row[s][f] # "none"}
      prepared == {s \in held : row[s][f] = "indexed"}
  IN Highest(IF prepared # {} THEN prepared ELSE held)

(* The rows and jobs of the folders inside become the outer one's, not     *)
(* seen by any scan of it.                                                 *)
AbsorbIn(outer, inside) ==
  LET copies == {outer} \union inside
      held(f) == {s \in copies : row[s][f] # "none"}
      kept(f) == IF held(f) = {} THEN None ELSE KeptCopy(copies, f)
  IN /\ mode' = [s \in Folder |-> IF s \in inside THEN "none"
                                  ELSE IF s = outer THEN "deep" ELSE mode[s]]
     /\ row' = [s \in Folder |-> [f \in File |->
                  IF s \in inside THEN "none"
                  ELSE IF s = outer /\ held(f) # {} THEN row[kept(f)][f]
                  ELSE row[s][f]]]
     /\ seen' = {p \in seen : p[1] \notin copies \/ (p[1] = outer /\ kept(p[2]) = outer)}
     /\ jobs' = jobs \ inside
     /\ scan' = [ScanLoses(inside) EXCEPT
                  !.row = IF @ \notin copies THEN @
                          ELSE IF kept(scan.file) = @ THEN outer ELSE None]

Ask == window = Idle /\ asked < MaxAsked /\ asked' = asked + 1

-----------------------------------------------------------------------------
(* The window's thread.                                                    *)

(* A folder that an added one covers is not registered again.              *)
AddSource(s) ==
  /\ Ask /\ s \notin Added /\ ~\E t \in Folder : CoveredBy(s, t)
  /\ mode' = [mode EXCEPT ![s] = "deep"]
  /\ window' = [at |-> IF Inside(s) = {} THEN "queue" ELSE "absorb",
                folder |-> s, inside |-> Inside(s)]
  /\ UNCHANGED <<row, seen, jobs, scan, crashes, untidy>>

(* Mutant: only the folders next below are taken in.                       *)
AbsorbNext ==
  /\ window.at = "absorb"
  /\ AbsorbIn(window.folder, {t \in window.inside :
       ~\E u \in window.inside : IsStrictPrefix(u, t)})
  /\ window' = [window EXCEPT !.at = "queue"]
  /\ UNCHANGED <<asked, crashes, untidy>>

(* What was inside becomes part of the new folder ...                      *)
Absorb ==
  /\ window.at = "absorb"
  /\ AbsorbIn(window.folder, window.inside)
  /\ window' = [window EXCEPT !.at = "queue"]
  /\ UNCHANGED <<asked, crashes, untidy>>

(* ... or the new folder is not left behind, unless that fails too.        *)
AbsorbFails ==
  /\ Failing /\ window.at = "absorb"
  /\ window' = [window EXCEPT !.at = "undo"]
  /\ UNCHANGED <<catalog, scan, asked, crashes, untidy>>

UndoAdd ==
  /\ window.at = "undo" /\ window' = Idle
  /\ \/ Deleted(window.folder) /\ UNCHANGED untidy
     \/ untidy' = TRUE /\ UNCHANGED <<catalog, scan>>
  /\ UNCHANGED <<asked, crashes>>

(* The folder is scanned, in its turn; a second request for it while one   *)
(* is queued scans it twice, which is left out.                            *)
QueueScan ==
  /\ window.at = "queue" /\ window' = Idle
  /\ jobs' = jobs \union {window.folder}
  /\ UNCHANGED <<mode, row, seen, scan, asked, crashes, untidy>>

(* Mutant: a widened folder waits for the next scan of its own accord.     *)
WidenUnscanned(s) ==
  /\ Ask /\ mode[s] = "top"
  /\ AbsorbIn(s, Inside(s))
  /\ window' = Idle
  /\ UNCHANGED <<crashes, untidy>>

(* "This folder and subfolders".                                           *)
WidenSource(s) ==
  /\ Ask /\ mode[s] = "top"
  /\ AbsorbIn(s, Inside(s))
  /\ window' = [Idle EXCEPT !.at = "queue", !.folder = s]
  /\ UNCHANGED <<crashes, untidy>>

RemoveSource(s) ==
  /\ Ask /\ s \in Added
  /\ Deleted(s)
  /\ UNCHANGED <<window, crashes, untidy>>

(* "Check again".                                                          *)
RefreshSource(s) ==
  /\ Ask /\ s \in Added
  /\ jobs' = jobs \union {s}
  /\ UNCHANGED <<mode, row, seen, scan, window, crashes, untidy>>

-----------------------------------------------------------------------------
(* "This folder only", in a task of its own: it may come at any moment     *)
(* after it was asked for a folder of the list.                            *)
NarrowToTopLevel(s) ==
  /\ window.at # "combine" /\ asked < MaxAsked /\ asked' = asked + 1
  /\ mode[s] = "deep" /\ ~(window.at \in {"absorb", "undo"} /\ window.folder = s)
  /\ mode' = [mode EXCEPT ![s] = "top"]
  /\ row' = [row EXCEPT ![s] = [f \in File |-> IF IsTopLevel(s, f) THEN @[f] ELSE "none"]]
  /\ seen' = {p \in seen : p[1] # s \/ IsTopLevel(s, p[2])}
  /\ scan' = [scan EXCEPT !.row =
                IF @ = s /\ ~IsTopLevel(s, scan.file) THEN None ELSE @]
  /\ UNCHANGED <<jobs, window, crashes, untidy>>

-----------------------------------------------------------------------------
(* The loop: a scan of one folder, or the preparation of one file.         *)

(* The folder's record is read once; the walk follows it.                  *)
BeginScan(s) ==
  /\ window.at # "combine" /\ scan = NoScan /\ s \in jobs
  /\ jobs' = jobs \ {s}
  /\ seen' = {p \in seen : p[1] # s}
  /\ scan' = [NoScan EXCEPT !.folder = s, !.live = TRUE,
                            !.todo = {f \in File : Holds(s, f)}]
  /\ UNCHANGED <<mode, row, window, asked, crashes, untidy>>

(* get_by_path; the file is hashed after.                                  *)
LookUp ==
  /\ scan.file = None
  /\ \E f \in scan.todo :
       LET known == scan.live /\ row[scan.folder][f] # "none"
       IN scan' = [scan EXCEPT !.todo = @ \ {f}, !.file = f, !.known = known,
                     !.row = IF known THEN scan.folder ELSE None]
  /\ UNCHANGED <<catalog, window, asked, crashes, untidy>>

FileDone == [scan EXCEPT !.file = None, !.known = FALSE, !.row = None]

(* The row that was read is touched, wherever it is by now.                *)
TouchSeen ==
  /\ scan.file # None /\ scan.known
  /\ scan' = FileDone
  /\ IF scan.row = None THEN UNCHANGED <<row, seen>>
     ELSE /\ row' = [row EXCEPT ![scan.row][scan.file] = Restored(@)]
          /\ seen' = seen \union {<<scan.row, scan.file>>}
  /\ UNCHANGED <<mode, jobs, window, asked, crashes, untidy>>

(* What an insert asks of the catalog: the folder is there, it has no row  *)
(* for the file, and below the top level it still covers its subfolders.   *)
Fits(s, f) == scan.live /\ row[s][f] = "none"
MayInsert(s, f) == Fits(s, f) /\ (IsTopLevel(s, f) \/ mode[s] = "deep")

InsertFile ==
  /\ scan.file # None /\ ~scan.known
  /\ scan' = FileDone
  /\ IF MayInsert(scan.folder, scan.file)
     THEN /\ row' = [row EXCEPT ![scan.folder][scan.file] = "discovered"]
          /\ seen' = seen \union {<<scan.folder, scan.file>>}
     ELSE UNCHANGED <<row, seen>>
  /\ UNCHANGED <<mode, jobs, window, asked, crashes, untidy>>

(* What the scan did not see is marked missing.                            *)
EndScan ==
  /\ scan # NoScan /\ scan.file = None /\ scan.todo = {}
  /\ scan' = NoScan
  /\ row' = IF scan.live
            THEN [row EXCEPT ![scan.folder] = [f \in File |->
                   IF <<scan.folder, f>> \in seen THEN @[f] ELSE Marked(@[f])]]
            ELSE row
  /\ UNCHANGED <<mode, seen, jobs, window, asked, crashes, untidy>>

(* The file's jobs were queued with its row and moved with it.             *)
Prepare(s, f) ==
  /\ window.at # "combine" /\ scan = NoScan
  /\ row[s][f] \in {"discovered", "missing"}
  /\ row' = [row EXCEPT ![s][f] = "indexed"]
  /\ UNCHANGED <<mode, seen, jobs, scan, window, asked, crashes, untidy>>

-----------------------------------------------------------------------------
(* A crash, and the start after it.                                        *)
Crash ==
  /\ crashes < MaxCrash /\ crashes' = crashes + 1
  /\ jobs' = IF scan.live THEN jobs \union {scan.folder} ELSE jobs
  /\ scan' = NoScan
  /\ window' = [Idle EXCEPT !.at = "combine"]
  /\ untidy' = (untidy \/ window.at \in {"absorb", "undo"})
  /\ UNCHANGED <<mode, row, seen, asked>>

(* Each folder that no other covers takes in all that it covers.           *)
CombineOverlapping(top) ==
  /\ window.at = "combine"
  /\ top \in Added \ Overlaps
  /\ LET inside == {t \in Added : CoveredBy(t, top)}
     IN inside # {} /\ AbsorbIn(top, inside)
  /\ UNCHANGED <<window, asked, crashes, untidy>>

(* Then every folder is checked, as it is when combining fails.            *)
CheckAll ==
  /\ window.at = "combine" /\ window' = Idle
  /\ Failing \/ Overlaps = {}
  /\ jobs' = jobs \union Added
  /\ untidy' = (Overlaps # {})
  /\ UNCHANGED <<mode, row, seen, scan, asked, crashes>>

-----------------------------------------------------------------------------
Window ==
  \/ Absorb \/ AbsorbFails \/ UndoAdd \/ QueueScan \/ CheckAll
  \/ \E s \in Folder : CombineOverlapping(s)

Loop ==
  \/ LookUp \/ TouchSeen \/ InsertFile \/ EndScan
  \/ \E s \in Folder : BeginScan(s) \/ \E f \in File : Prepare(s, f)

Person ==
  \E s \in Folder : \/ AddSource(s) \/ WidenSource(s) \/ RemoveSource(s)
                    \/ RefreshSource(s) \/ NarrowToTopLevel(s)

Next == Window \/ Loop \/ Person \/ Crash

Spec == Init /\ [][Next]_vars

(* The window's thread finishes what it began; the loop never rests while  *)
(* there is a job.                                                         *)
FairSpec == Spec /\ WF_vars(Window) /\ WF_vars(Loop)

-----------------------------------------------------------------------------
TypeOK ==
  /\ mode \in [Folder -> {"none", "deep", "top"}]
  /\ row \in [Folder -> [File -> Status]]
  /\ seen \subseteq Folder \X File /\ jobs \subseteq Folder
  /\ scan \in [folder : Folder \union {None}, live : BOOLEAN, todo : SUBSET File,
               file : File \union {None}, known : BOOLEAN,
               row : Folder \union {None}]
  /\ scan.file = None => scan.row = None /\ ~scan.known
  /\ window \in [at : {"idle", "absorb", "undo", "queue", "combine"},
                 folder : Folder \union {None}, inside : SUBSET Folder]
  /\ asked \in 0 .. MaxAsked /\ crashes \in 0 .. MaxCrash /\ untidy \in BOOLEAN

(* Every file belongs to one folder: outside an add, and once startup has  *)
(* put right what an interrupted one left, no folder lies in another that  *)
(* covers it and no file has two rows, whatever scans wrote meanwhile      *)
(* (sources.rs:77-181, 468-528; RFC-064 section 3.3).                      *)
OneFolderPerFile ==
  window.at \in {"idle", "queue"} /\ ~untidy =>
    /\ Overlaps = {}
    /\ \A f \in File : Cardinality({s \in Folder : row[s][f] # "none"}) <= 1

(* The catalog holds a file only for an added folder that covers it: none  *)
(* below a folder narrowed to its own files, also when a scan begun before *)
(* ends after (files.rs:179-225, sources.rs:314-345).                      *)
RowsAreCovered ==
  \A s \in Folder, f \in File : row[s][f] # "none" => s \in Added /\ Holds(s, f)

(* What was prepared for a file stays when folders are added, taken in or  *)
(* widened: only removing and narrowing erase it (sources.rs:193-223).     *)
Prepared(f) == \E s \in Folder : row[s][f] = "indexed"
PreparedStays ==
  [][\/ \E s \in Folder : RemoveSource(s) \/ NarrowToTopLevel(s)
     \/ \A f \in File : Prepared(f) => \E s \in Folder : row'[s][f] \in {"indexed", "gone"}]_vars

(* A file that an added folder covers is prepared in the end, or comes out *)
(* of the folder: also one that an older scan of the outer folder marked   *)
(* missing because it was taken in meanwhile (sources.rs:578-600,          *)
(* 249-286).  After an add that failed and could not be undone, only from  *)
(* the next start on.                                                      *)
Covered(f) == \E s \in Added : Holds(s, f)
CoveredIsPrepared ==
  \A f \in File : Covered(f) /\ ~untidy ~> (Prepared(f) \/ ~Covered(f) \/ untidy)
=============================================================================
