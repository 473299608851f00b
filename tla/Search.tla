------------------------------- MODULE Search -------------------------------
(***************************************************************************)
(* One search, from the submit to the page of results                      *)
(* (app/bootstrap/search.rs; search/engine: hybrid.rs, multilingual.rs,    *)
(* fts5.rs, vector.rs, rrf.rs, snippet.rs, result_trust.rs).  It runs in a *)
(* task of its own and holds the catalog's lock for one statement at a     *)
(* time: between two of its steps files change on disk, are prepared       *)
(* again, and folders are removed or taken in by others.                   *)
(*                                                                         *)
(* What an index finds and how it ranks it is data: `index' gives, for     *)
(* each of the three, the chunks that match the query, best first.  A file *)
(* and a folder are their canonical paths.  A chunk names the version of   *)
(* the file it was cut from.  What prepares the files is FileIndex and     *)
(* what moves them between folders is Folders; here they are the           *)
(* surroundings, reduced to what a search can tell.                        *)
(***************************************************************************)
EXTENDS Integers, Sequences, SequencesExt, FiniteSetsExt

CONSTANTS
  None,       \* no folder, no snippet
  Folder,     \* folders that may be added
  File,       \* files on disk
  KindOf,     \* of a file: its extension
  Paged,      \* files whose positions are pages or paragraphs, not lines
  Warned,     \* files extracted with warnings
  Parts,      \* chunks of one file
  Ids,        \* every chunk, in the order of the ids
  Rankings,   \* orders in which an index may rank what matches
  Requests,   \* what the person may ask for
  Catalogs,   \* what may be prepared when the search begins, as records
  Limit,      \* rows of a page (20)
  Headroom,   \* PER_FILE_CAP_HEADROOM (5)
  Pool,       \* candidates of one index (100)
  Width,      \* candidates kept by the fusion (50)
  RrfScale,   \* a multiple of the ranks' denominators: reciprocals are exact
  Failing,    \* whether a statement may fail
  MaxVersion, \* bound: versions of a file
  MaxChanges  \* bound: changes around the search

RrfK == 60

Version == 1 .. MaxVersion
Status == {"discovered", "stale", "indexed", "missing"}
Chunk == [file : File, version : Version, part : 1 .. Parts]

ASSUME SearchAssumption ==
  /\ None \notin Folder
  /\ KindOf \in [File -> STRING] /\ Paged \subseteq File /\ Warned \subseteq File
  /\ Ids \in Seq(Chunk) /\ ToSet(Ids) = Chunk
  /\ Rankings \subseteq Seq(Chunk)
  /\ \A order \in Rankings : \A i, j \in DOMAIN order : order[i] = order[j] => i = j
  /\ \A r \in Requests : r.mode \in {"Auto", "Exact", "Conceptual"}
  /\ {Limit, Headroom, Pool, Width, Parts, RrfScale} \subseteq Nat \ {0}
  /\ \A rank \in 1 .. Pool : RrfScale % (RrfK + rank) = 0
  /\ \A c \in Catalogs :
       /\ {c.disk, c.cut, c.cached} \subseteq [File -> 0 .. MaxVersion]
       /\ c.status \in [File -> Status] /\ c.embedded \subseteq File
       /\ c.folders \subseteq Folder /\ c.owner \in [File -> c.folders \union {None}]
       /\ \A a, b \in c.folders : ~IsStrictPrefix(a, b)
       /\ \A f \in File : \A s \in c.folders : c.owner[f] = s <=> IsStrictPrefix(s, f)
       /\ \A f \in File : c.owner[f] = None => c.cut[f] = 0 /\ c.cached[f] = 0
  /\ Failing \in BOOLEAN /\ MaxVersion \in Nat /\ MaxChanges \in Nat

VARIABLES
  disk,     \* of a file: the version on disk, 0 when it is gone
  owner,    \* of a file: the folder that holds its row, None without a row
  status,   \* of a file: files.file_status
  cut,      \* of a file: the version whose chunks are active, 0 for none
  embedded, \* files whose active chunks have vectors of the model
  cached,   \* of a file: the version in the extraction cache, 0 for none
  folders,  \* the added folders
  index,    \* of each index: what matches the query, best first
  request,  \* what was asked
  step,     \* where the search stands
  words,    \* candidates by word
  grams,    \* candidates by trigram
  nearest,  \* candidates by vector
  picks,    \* candidates whose rows are still to be made
  found,    \* of a picked chunk: the status of its file at the lookup
  boundary, \* folders the search may read from
  rows,     \* the page
  changes,  \* changes around the search, counted
  before    \* history: disk and rows of the catalog when the search began,
            \* and whether nothing has changed since

around == <<disk, owner, status, cut, embedded, cached, folders, changes>>
search == <<request, step, words, grams, nearest, picks, found, boundary, rows>>
vars == <<around, search, index, before>>

Active(c) == owner[c.file] # None /\ cut[c.file] = c.version
Running == step \notin {"idle", "done", "failed"}

-----------------------------------------------------------------------------
(* Where a search looks.                                                   *)

(* The place is a folder or, with a limit, a folder inside an added one.   *)
InScope(scope, f) ==
  LET root == IF scope.limit = None THEN scope.folder ELSE scope.limit
  IN /\ scope.kinds = {} \/ KindOf[f] \in scope.kinds
     /\ owner[f] = scope.folder
     /\ IsStrictPrefix(root, f)
     /\ scope.subfolders \/ Len(f) = Len(root) + 1

ForMode(mode) ==
  CASE mode = "Auto" -> [keyword |-> Pool, vector |-> Pool, width |-> Width]
    [] mode = "Exact" -> [keyword |-> Pool, vector |-> 0, width |-> Width]
    [] mode = "Conceptual" -> [keyword |-> 0, vector |-> Pool, width |-> Width]

(* Faulty variant: a page of candidates, as if each made a row.            *)
LimitsOfPage(r) ==
  [ForMode(r.mode) EXCEPT !.keyword = Min({@, Limit}), !.width = Limit]

(* Without a model one candidate makes at most one row, and repeats of a   *)
(* file none: the pool is the page with some headroom.                     *)
Limits(r) ==
  LET full == ForMode(r.mode)
      cap == Limit * Headroom
  IN IF r.model THEN full
     ELSE [keyword |-> Min({full.keyword, cap}), vector |-> 0,
           width |-> Min({full.width, cap})]

-----------------------------------------------------------------------------
(* Ranks.                                                                  *)

Take(list, n) == SubSeq(list, 1, Min({n, Len(list)}))
Rank(list, c) == Min({i \in DOMAIN list : list[i] = c})

(* What a list has at these places, in its order.                          *)
Kept(list, places) ==
  LET kept[n \in 0 .. Len(list)] ==
        IF n = 0 THEN <<>>
        ELSE IF n \in places THEN Append(kept[n - 1], list[n]) ELSE kept[n - 1]
  IN kept[Len(list)]

(* A finite set in an order, the first at the head.                        *)
InOrder(S, ahead(_, _)) ==
  LET first(T) == CHOOSE c \in T : \A d \in T \ {c} : ahead(c, d)
      listed[T \in SUBSET S] ==
        IF T = {} THEN <<>> ELSE <<first(T)>> \o listed[T \ {first(T)}]
  IN listed[S]

Weight(list, c) ==
  IF c \in ToSet(list) THEN RrfScale \div (RrfK + Rank(list, c)) ELSE 0

Fused(one, other, n) ==
  LET both == ToSet(one) \union ToSet(other)
      score == [c \in both |-> Weight(one, c) + Weight(other, c)]
      ahead(c, d) == \/ score[c] > score[d]
                     \/ score[c] = score[d] /\ Rank(Ids, c) < Rank(Ids, d)
  IN Take(InOrder(both, ahead), n)

(* Every index is asked with the scope, so fusing brings nothing back.     *)
Matching(order, n) ==
  Take(Kept(order, {i \in DOMAIN order :
                      Active(order[i]) /\ InScope(request.scope, order[i].file)}), n)

(* Faulty variant: the vectors are scanned without the scope.              *)
NearestAnywhere(order, n) ==
  Take(Kept(order, {i \in DOMAIN order :
                      Active(order[i]) /\ order[i].file \in embedded}), n)

(* list_active_for_scan *)
Scanned(c) ==
  Active(c) /\ c.file \in embedded /\ InScope(request.scope, c.file)

Nearest(order, n) == Take(Kept(order, {i \in DOMAIN order : Scanned(order[i])}), n)

FirstOfFile(list, i) == \A j \in 1 .. i - 1 : list[j].file # list[i].file

(* Faulty variant: the last candidate of a file is its row.                *)
PickedLast(list) ==
  Take(Kept(list, {i \in DOMAIN list :
                     \A j \in i + 1 .. Len(list) : list[j].file # list[i].file}), Limit)

(* One row for a file: its best candidate.                                 *)
Picked(list) ==
  Take(Kept(list, {i \in DOMAIN list : FirstOfFile(list, i)}), Limit)

-----------------------------------------------------------------------------
(* What a row says.                                                        *)

(* The boundary resolves the path, which fails for a file that is gone.    *)
Validated(f) == disk[f] # 0 /\ \E s \in boundary : IsStrictPrefix(s, f)

(* Of a paged file the cached text, when it is that of the file on disk;   *)
(* of any other the lines of the file itself.                              *)
CachedText(f) == IF cached[f] = disk[f] THEN cached[f] ELSE 0

Snippet(f) ==
  IF ~Validated(f) THEN None
  ELSE LET text == IF f \in Paged THEN CachedText(f) ELSE disk[f]
       IN IF text = 0 THEN None ELSE text

Warnings(f) == Validated(f) /\ CachedText(f) # 0 /\ f \in Warned

TrustState(said, warned) ==
  CASE said = "indexed" /\ warned -> "PartlyPrepared"
    [] said = "indexed" /\ ~warned -> "Ready"
    [] said = "stale" -> "NeedsUpdate"
    [] said = "missing" -> "FileNotFound"
    [] said = "discovered" -> "StillBeingPrepared"

(* Faulty variant: the catalog's word alone.                               *)
TrustOfRow(f, said, warned) == TrustState(said, warned)

(* The row may be older than the disk: a file that is gone is not found.   *)
TrustFor(f, said, warned) ==
  TrustState(IF disk[f] # 0 THEN said ELSE "missing", warned)

-----------------------------------------------------------------------------
(* The search.                                                             *)

Init ==
  /\ \E c \in Catalogs :
       /\ disk = c.disk /\ status = c.status
       /\ cut = c.cut /\ cached = c.cached /\ embedded = c.embedded
       /\ folders = c.folders /\ owner = c.owner
  /\ index \in [word : Rankings, gram : Rankings, vector : Rankings]
  /\ request \in Requests /\ request.scope.folder \in folders
  /\ step = "idle"
  /\ words = <<>> /\ grams = <<>> /\ nearest = <<>> /\ picks = <<>>
  /\ found = <<>> /\ boundary = {} /\ rows = <<>>
  /\ changes = 0
  /\ before = [disk |-> disk, owner |-> owner, quiet |-> TRUE]

(* The task is started with the model search holds at that moment.         *)
Submit ==
  /\ step = "idle"
  /\ step' = IF Limits(request).keyword > 0 THEN "words" ELSE "vectors"
  /\ before' = [disk |-> disk, owner |-> owner, quiet |-> TRUE]
  /\ UNCHANGED <<around, index, request, words, grams, nearest, picks, found, boundary, rows>>

MatchWords ==
  /\ step = "words"
  /\ words' = Matching(index.word, Limits(request).keyword)
  /\ step' = IF request.cjk THEN "grams" ELSE "vectors"
  /\ UNCHANGED <<around, index, before, request, grams, nearest, picks, found, boundary, rows>>

(* A query in Chinese, Japanese or Korean also asks the trigram index.     *)
MatchGrams ==
  /\ step = "grams"
  /\ grams' = Matching(index.gram, Limits(request).keyword)
  /\ step' = "vectors"
  /\ UNCHANGED <<around, index, before, request, words, nearest, picks, found, boundary, rows>>

Keywords ==
  IF request.cjk THEN Fused(words, grams, Limits(request).keyword) ELSE words

(* The vectors are compared, the lists fused and the page picked.          *)
MatchVectors ==
  /\ step = "vectors"
  /\ nearest' = IF request.model THEN Nearest(index.vector, Limits(request).vector)
                ELSE <<>>
  /\ picks' = Picked(Fused(Keywords, nearest', Limits(request).width))
  /\ step' = "lookup"
  /\ UNCHANGED <<around, index, before, request, words, grams, found, boundary, rows>>

(* One statement reads the rows of all picked chunks.                      *)
LookUp ==
  /\ step = "lookup"
  /\ found' = [c \in {d \in ToSet(picks) : Active(d)} |-> status[c.file]]
  /\ step' = "boundary"
  /\ UNCHANGED <<around, index, before, request, words, grams, nearest, picks, boundary, rows>>

ReadBoundary ==
  /\ step = "boundary"
  /\ boundary' = folders
  /\ step' = "text"
  /\ UNCHANGED <<around, index, before, request, words, grams, nearest, picks, found, rows>>

(* A picked chunk that the lookup did not find makes no row.               *)
RenderText ==
  /\ step = "text" /\ picks # <<>>
  /\ LET c == Head(picks) IN
     IF c \notin DOMAIN found
     THEN picks' = Tail(picks) /\ UNCHANGED <<rows, step>>
     ELSE /\ rows' = Append(rows, [chunk |-> c, snippet |-> Snippet(c.file),
                                   warned |-> Warnings(c.file), trust |-> None])
          /\ step' = "trust"
          /\ UNCHANGED picks
  /\ UNCHANGED <<around, index, before, request, words, grams, nearest, found, boundary>>

RenderTrust ==
  /\ step = "trust"
  /\ LET c == Head(picks) IN
       rows' = [rows EXCEPT ![Len(rows)].trust =
                  TrustFor(c.file, found[c], rows[Len(rows)].warned)]
  /\ picks' = Tail(picks)
  /\ step' = "text"
  /\ UNCHANGED <<around, index, before, request, words, grams, nearest, found, boundary>>

Finish ==
  /\ step = "text" /\ picks = <<>>
  /\ step' = "done"
  /\ UNCHANGED <<around, index, before, request, words, grams, nearest, picks, found, boundary, rows>>

(* A statement, or the embedding of the query, fails: no page, an error.   *)
Fail ==
  /\ Failing /\ step \in {"words", "grams", "vectors", "lookup", "boundary"}
  /\ step' = "failed"
  /\ UNCHANGED <<around, index, before, request, words, grams, nearest, picks, found, boundary, rows>>

-----------------------------------------------------------------------------
(* Meanwhile.                                                              *)

Changed ==
  /\ step \notin {"done", "failed"}
  /\ changes < MaxChanges /\ changes' = changes + 1
  /\ before' = [before EXCEPT !.quiet = FALSE]
  /\ UNCHANGED <<search, index>>

EditFile(f) ==
  /\ Changed
  /\ disk[f] \in 1 .. MaxVersion - 1
  /\ disk' = [disk EXCEPT ![f] = @ + 1]
  /\ UNCHANGED <<owner, status, cut, embedded, cached, folders>>

DeleteFile(f) ==
  /\ Changed
  /\ disk[f] # 0
  /\ disk' = [disk EXCEPT ![f] = 0]
  /\ UNCHANGED <<owner, status, cut, embedded, cached, folders>>

(* A scan finds the file other than it was prepared, or gone, and then     *)
(* takes the chunks of a missing file out of the search.                   *)
ScanFile(f) ==
  /\ Changed
  /\ owner[f] # None
  /\ IF disk[f] = 0
     THEN IF status[f] # "missing"
          THEN status' = [status EXCEPT ![f] = "missing"] /\ UNCHANGED <<cut, embedded>>
          ELSE /\ cut[f] # 0 /\ cut' = [cut EXCEPT ![f] = 0]
               /\ embedded' = embedded \ {f} /\ UNCHANGED status
     ELSE /\ disk[f] # cut[f] /\ status[f] = "indexed"
          /\ status' = [status EXCEPT ![f] = "stale"] /\ UNCHANGED <<cut, embedded>>
  /\ UNCHANGED <<disk, owner, cached, folders>>

ExtractFile(f) ==
  /\ Changed
  /\ owner[f] # None /\ status[f] = "stale" /\ disk[f] # 0 /\ cached[f] # disk[f]
  /\ cached' = [cached EXCEPT ![f] = disk[f]]
  /\ UNCHANGED <<disk, owner, status, cut, embedded, folders>>

ChunkFile(f) ==
  /\ Changed
  /\ owner[f] # None /\ status[f] = "stale" /\ disk[f] # 0 /\ cached[f] = disk[f]
  /\ cut' = [cut EXCEPT ![f] = disk[f]]
  /\ embedded' = embedded \ {f}
  /\ status' = [status EXCEPT ![f] = "indexed"]
  /\ UNCHANGED <<disk, owner, cached, folders>>

EmbedFile(f) ==
  /\ Changed
  /\ owner[f] # None /\ cut[f] # 0 /\ f \notin embedded
  /\ embedded' = embedded \union {f}
  /\ UNCHANGED <<disk, owner, status, cut, cached, folders>>

RemoveFolder(s) ==
  /\ Changed
  /\ s \in folders
  /\ folders' = folders \ {s}
  /\ LET theirs == {f \in File : owner[f] = s} IN
     /\ owner' = [f \in File |-> IF f \in theirs THEN None ELSE owner[f]]
     /\ cut' = [f \in File |-> IF f \in theirs THEN 0 ELSE cut[f]]
     /\ cached' = [f \in File |-> IF f \in theirs THEN 0 ELSE cached[f]]
     /\ embedded' = embedded \ theirs
  /\ UNCHANGED <<disk, status>>

(* A folder added above others takes them and their files in.              *)
TakeIn(outer) ==
  /\ Changed
  /\ outer \notin folders
  /\ LET inside == {s \in folders : IsStrictPrefix(outer, s)} IN
     /\ inside # {}
     /\ folders' = (folders \ inside) \union {outer}
     /\ owner' = [f \in File |-> IF owner[f] \in inside THEN outer ELSE owner[f]]
  /\ UNCHANGED <<disk, status, cut, embedded, cached>>

Meanwhile ==
  \/ \E f \in File : \/ EditFile(f) \/ DeleteFile(f) \/ ScanFile(f)
                     \/ ExtractFile(f) \/ ChunkFile(f) \/ EmbedFile(f)
  \/ \E s \in Folder : RemoveFolder(s) \/ TakeIn(s)

Next ==
  \/ Submit \/ MatchWords \/ MatchGrams \/ MatchVectors \/ LookUp
  \/ ReadBoundary \/ RenderText \/ RenderTrust \/ Finish \/ Fail
  \/ Meanwhile

Spec == Init /\ [][Next]_vars

-----------------------------------------------------------------------------
(* Properties.                                                             *)

TypeOK ==
  /\ disk \in [File -> 0 .. MaxVersion] /\ cut \in [File -> 0 .. MaxVersion]
  /\ cached \in [File -> 0 .. MaxVersion]
  /\ owner \in [File -> Folder \union {None}] /\ folders \subseteq Folder
  /\ status \in [File -> Status]
  /\ embedded \subseteq File /\ boundary \subseteq Folder
  /\ Len(rows) <= Limit
  /\ \A list \in {words, grams, nearest, picks} : ToSet(list) \subseteq Chunk

Better(list, c, d) ==
  /\ c \in ToSet(list)
  /\ d \notin ToSet(list) \/ Rank(list, c) < Rank(list, d)
Dominates(c, d) ==
  /\ \E list \in {words, grams, nearest} : Better(list, c, d)
  /\ \A list \in {words, grams, nearest} : ~Better(list, d, c)

(* No row comes before one that every index ranks at least as high and one *)
(* of them higher, and a file is shown by no chunk another chunk of it is  *)
(* ahead of in this way, whatever changes under the search (hybrid.rs      *)
(* 297-331, rrf.rs: fusion of three indexes in two rounds, then one row    *)
(* per file).                                                              *)
BestFirst ==
  \A i \in DOMAIN rows :
    /\ \A j \in 1 .. i - 1 :
         /\ ~Dominates(rows[i].chunk, rows[j].chunk)
         /\ rows[i].chunk.file # rows[j].chunk.file
    /\ \A c \in ToSet(words) \union ToSet(grams) \union ToSet(nearest) :
         c.file = rows[i].chunk.file => ~Dominates(c, rows[i].chunk)

Found ==
  LET limits == Limits(request)
      asked == (IF limits.keyword > 0 THEN ToSet(index.word) ELSE {})
               \union (IF limits.keyword > 0 /\ request.cjk THEN ToSet(index.gram) ELSE {})
               \union {c \in ToSet(index.vector) : limits.vector > 0 /\ c.file \in embedded}
  IN {c.file : c \in {d \in asked : Active(d) /\ InScope(request.scope, d.file)}}

(* When nothing changes under it, a search shows as many files as it has   *)
(* rows for, or every file that matches: neither the limits of the indexes *)
(* nor the repeats of a file cost a row (hybrid.rs 71-90, 297-331; bounds  *)
(* with no more chunks of a file than the pool has room for).              *)
PageIsFull ==
  step = "done" /\ before.quiet => Len(rows) = Min({Limit, Cardinality(Found)})

(* A row lies in the place and is of a kind that was asked for, also when  *)
(* the folder is taken in by another between two of the queries            *)
(* (search_scope.rs: each of the three applies the scope).                 *)
RowsAreInScope ==
  LET scope == request.scope
      root == IF scope.limit = None THEN scope.folder ELSE scope.limit
  IN \A i \in DOMAIN rows :
       LET f == rows[i].chunk.file IN
       /\ scope.kinds = {} \/ KindOf[f] \in scope.kinds
       /\ IsStrictPrefix(root, f)
       /\ scope.subfolders \/ Len(f) = Len(root) + 1

(* A file that was gone when the search began is not shown as ready and    *)
(* lends no text, one whose folder had been removed makes no row, and the  *)
(* text of a row is no older than the file was then (snippet.rs 211-250,   *)
(* 281-293, 394-417: the catalog and the cache may be behind the disk).    *)
RowsAreTrue ==
  \A i \in DOMAIN rows :
    LET f == rows[i].chunk.file IN
    /\ before.owner[f] # None
    /\ before.disk[f] = 0 => /\ rows[i].snippet = None
                             /\ rows[i].trust \in {"FileNotFound", None}
    /\ rows[i].snippet # None => rows[i].snippet >= before.disk[f]

=============================================================================
