------------------------------ MODULE AppState ------------------------------
(***************************************************************************)
(* What the window shows, and how one message changes it: `AppState' and   *)
(* its reducer `update' (ui/src/state.rs).  A state is a record; the       *)
(* reducer is the operator Update, whose arms stand in the page they       *)
(* belong to.  Nothing here reads the catalog: the router does (Window).   *)
(*                                                                         *)
(* Left out: themes, text size and language, filters, the keyboard focus   *)
(* and list selection of Folders, counted lines of questions, the model    *)
(* wizard, and everything only drawn.                                      *)
(***************************************************************************)
EXTENDS Notices, FiniteSets, SequencesExt

CONSTANTS
  Dir,       \* folders the user may choose
  Below,     \* <<inner, outer>> for every folder strictly inside another
  File,      \* files a search may find
  Query      \* texts the user may type

Views == {"Search", "Sources", "Storage", "Settings"}

(* A card for each added folder, which says whether it covers subfolders.  *)
Cards == [Dir -> {"absent", "covers", "only"}]
NoCards == [d \in Dir |-> "absent"]
Added(cards) == {d \in Dir : cards[d] # "absent"}

(* Where a search looks: an added folder, limited to one inside it or not. *)
Place(folder, limit) == [folder |-> folder, limit |-> limit, below |-> TRUE]
Places == [folder : Dir, limit : Dir \union {None}, below : BOOLEAN]

(* A private folder the user has been asked about, and the page that asked.*)
Asked(path, origin) == [path |-> path, origin |-> origin]
Questions == [path : Dir, origin : {"Search", "Sources"}]

Opened(cards, remember, history) ==
  [view |-> "Search", notice |-> NoNotice,
   \* the Search page
   query |-> None, last |-> None, running |-> FALSE, status |-> "idle",
   results |-> << >>, selected |-> 0, listed |-> history, panel |-> FALSE,
   \* where it looks
   location |-> None, picking |-> FALSE, pending |-> None,
   \* Folders
   cards |-> cards, adding |-> FALSE, asked |-> None, removing |-> None,
   narrowing |-> None,
   \* Storage and Settings
   resetting |-> FALSE, rebuilding |-> "none", clearing |-> FALSE,
   measuring |-> FALSE, remember |-> remember]

-----------------------------------------------------------------------------
(* Shared by the arms below.                                               *)

Raise(s, notice) == [s EXCEPT !.notice = Raised(s.notice, notice)]
NoticeCleared(s) == [s EXCEPT !.notice = NoNotice]

StatusFor(count) == IF count = 0 THEN "empty" ELSE "ready"

(* Mutant: the notice keeps its index after a row has left the list.       *)
ResultRemovedNoticeKept(s, i) ==
  IF i > Len(s.results) THEN s
  ELSE LET kept == RemoveAt(s.results, i)
       IN  [s EXCEPT !.results = kept, !.selected = 0,
                     !.status = StatusFor(Len(kept))]

(* One row leaves the list, and all that holds an index of it follows.     *)
ResultRemoved(s, i) ==
  IF i > Len(s.results) THEN s
  ELSE LET kept == RemoveAt(s.results, i)
           t == [s EXCEPT
                  !.results = kept,
                  !.selected = IF @ = i THEN 0 ELSE IF @ > i THEN @ - 1 ELSE @,
                  !.status = StatusFor(Len(kept))]
       IN  IF s.notice.kind \in FileProblems THEN NoticeCleared(t) ELSE t

(* The private-folder question closes; nothing has been added.             *)
FolderAddCancelled(s) ==
  LET t == [s EXCEPT !.asked = None]
  IN  IF s.asked # None /\ s.asked.origin = "Search"
      THEN [t EXCEPT !.picking = FALSE, !.pending = None]
      ELSE t

(* Every way the search-in-folder picker ends without a folder.            *)
PickerEnded(s) == [s EXCEPT !.picking = FALSE, !.pending = None]

(* A folder "this folder only" has one scope, whatever was remembered.     *)
LocationIsFolderOnly(s) ==
  /\ s.location # None
  /\ s.location.limit = None
  /\ s.cards[s.location.folder] = "only"

LocationNormalised(s) ==
  IF LocationIsFolderOnly(s) THEN [s EXCEPT !.location.below = FALSE] ELSE s

(* A question is drawn on one view, and closes when the view is left.      *)
ViewLeft(s) ==
  LET t == FolderAddCancelled([s EXCEPT !.removing = None, !.narrowing = None,
                                        !.resetting = FALSE, !.clearing = FALSE])
  IN  IF IsProblem(t.notice) THEN t ELSE NoticeCleared(t)

-----------------------------------------------------------------------------
(* The Search page.                                                        *)
SearchArm(s, m) ==
  CASE m.to \in {"QueryChanged", "RetrySearch"} -> [s EXCEPT !.query = m.query]
    [] m.to = "SubmitSearch" /\ s.query # None ->
         [s EXCEPT !.pending = None, !.last = s.query, !.running = TRUE,
                   !.results = << >>, !.selected = 0, !.status = "searching"]
    [] m.to = "SearchResultsReady" ->
         [s EXCEPT !.results = m.results, !.running = FALSE, !.selected = 0,
                   !.status = StatusFor(Len(m.results))]
    [] m.to = "SearchError" ->
         Raise([s EXCEPT !.running = FALSE, !.status = "problem"],
               SearchFailed(m.query).notice)
    [] m.to = "RemoveFromResults" -> ResultRemoved(s, m.result)
    [] m.to = "SearchAgain" ->
         [s EXCEPT !.panel = FALSE, !.status = "searching"]
    [] OTHER -> s

(* The arrow keys move the selection and stop at either end.               *)
SelectionArm(s, m) ==
  CASE m.to = "SelectResult" -> [s EXCEPT !.selected = m.result]
    [] m.to = "SelectNextResult" ->
         [s EXCEPT !.selected = IF @ < Len(s.results) THEN @ + 1
                                ELSE IF s.results = << >> THEN @
                                ELSE Len(s.results)]
    [] m.to = "SelectPrevResult" /\ s.results # << >> ->
         [s EXCEPT !.selected = IF @ <= 1 THEN 1 ELSE @ - 1]
    [] OTHER -> s

(* A search limited to a subfolder of a narrowed folder has no place left. *)
LimitedInsideLeft(s, d) ==
  LET inside == /\ s.location # None /\ s.location.folder = d
                /\ s.location.limit # None
  IN  [s EXCEPT !.location = IF inside THEN None ELSE @]

(* Where it looks: the picker, the folders offered, the chip.              *)
LocationArm(s, m) ==
  CASE m.to = "ChooseFolderRequested" ->
         [s EXCEPT !.picking = TRUE, !.pending = s.query]
    [] m.to = "SearchFolderChoicesPending" -> [s EXCEPT !.pending = s.query]
    [] m.to \in {"FolderPickerCancelled", "SearchFolderPickerUnavailable"} ->
         PickerEnded(s)
    [] m.to = "SearchLocationSelected" ->
         [s EXCEPT !.picking = FALSE, !.location = m.place]
    [] m.to = "SearchLocationCleared" -> [s EXCEPT !.location = None]
    [] m.to = "SearchScopeChanged" /\ s.location # None ->
         [s EXCEPT !.location.below = m.below]
    [] m.to = "FolderNarrowed" -> LimitedInsideLeft(s, m.folder)
    [] OTHER -> s

(* Folders that were inside one just added or widened are part of it.      *)
Combined(s, parent, inner) ==
  LET held == s.location # None /\ s.location.folder \in inner
      limit == IF s.location.limit # None THEN s.location.limit
               ELSE s.location.folder
      t == [s EXCEPT
             !.cards = [d \in Dir |-> IF d \in inner THEN "absent" ELSE @[d]],
             !.removing = IF @ \in inner THEN None ELSE @,
             !.narrowing = IF @ \in inner THEN None ELSE @,
             !.location = IF held
                          THEN [Place(parent, limit) EXCEPT !.below = s.location.below]
                          ELSE @]
  IN  Raise(t, Plain("FoldersCombined"))

(* The questions of the Folders page; one opening closes another.          *)
FolderQuestionArm(s, m) ==
  CASE m.to = "AskRemoveSource" /\ s.cards[m.folder] # "absent" ->
         [s EXCEPT !.removing = m.folder, !.resetting = FALSE]
    [] m.to = "CancelRemoveSource" -> [s EXCEPT !.removing = None]
    [] m.to = "AskNarrowFolder" /\ s.cards[m.folder] = "covers" ->
         [s EXCEPT !.narrowing = m.folder, !.removing = None,
                   !.resetting = FALSE]
    [] m.to = "CancelNarrowFolder" -> [s EXCEPT !.narrowing = None]
    [] OTHER -> s

(* The Folders page: adding, and the list following the catalog.           *)
FoldersArm(s, m) ==
  CASE m.to = "AskAddSensitiveFolder" ->
         [s EXCEPT !.asked = m.asked, !.removing = None]
    [] m.to = "CancelAddSensitiveFolder" -> FolderAddCancelled(s)
    [] m.to = "RequestAddSource" -> [s EXCEPT !.adding = TRUE]
    [] m.to \in {"AddSourceFolderPicked", "AddSourceFolderPickerCancelled",
                 "AddSourceFolderPickerUnavailable"} ->
         [s EXCEPT !.adding = FALSE]
    [] m.to = "SourceAdded" ->
         Raise([s EXCEPT !.cards[m.folder] = "covers"], Plain("FolderAdded"))
    [] m.to = "SourceRemovalSucceeded" ->
         [s EXCEPT !.cards[m.folder] = "absent"]
    [] m.to = "FoldersCombined" -> Combined(s, m.folder, m.inner)
    [] m.to = "SourcesLoaded" -> [s EXCEPT !.cards = m.cards]
    [] m.to = "SourceCardsRefreshed" ->
         [s EXCEPT !.cards = [d \in Dir |->
            IF "absent" \in {@[d], m.cards[d]} THEN @[d] ELSE m.cards[d]]]
    [] OTHER -> s

(* The questions of the Storage page.                                      *)
StorageQuestionArm(s, m) ==
  CASE m.to = "AskResetCatalog" ->
         [s EXCEPT !.resetting = TRUE, !.removing = None]
    [] m.to \in {"CancelResetCatalog", "ConfirmResetCatalog"} ->
         [s EXCEPT !.resetting = FALSE]
    [] m.to = "AskRebuild" ->
         [s EXCEPT !.rebuilding = m.index, !.resetting = FALSE,
                   !.removing = None]
    [] m.to \in {"CancelRebuild", "ConfirmRebuild"} ->
         [s EXCEPT !.rebuilding = IF @ = m.index THEN "none" ELSE @]
    [] OTHER -> s

(* A reset that has committed leaves the window empty, and nothing is      *)
(* cleared before; the selection is not.                                   *)
ResetArm(s, m) ==
  IF m.to = "CatalogResetSucceeded"
  THEN [s EXCEPT !.cards = NoCards, !.results = << >>, !.listed = {},
                 !.panel = FALSE]
  ELSE s

(* The measurement behind the Storage page.                                *)
StorageArm(s, m) ==
  CASE m.to = "StorageMeasurementRequested" -> [s EXCEPT !.measuring = TRUE]
    [] m.to = "StorageDataReady" -> [s EXCEPT !.measuring = FALSE]
    [] m.to = "StorageMeasurementFailed" ->
         Raise([s EXCEPT !.measuring = FALSE],
               Notice("StorageUnavailable",
                      [to |-> "StorageMeasurementRequested"], None))
    [] OTHER -> s

(* Recent searches and the setting that keeps them.                        *)
HistoryArm(s, m) ==
  CASE m.to = "OpenRecentSearches" -> [s EXCEPT !.panel = TRUE]
    [] m.to = "CloseRecentSearches" -> [s EXCEPT !.panel = FALSE]
    [] m.to = "AskClearRecentSearches" -> [s EXCEPT !.clearing = TRUE]
    [] m.to \in {"CancelClearRecentSearches", "ConfirmClearRecentSearches"} ->
         [s EXCEPT !.clearing = FALSE]
    [] m.to = "RecentSearchesCleared" ->
         [s EXCEPT !.listed = {}, !.panel = FALSE, !.clearing = FALSE]
    [] m.to = "HistoryLoaded" -> [s EXCEPT !.listed = m.history]
    [] m.to = "ToggleRememberRecentSearches" -> [s EXCEPT !.remember = m.on]
    [] OTHER -> s

(* Escape: the innermost open thing closes first.                          *)
Dismissed(s) ==
  CASE s.asked # None -> FolderAddCancelled(s)
    [] s.asked = None /\ s.narrowing # None -> [s EXCEPT !.narrowing = None]
    [] s.asked = None /\ s.narrowing = None /\ s.removing # None ->
         [s EXCEPT !.removing = None]
    [] OTHER ->
         IF s.resetting THEN [s EXCEPT !.resetting = FALSE]
         ELSE IF s.rebuilding # "none" THEN [s EXCEPT !.rebuilding = "none"]
         ELSE IF s.clearing THEN [s EXCEPT !.clearing = FALSE]
         ELSE IF s.notice # NoNotice THEN NoticeCleared(s)
         ELSE IF s.view = "Search" THEN [s EXCEPT !.selected = 0]
         ELSE s

ShellArm(s, m) ==
  CASE m.to = "Switch" -> [s EXCEPT !.view = m.view]
    [] m.to = "ShowNotice" -> Raise(s, m.notice)
    [] m.to = "ClearNotice" -> NoticeCleared(s)
    [] m.to = "DismissOverlay" -> Dismissed(s)
    [] OTHER -> s

(* Every message has one arm that knows it; the others leave s alone.      *)
Apply(s, m) ==
  LET shell == SelectionArm(ShellArm(s, m), m)
      search == HistoryArm(LocationArm(SearchArm(shell, m), m), m)
      folders == FoldersArm(FolderQuestionArm(search, m), m)
  IN  ResetArm(StorageArm(StorageQuestionArm(folders, m), m), m)

Update(s, m) ==
  LET heard == IF IsResolvedBy(s.notice, m) THEN NoticeCleared(s) ELSE s
      applied == Apply(heard, m)
  IN  LocationNormalised(IF applied.view = s.view THEN applied
                         ELSE ViewLeft(applied))

(* The messages of one handler in turn.                                    *)
InTurn(op(_, _), s, ms) ==
  LET after[k \in 0..Len(ms)] == IF k = 0 THEN s ELSE op(after[k - 1], ms[k])
  IN  after[Len(ms)]

Updates(s, ms) == InTurn(Update, s, ms)
=============================================================================
