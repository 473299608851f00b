------------------------------- MODULE Window -------------------------------
(***************************************************************************)
(* The window at work: the router (app/src/router.rs) hears one message at *)
(* a time, reads and writes the catalog and the settings file, updates     *)
(* what is shown (AppState) and starts the tasks that answer later, off    *)
(* the update thread.  Tasks end in any order.  A message is either        *)
(* pressed by the user, where the view offers it, or a task's answer.      *)
(*                                                                         *)
(* Each request may fail where the code handles its failure.  A folder is  *)
(* named by its path; the loop that prepares files is SchedulerHost's.     *)
(***************************************************************************)
EXTENDS AppState, Bags

CONSTANTS
  Private,     \* folders that may hold private files
  Plan,        \* what a user sets out to do, by name: the folders chosen
               \* from, the views gone to, the messages sent, and which
               \* requests may fail meanwhile
  MaxTasks     \* bound: tasks in flight when the user acts

ASSUME WindowAssumption ==
  /\ Private \subseteq Dir
  /\ Below \subseteq Dir \X Dir
  /\ \A n \in DOMAIN Plan :
       Plan[n].dirs \subseteq Dir /\ Plan[n].visits \subseteq Views
  /\ IsFiniteSet(File)
  /\ MaxTasks \in Nat

VARIABLES
  ui,       \* what the window shows
  folders,  \* catalog: the added folders
  history,  \* catalog: recent searches
  saved,    \* settings file: whether to remember them
  mistaken, \* of those kept, the ones recorded while the file said not to,
            \* by a read of it that failed (takes part in no guard)
  tasks,    \* bag of tasks started and not yet answered
  plan      \* this user's plan; it does not change

remembered == <<history, saved, mistaken>>
stored == <<folders, remembered>>
vars == <<ui, stored, tasks, plan>>

Mode == {"absent", "covers", "only"}
MayFail(request) == request \in Plan[plan].failing
Uses == Plan[plan].uses

(* Kinds of task.  One made by `Task::done' carries the message itself.    *)
Done(m) == [task |-> "done", message |-> m]
Search(query, record) == [task |-> "search", query |-> query, record |-> record]
Pick(page) == [task |-> "pick", page |-> page]
Reset == [task |-> "reset"]
Rebuild(index) == [task |-> "rebuild", index |-> index]
Narrow(folder) == [task |-> "narrow", folder |-> folder]
Measure == [task |-> "measure"]

One(task) == SetToBag({task})
Copies(task, bag) == IF BagIn(task, bag) THEN bag[task] ELSE 0
InFlight(kind) == {t \in BagToSet(tasks) : t.task = kind}
Sent == {t.message : t \in InFlight("done")}

Init ==
  /\ folders = NoCards
  /\ history = {}
  /\ saved = TRUE
  /\ mistaken = {}
  /\ ui = Opened(folders, saved, history)
  /\ tasks = EmptyBag
  /\ plan \in DOMAIN Plan

-----------------------------------------------------------------------------
(* What a handler does: updates the state by these messages in turn, and   *)
(* leaves these tasks; `rest' are the tasks in flight beside its own.      *)
Shows(ms) == ui' = Updates(ui, ms)
Starts(rest, new) == tasks' = rest (+) new
Ends(rest) == tasks' = rest

(* A message that only changes what is shown.                              *)
ReducedTo == {"QueryChanged", "SearchResultsReady", "SearchError",
  "RemoveFromResults", "SelectResult", "SelectNextResult",
  "SelectPrevResult", "FolderPickerCancelled",
  "SearchLocationCleared", "SearchScopeChanged", "FolderNarrowed",
  "AskRemoveSource", "CancelRemoveSource", "AskNarrowFolder",
  "CancelNarrowFolder", "CancelAddSensitiveFolder",
  "AddSourceFolderPickerCancelled", "SourcesLoaded", "SourceCardsRefreshed",
  "AskResetCatalog", "CancelResetCatalog", "AskRebuild", "CancelRebuild",
  "CatalogResetSucceeded", "StorageDataReady", "StorageMeasurementFailed",
  "OpenRecentSearches", "CloseRecentSearches", "AskClearRecentSearches",
  "CancelClearRecentSearches", "ShowNotice", "ClearNotice", "DismissOverlay"}

Reduce(m, rest) ==
  /\ \/ m.to \in ReducedTo
     \/ m.to = "Switch" /\ m.view # "Storage"
  /\ Shows(<<m>>) /\ Ends(rest)
  /\ UNCHANGED stored

(* A confirmed question, or a pressed notice, becomes the request kept for *)
(* it, which arrives later as a message of its own.                        *)
Confirmed(m) ==
  CASE m.to = "ConfirmAddSensitiveFolder" /\ ui.asked # None ->
         IF ui.asked.origin = "Search"
         THEN [to |-> "FolderPickedConfirmed", path |-> ui.asked.path]
         ELSE [to |-> "AddFolderConfirmed", path |-> ui.asked.path]
    [] m.to = "ConfirmNarrowFolder" /\ ui.narrowing # None ->
         [to |-> "NarrowFolderRequested", folder |-> ui.narrowing]
    [] m.to = "ConfirmRemoveSource" /\ ui.removing # None ->
         [to |-> "SourceRemoved", folder |-> ui.removing]
    [] m.to = "NoticeActionPressed" -> ui.notice.retry
    [] OTHER -> NoRetry

Redispatch(m, rest) ==
  /\ m.to \in {"ConfirmAddSensitiveFolder", "ConfirmNarrowFolder",
               "ConfirmRemoveSource", "NoticeActionPressed"}
  /\ ui' = CASE m.to = "ConfirmAddSensitiveFolder" -> [ui EXCEPT !.asked = None]
             [] m.to = "ConfirmNarrowFolder" -> [ui EXCEPT !.narrowing = None]
             [] m.to = "ConfirmRemoveSource" -> [ui EXCEPT !.removing = None]
             [] OTHER -> NoticeCleared(ui)
  /\ IF Confirmed(m) = NoRetry THEN Ends(rest)
     ELSE Starts(rest, One(Done(Confirmed(m))))
  /\ UNCHANGED stored

-----------------------------------------------------------------------------
(* Searching.                                                              *)

PickerOpened(rest) ==
  IF ui.picking THEN UNCHANGED ui /\ Ends(rest)
  ELSE /\ Shows(<<[to |-> "ChooseFolderRequested"]>>)
       /\ Starts(rest, One(Pick("Search")))

(* Mutant: the page is busy before it is known where to look.              *)
SubmitSearchBusyFirst(m, rest) ==
  /\ m.to = "SubmitSearch"
  /\ UNCHANGED stored
  /\ Shows(<<m>>)
  /\ IF ui.query = None \/ ui.location = None THEN Ends(rest)
     ELSE Starts(rest, One(Search(ui.query, TRUE)))

SubmitSearch(m, rest) ==
  /\ m.to = "SubmitSearch"
  /\ UNCHANGED stored
  /\ CASE ui.query = None -> Shows(<<m>>) /\ Ends(rest)
       [] ui.query # None /\ ui.location # None ->
            Shows(<<m>>) /\ Starts(rest, One(Search(ui.query, TRUE)))
       [] ui.query # None /\ ui.location = None /\ Added(ui.cards) = {} ->
            PickerOpened(rest)
       [] OTHER ->
            Shows(<<[to |-> "SearchFolderChoicesPending"]>>) /\ Ends(rest)

(* The stored searches: one row per query, fewer than max_entries here;    *)
(* and the list of them read again.                                        *)
Upserted(query) == history \union {query}
Listed(entries) == [to |-> "HistoryLoaded", history |-> entries]

(* What reading the settings file gives, and what a later reading of it    *)
(* will find.  A file that cannot be read counts as the defaults, which    *)
(* remember; one that is missing is written with them, and one that cannot *)
(* be parsed is set aside, to be missing.                                  *)
SettingsReads ==
  {[remember |-> saved, left |-> saved]} \union
  {[remember |-> TRUE, left |-> s] :
     s \in IF MayFail("settings") THEN {saved, TRUE} ELSE {}}

(* The results are shown; the search is recorded, or not.                  *)
RecordedWith(m, rest, read, records) ==
  /\ m.to = "SubmitSearchCompleted"
  /\ history' = IF records THEN Upserted(m.query) ELSE history
  /\ saved' = read.left
  /\ mistaken' = IF records /\ read.remember # saved
                 THEN mistaken \union {m.query} ELSE mistaken
  /\ Shows(<<[to |-> "SearchResultsReady", results |-> m.results],
             Listed(history')>>)
  /\ Ends(rest)
  /\ UNCHANGED folders

(* Mutant: whether to record is not asked when the search ends.            *)
RecordedAlways(m, rest) ==
  \E read \in SettingsReads : RecordedWith(m, rest, read, TRUE)

(* A search ended with results; it is kept if the settings, as they are    *)
(* read now, say so, and if it can be written.                             *)
SubmitSearchCompleted(m, rest) ==
  \E read \in SettingsReads, written \in BOOLEAN :
    RecordedWith(m, rest, read, read.remember /\ written)

RetrySearch(m, rest) ==
  /\ m.to = "RetrySearch"
  /\ Shows(<<m>>)
  /\ Starts(rest, One(Done([to |-> "SubmitSearch"])))
  /\ UNCHANGED stored

(* A recent search is put back and run again; this one is not recorded.    *)
SearchAgain(m, rest) ==
  /\ m.to = "SearchAgain"
  /\ UNCHANGED stored
  /\ IF m.query \notin history THEN UNCHANGED ui /\ Ends(rest)
     ELSE /\ Shows(<<[to |-> "QueryChanged", query |-> m.query], m,
                     Listed(history)>>)
          /\ Starts(rest, One(Search(m.query, FALSE)))

Forgotten == history' = {} /\ mistaken' = {}

ConfirmClearRecentSearches(m, rest) ==
  /\ m.to = "ConfirmClearRecentSearches"
  /\ \/ /\ Forgotten
        /\ Shows(<<m, [to |-> "RecentSearchesCleared"],
                   ShowNotice(Plain("RecentSearchesCleared"))>>)
     \/ /\ MayFail("clear") /\ UNCHANGED <<history, mistaken>>
        /\ Shows(<<m, RecentSearchesNotCleared>>)
  /\ Ends(rest)
  /\ UNCHANGED <<folders, saved>>

(* The setting is saved, shown, and turning it off forgets what is kept.   *)
(* It is saved with the other settings, which have just been read.         *)
ToggleRememberRecentSearches(m, rest) ==
  /\ m.to = "ToggleRememberRecentSearches"
  /\ \E read \in SettingsReads, written, cleared \in BOOLEAN :
       /\ written \/ MayFail("save")
       /\ cleared \/ MayFail("clear")
       /\ saved' = IF written THEN m.on ELSE read.left
       /\ IF ~m.on /\ cleared THEN Forgotten ELSE UNCHANGED <<history, mistaken>>
       /\ Shows((IF written THEN << >> ELSE <<SettingNotSaved(m)>>)
                \o <<m>>
                \o IF m.on THEN << >>
                   ELSE IF cleared THEN <<[to |-> "RecentSearchesCleared"]>>
                   ELSE <<RecentSearchesNotCleared>>)
  /\ Ends(rest)
  /\ UNCHANGED folders

(* Opening a result or showing it in its folder: the path is validated     *)
(* against the folders, then handed to the system.                         *)
Launch(m, rest) ==
  /\ m.to \in {"OpenResult", "RevealResult"}
  /\ \/ UNCHANGED ui
     \/ /\ MayFail("launch")
        /\ m.result <= Len(ui.results)
        /\ \E kind \in FileProblems :
             Shows(<<NotLaunched(kind, m, ui.results[m.result])>>)
  /\ Ends(rest)
  /\ UNCHANGED stored

(* Recovery actions that read the catalog: the file may be gone from it,   *)
(* and the catalog may not answer.                                         *)
Recover(m, rest) ==
  /\ m.to \in {"PrepareAgain", "CheckFolder"}
  /\ \/ /\ m.result > Len(ui.results) \/ m.to = "PrepareAgain"
        /\ UNCHANGED ui
     \/ /\ m.result <= Len(ui.results)
        /\ LET file == ui.results[m.result]
           IN \/ Shows(<<NotLaunched("FileCouldNotBeFound", m, file)>>)
              \/ /\ MayFail("recover")
                 /\ Shows(<<RecoveryStorageUnavailable(m, file)>>)
              \/ /\ m.to = "CheckFolder"
                 /\ Shows(<<[to |-> "SourcesLoaded", cards |-> folders]>>)
  /\ Ends(rest)
  /\ UNCHANGED stored

-----------------------------------------------------------------------------
(* Choosing and adding folders.                                            *)

Inner(d) == {e \in Dir : <<e, d>> \in Below}
Outer(d) == {e \in Dir : <<d, e>> \in Below}

(* The added folder that covers a path: itself, or the top one above it.   *)
Covering(d) ==
  LET covers == {e \in Outer(d) : folders[e] = "covers"}
                  \union {e \in {d} : folders[e] # "absent"}
  IN  {e \in covers : Outer(e) \intersect covers = {}}

(* Adding a folder or widening one takes in the added folders inside it.   *)
TakenIn(d) == {e \in Inner(d) : folders[e] # "absent"}
WithFolder(d) ==
  [e \in Dir |-> IF e = d THEN "covers"
                 ELSE IF e \in TakenIn(d) THEN "absent" ELSE folders[e]]
ReportCombined(d) ==
  IF TakenIn(d) = {} THEN << >>
  ELSE <<[to |-> "FoldersCombined", folder |-> d, inner |-> TakenIn(d)]>>
CardsFollow(now) == <<[to |-> "SourceCardsRefreshed", cards |-> now]>>

(* They follow a scan that was queued; one that was not is logged.         *)
ScanReports(now) ==
  {CardsFollow(now)} \union IF MayFail("scan") THEN {<< >>} ELSE {}

AsksFirst(d) == d \in Private /\ Covering(d) = {}

(* The search that opened the picker goes on with the folder chosen.       *)
AfterFolderPicked(rest, pending) ==
  IF pending = None THEN Ends(rest)
  ELSE Starts(rest, One(Done([to |-> "RetrySearch", query |-> pending])))

ChooseSearchFolder(m, rest) ==
  /\ m.to = "ChooseSearchFolder"
  /\ PickerOpened(rest)
  /\ UNCHANGED stored

ExistingSearchFolderChosen(m, rest) ==
  /\ m.to = "ExistingSearchFolderChosen"
  /\ IF ui.cards[m.folder] = "absent" THEN UNCHANGED ui /\ Ends(rest)
     ELSE /\ Shows(<<[to |-> "SearchLocationSelected",
                      place |-> Place(m.folder, None)]>>)
          /\ AfterFolderPicked(rest, ui.pending)
  /\ UNCHANGED stored

(* The search picker's answer, before and after the private-folder         *)
(* question: the folder is reused or added, and the search resumed.        *)
FolderPicked(m, rest) ==
  /\ m.to \in {"FolderPicked", "FolderPickedConfirmed"}
  /\ UNCHANGED remembered
  /\ \/ /\ m.to = "FolderPicked" /\ AsksFirst(m.path)
        /\ Shows(<<[to |-> "AskAddSensitiveFolder",
                    asked |-> Asked(m.path, "Search")]>>)
        /\ Ends(rest) /\ UNCHANGED folders
     \/ /\ m.to = "FolderPickedConfirmed" \/ ~AsksFirst(m.path)
        /\ Covering(m.path) # {}
        /\ \E e \in Covering(m.path), report \in ScanReports(folders) :
             Shows(<<[to |-> "SearchLocationSelected",
                      place |-> Place(e, IF e = m.path THEN None ELSE m.path)]>>
                   \o report)
        /\ AfterFolderPicked(rest, ui.pending) /\ UNCHANGED folders
     \/ /\ m.to = "FolderPickedConfirmed" \/ ~AsksFirst(m.path)
        /\ Covering(m.path) = {}
        /\ folders' = WithFolder(m.path)
        /\ \E report \in ScanReports(folders') :
             Shows(<<[to |-> "SourceAdded", folder |-> m.path]>>
                   \o ReportCombined(m.path)
                   \o <<[to |-> "SearchLocationSelected",
                         place |-> Place(m.path, None)]>>
                   \o report)
        /\ AfterFolderPicked(rest, ui.pending)
     \/ /\ m.to = "FolderPickedConfirmed" \/ ~AsksFirst(m.path)
        /\ Covering(m.path) = {} /\ MayFail("add")
        /\ Shows(<<[to |-> "FolderPickerCancelled"], SearchFolderFailed>>)
        /\ Ends(rest) /\ UNCHANGED folders

SearchFolderPickerUnavailable(m, rest) ==
  /\ m.to = "SearchFolderPickerUnavailable"
  /\ Shows(<<m, SearchPickerUnavailable>>) /\ Ends(rest)
  /\ UNCHANGED stored

(* "Add folder" on Folders: one dialog at a time.                          *)
RequestAddSource(m, rest) ==
  /\ m.to = "RequestAddSource"
  /\ IF ui.adding THEN UNCHANGED ui /\ Ends(rest)
     ELSE Shows(<<m>>) /\ Starts(rest, One(Pick("Sources")))
  /\ UNCHANGED stored

(* The folder picked or typed there; `after' clears the picker's flag.     *)
AddFolderFromPath(path, confirmed, after) ==
  \/ /\ ~confirmed /\ AsksFirst(path)
     /\ Shows(<<[to |-> "AskAddSensitiveFolder",
                 asked |-> Asked(path, "Sources")]>> \o after)
     /\ UNCHANGED folders
  \/ /\ Covering(path) # {}
     /\ Shows(<<ShowNotice(Plain(IF folders[path] # "absent"
                                 THEN "FolderAlreadyAdded"
                                 ELSE "FolderAlreadyIncluded"))>> \o after)
     /\ UNCHANGED folders
  \/ /\ confirmed \/ ~AsksFirst(path)
     /\ Covering(path) = {}
     /\ folders' = WithFolder(path)
     /\ \E queued \in BOOLEAN :
          /\ queued \/ MayFail("scan")
          /\ Shows(<<[to |-> "SourceAdded", folder |-> path]>>
                   \o ReportCombined(path)
                   \o (IF queued THEN CardsFollow(folders')
                                 ELSE <<AddFolderFailed>>) \o after)
  \/ /\ confirmed \/ ~AsksFirst(path)
     /\ MayFail("add")
     /\ Shows(<<AddFolderFailed>> \o after)
     /\ UNCHANGED folders

AddFolder(m, rest) ==
  /\ m.to \in {"AddSourceFolderPicked", "SubmitSourcePath", "AddFolderConfirmed"}
  /\ AddFolderFromPath(m.path, m.to = "AddFolderConfirmed",
       IF m.to = "AddSourceFolderPicked" THEN <<m>> ELSE << >>)
  /\ Ends(rest)
  /\ UNCHANGED remembered

AddSourceFolderPickerUnavailable(m, rest) ==
  /\ m.to = "AddSourceFolderPickerUnavailable"
  /\ Shows(<<m, AddPickerUnavailable>>) /\ Ends(rest)
  /\ UNCHANGED stored

-----------------------------------------------------------------------------
(* What is done to an added folder.                                        *)

(* The row and all below it go first, the card after.                      *)
SourceRemoved(m, rest) ==
  /\ m.to = "SourceRemoved"
  /\ \/ /\ folders' = [folders EXCEPT ![m.folder] = "absent"]
        /\ Shows(<<[to |-> "SourceRemovalSucceeded", folder |-> m.folder]>>)
     \/ /\ MayFail("remove") /\ UNCHANGED folders
        /\ Shows(<<SourceNotRemoved(m.folder)>>)
  /\ Ends(rest)
  /\ UNCHANGED remembered

NarrowFolderRequested(m, rest) ==
  /\ m.to = "NarrowFolderRequested"
  /\ UNCHANGED ui
  /\ Starts(rest, One(Narrow(m.folder)))
  /\ UNCHANGED stored

(* Widening commits before its scan is queued; a failure may come between. *)
WidenFolder(m, rest) ==
  /\ m.to = "WidenFolder"
  /\ \/ /\ folders[m.folder] # "absent"
        /\ folders' = WithFolder(m.folder)
        /\ Shows((IF ui.cards[m.folder] = "absent" THEN << >>
                  ELSE ReportCombined(m.folder)) \o CardsFollow(folders'))
     \/ /\ folders[m.folder] = "absent" \/ MayFail("widen")
        /\ UNCHANGED folders
        /\ Shows(<<FolderNotChecked(m)>> \o CardsFollow(folders))
     \/ /\ folders[m.folder] # "absent" /\ MayFail("widen scan")
        /\ folders' = WithFolder(m.folder)
        /\ Shows(<<FolderNotChecked(m)>> \o CardsFollow(folders'))
  /\ Ends(rest)
  /\ UNCHANGED remembered

SourceRefreshRequested(m, rest) ==
  /\ m.to = "SourceRefreshRequested"
  /\ \/ /\ folders[m.folder] # "absent"
        /\ Shows(<<[to |-> "SourcesLoaded", cards |-> folders]>>)
     \/ /\ folders[m.folder] = "absent" \/ MayFail("refresh")
        /\ Shows(<<FolderNotChecked(m)>>)
  /\ Ends(rest)
  /\ UNCHANGED stored

-----------------------------------------------------------------------------
(* Storage: cleanups on the update thread, the slow work off it.           *)

RunCleanup(m, rest) ==
  /\ m.to \in Cleanups
  /\ \/ Shows(<<ShowNotice(Plain(DoneNotice(m.to)))>>)
     \/ MayFail("cleanup") /\ Shows(<<CleanupDidNotFinish(m)>>)
     \/ MayFail("cleanup") /\ Shows(<<CleanupStorageUnavailable(m)>>)
  /\ Starts(rest, One(Measure))
  /\ UNCHANGED stored

OffThread(m, rest) ==
  /\ \/ m.to = "ConfirmResetCatalog" /\ Starts(rest, One(Reset))
     \/ m.to = "ConfirmRebuild" /\ Starts(rest, One(Rebuild(m.index)))
     \/ /\ \/ m.to = "StorageMeasurementRequested"
           \/ m.to = "Switch" /\ m.view = "Storage"
        /\ Starts(rest, One(Measure))
  /\ Shows(<<m>>)
  /\ UNCHANGED stored

Route(m, rest) ==
  \/ Reduce(m, rest) \/ Redispatch(m, rest)
  \/ SubmitSearch(m, rest) \/ SubmitSearchCompleted(m, rest)
  \/ RetrySearch(m, rest) \/ SearchAgain(m, rest)
  \/ ConfirmClearRecentSearches(m, rest)
  \/ ToggleRememberRecentSearches(m, rest)
  \/ Launch(m, rest) \/ Recover(m, rest)
  \/ ChooseSearchFolder(m, rest) \/ ExistingSearchFolderChosen(m, rest)
  \/ FolderPicked(m, rest) \/ SearchFolderPickerUnavailable(m, rest)
  \/ RequestAddSource(m, rest) \/ AddFolder(m, rest)
  \/ AddSourceFolderPickerUnavailable(m, rest)
  \/ SourceRemoved(m, rest) \/ NarrowFolderRequested(m, rest)
  \/ WidenFolder(m, rest) \/ SourceRefreshRequested(m, rest)
  \/ RunCleanup(m, rest) \/ OffThread(m, rest)

-----------------------------------------------------------------------------
(* What the views offer.  A question hides the rest of its page.           *)

Visible(s) ==
  CASE s.resetting /\ s.view = "Storage" -> "reset"
    [] s.view = "Sources" /\ s.removing # None
         /\ s.cards[s.removing] # "absent" -> "remove"
    [] s.view = "Sources" /\ s.narrowing # None
         /\ s.cards[s.narrowing] = "covers"
         /\ (s.removing = None \/ s.cards[s.removing] = "absent") -> "narrow"
    [] s.clearing /\ s.view = "Settings" -> "clear"
    [] s.rebuilding # "none" /\ ~s.resetting /\ s.view = "Storage" -> "rebuild"
    [] OTHER -> IF s.asked # None /\ s.asked.origin = s.view
                THEN "private" ELSE "none"

(* The buttons of each question; the page under it is not drawn.           *)
ResetAnswers == {[to |-> "ConfirmResetCatalog"], [to |-> "CancelResetCatalog"]}
RemoveAnswers == {[to |-> "ConfirmRemoveSource"], [to |-> "CancelRemoveSource"]}
NarrowAnswers == {[to |-> "ConfirmNarrowFolder"], [to |-> "CancelNarrowFolder"]}
ClearAnswers == {[to |-> "ConfirmClearRecentSearches"],
                 [to |-> "CancelClearRecentSearches"]}
RebuildAnswers(index) == {[to |-> c, index |-> index] :
                            c \in {"ConfirmRebuild", "CancelRebuild"}}
PrivateAnswers == {[to |-> "ConfirmAddSensitiveFolder"],
                   [to |-> "CancelAddSensitiveFolder"]}

Answers(s) ==
  CASE Visible(s) = "reset" -> ResetAnswers
    [] Visible(s) = "remove" -> RemoveAnswers
    [] Visible(s) = "narrow" -> NarrowAnswers
    [] Visible(s) = "clear" -> ClearAnswers
    [] Visible(s) = "rebuild" -> RebuildAnswers(s.rebuilding)
    [] Visible(s) = "private" -> PrivateAnswers
    [] OTHER -> {}

(* The notice: its action when one is stored, and always its dismissal.    *)
NoticeOffers(s) ==
  {[to |-> "ClearNotice"] : n \in {s.notice} \ {NoNotice}}
    \union {[to |-> "NoticeActionPressed"] : r \in {s.notice.retry} \ {NoRetry}}

(* Above every view: tabs, the notice, Escape.                             *)
ShellOffers(s) ==
  {[to |-> "Switch", view |-> v] : v \in Plan[plan].visits \ {s.view}}
    \union {[to |-> "DismissOverlay"]} \union NoticeOffers(s)

(* "Search in": the folders offered or the chip, and the picker.           *)
LocationOffers(s) ==
  {[to |-> "ChooseSearchFolder"] : p \in {s.picking} \ {TRUE}}
    \union IF s.location = None
           THEN {[to |-> "ExistingSearchFolderChosen", folder |-> d] :
                   d \in Added(s.cards)}
           ELSE {[to |-> "SearchLocationCleared"]} \union
                {[to |-> "SearchScopeChanged", below |-> b] :
                   b \in IF LocationIsFolderOnly(s) THEN {}
                         ELSE BOOLEAN \ {s.location.below}}

RecentOffers(s) ==
  IF s.panel
  THEN {[to |-> "CloseRecentSearches"]}
         \union {[to |-> "SearchAgain", query |-> q] : q \in s.listed}
         \union {[to |-> "AskClearRecentSearches"] : h \in {s.listed} \ {{}}}
  ELSE {[to |-> "OpenRecentSearches"] : h \in {s.listed} \ {{}}}

(* The result cards as drawn.                                              *)
Drawn(s) ==
  IF Added(s.cards) # {} /\ ~s.running /\ s.last # None THEN s.results ELSE << >>

(* A card selects its result, and the selected one opens; Enter does too.  *)
CardOffers(s) ==
  {[to |-> "SelectResult", result |-> i] : i \in DOMAIN Drawn(s)}
    \union {[to |-> "RevealResult", result |-> i] :
              i \in {s.selected} \intersect DOMAIN Drawn(s)}
    \union {[to |-> "OpenResult", result |-> i] : i \in {s.selected} \ {0}}

(* What may be done about a result that is not ready.                      *)
RecoveryOffers(s) ==
  {[to |-> a, result |-> i] : i \in DOMAIN Drawn(s),
     a \in {"PrepareAgain", "CheckFolder", "RemoveFromResults"}}

SearchOffers(s) ==
  {[to |-> "QueryChanged", query |-> q] : q \in (Query \union {None}) \ {s.query}}
    \union {[to |-> "SubmitSearch"]}
    \union {[to |-> "SelectNextResult"], [to |-> "SelectPrevResult"]}
    \union LocationOffers(s) \union RecentOffers(s)
    \union CardOffers(s) \union RecoveryOffers(s)

(* The cards of the added folders.                                         *)
FolderOffers(s) ==
  {[to |-> "WidenFolder", folder |-> d] :
              d \in {e \in Dir : s.cards[e] = "only"}}
    \union {[to |-> "AskNarrowFolder", folder |-> d] :
              d \in {e \in Dir : s.cards[e] = "covers"}}
    \union {[to |-> a, folder |-> d] : d \in Added(s.cards),
              a \in {"SourceRefreshRequested", "AskRemoveSource"}}

SourcesOffers(s) ==
  {[to |-> "RequestAddSource"] : a \in {s.adding} \ {TRUE}}
    \union {[to |-> "SubmitSourcePath", path |-> d] : d \in Plan[plan].dirs}
    \union FolderOffers(s)

(* Cleanups, rebuilds and the reset below what the storage holds.          *)
CleanupOffers ==
  {[to |-> c] : c \in Cleanups \union {"AskResetCatalog"}}
    \union {[to |-> "AskRebuild", index |-> x] : x \in {"keyword", "vector"}}
StorageOffers == {[to |-> "StorageMeasurementRequested"]} \union CleanupOffers

SettingsOffers(s) ==
  {[to |-> "ToggleRememberRecentSearches", on |-> ~s.remember],
   [to |-> "AskClearRecentSearches"]}

PageOffers(s) ==
  CASE s.view = "Search" -> SearchOffers(s)
    [] s.view = "Sources" -> SourcesOffers(s)
    [] s.view = "Storage" -> StorageOffers
    [] OTHER -> SettingsOffers(s)

Offered(s) ==
  ShellOffers(s) \union
    IF Visible(s) = "none" THEN PageOffers(s) ELSE Answers(s)

-----------------------------------------------------------------------------
(* What a task may answer.                                                 *)

Found == {l \in UNION {[1 .. n -> File] : n \in 0 .. Cardinality(File)} :
            \A i, j \in DOMAIN l : i # j => l[i] # l[j]}

Ending(t) ==
  CASE t.task = "done" -> {t.message}
    [] t.task = "search" ->
         {[to |-> "SearchError", query |-> q] :
            q \in IF MayFail("search") THEN {t.query} ELSE {}} \union
         IF t.record
         THEN {[to |-> "SubmitSearchCompleted", query |-> t.query, results |-> l] :
                 l \in Found}
         ELSE {[to |-> "SearchResultsReady", results |-> l] : l \in Found}
    [] t.task = "pick" /\ t.page = "Search" ->
         {[to |-> "FolderPicked", path |-> d] : d \in Plan[plan].dirs} \union
         {[to |-> "FolderPickerCancelled"], [to |-> "SearchFolderPickerUnavailable"]}
    [] t.task = "pick" /\ t.page = "Sources" ->
         {[to |-> "AddSourceFolderPicked", path |-> d] : d \in Plan[plan].dirs} \union
         {[to |-> "AddSourceFolderPickerCancelled"],
          [to |-> "AddSourceFolderPickerUnavailable"]}
    [] t.task = "measure" ->
         {[to |-> "StorageDataReady"], [to |-> "StorageMeasurementFailed"]}
    [] OTHER -> {}

Press ==
  /\ BagCardinality(tasks) < MaxTasks
  /\ \E m \in Offered(ui) : m.to \in Uses /\ Route(m, tasks)

Arrive(t) ==
  /\ BagIn(t, tasks)
  /\ \E m \in Ending(t) : Route(m, tasks (-) One(t))

(* Work on a connection of its own; its messages arrive one by one.        *)
Leaves(t, ms) == tasks' = (tasks (-) One(t)) (+) SetToBag({Done(m) : m \in ms})

(* A reset empties the catalog in one transaction, the caches after it; it *)
(* may fail at either.                                                     *)
CatalogEmptied == folders' = NoCards /\ Forgotten
CatalogKept == UNCHANGED <<folders, history, mistaken>>
ResetStops == MayFail("reset") /\ (CatalogEmptied \/ CatalogKept)

RunReset ==
  /\ BagIn(Reset, tasks)
  /\ \/ /\ CatalogEmptied
        /\ Leaves(Reset, {[to |-> "CatalogResetSucceeded"],
                          [to |-> "StorageDataReady"]})
     \/ /\ MayFail("reset") /\ CatalogKept
        /\ Leaves(Reset, {ResetStorageUnavailable})
     \/ /\ ResetStops
        /\ Leaves(Reset, {ResetFailed, [to |-> "SourcesLoaded", cards |-> folders']})
  /\ UNCHANGED <<ui, saved>>

RunRebuild ==
  /\ \E x \in {"keyword", "vector"} :
       /\ BagIn(Rebuild(x), tasks)
       /\ \E m \in {[to |-> "StorageDataReady"]} \union
                   IF MayFail("rebuild")
                   THEN {CleanupDidNotFinish([to |-> "AskRebuild", index |-> x])}
                   ELSE {} :
            Leaves(Rebuild(x), {m})
  /\ UNCHANGED <<ui, stored>>

RunNarrow ==
  /\ \E d \in Dir :
       /\ BagIn(Narrow(d), tasks)
       /\ \/ /\ folders[d] # "absent"
             /\ folders' = [folders EXCEPT ![d] = "only"]
             /\ Leaves(Narrow(d), {[to |-> "FolderNarrowed", folder |-> d],
                  [to |-> "SourceCardsRefreshed", cards |-> folders']})
          \/ /\ folders[d] = "absent" \/ MayFail("narrow")
             /\ UNCHANGED folders
             /\ Leaves(Narrow(d),
                  {CleanupDidNotFinish([to |-> "AskNarrowFolder", folder |-> d]),
                   [to |-> "SourceCardsRefreshed", cards |-> folders]})
  /\ UNCHANGED <<ui, remembered>>

(* The preparation loop reports the cards while it works.                  *)
LoopReports ==
  /\ "LoopReports" \in Uses
  /\ BagCardinality(tasks) < MaxTasks
  /\ tasks' = tasks (+) One(Done([to |-> "SourceCardsRefreshed", cards |-> folders]))
  /\ UNCHANGED <<ui, stored>>

(* The window is closed, or dies, and is opened again.                     *)
Restart ==
  /\ \E read \in SettingsReads :
       ui' = Opened(folders, read.remember, history) /\ saved' = read.left
  /\ tasks' = EmptyBag
  /\ UNCHANGED <<folders, history, mistaken>>

Next ==
  /\ \/ Press
     \/ \E t \in BagToSet(tasks) : Arrive(t)
     \/ RunReset \/ RunRebuild \/ RunNarrow
     \/ LoopReports \/ Restart
  /\ UNCHANGED plan

Spec == Init /\ [][Next]_vars

-----------------------------------------------------------------------------
(* Types.                                                                  *)
TypeOK ==
  /\ folders \in Cards /\ ui.cards \in Cards
  /\ history \subseteq Query /\ ui.listed \subseteq Query
  /\ saved \in BOOLEAN /\ mistaken \subseteq history /\ IsABag(tasks)
  /\ ui.location \in Places \union {None}
  /\ ui.asked \in Questions \union {None}
  /\ ui.results \in Found /\ ui.selected \in 0 .. Cardinality(File)
  /\ ui.query \in Query \union {None} /\ ui.pending \in Query \union {None}

(* A search is shown as running only while one is: no way of leaving one   *)
(* (the folder question, a closed picker, a failure, an entry no longer    *)
(* there) keeps the page busy (router.rs:927-1093, state.rs:1374-1412).    *)
SearchingHasTask ==
  ui.running \/ ui.status = "searching" => InFlight("search") # {}

(* "Try again" on a file problem acts on the file it names, though its     *)
(* retry is an index and the list changes under it (notice.rs:145-148,     *)
(* state.rs:1942-1967).                                                    *)
RetryNamesItsFile ==
  LET n == ui.notice
  IN  n.kind \in FileProblems /\ n.retry.to \in {"OpenResult", "RevealResult"}
        /\ n.retry.result <= Len(ui.results)
        => ui.results[n.retry.result] = n.about

(* Once remembering is turned off, nothing is kept: not by a search in     *)
(* flight either, which reads the settings again when it ends              *)
(* (router.rs:983-1009, RFC-042).  Two exceptions: clearing what was kept  *)
(* may fail, and is reported; and where the settings cannot be read when a *)
(* search ends, the defaults stand in for them, which remember             *)
(* (runtime_storage.rs:140-157): exactly those searches are kept.          *)
OffForgetsAll == ~saved /\ ~MayFail("clear") => history \subseteq mistaken

(* Work that erases starts only in answer to its own question, on screen:  *)
(* no retry of a failed one starts it (notice_retry.rs:12, Task 069).      *)
Question(t) ==
  CASE t.task = "reset" -> "reset"
    [] t.task = "rebuild" -> "rebuild"
    [] t.task = "done" /\ t.message.to = "SourceRemoved" -> "remove"
    [] t.task = "done" /\ t.message.to = "NarrowFolderRequested" -> "narrow"
    [] OTHER -> "none"
Erasing == {t \in BagToSet(tasks) : Question(t) # "none"}
ErasesOnlyAsked ==
  [][\A t \in Erasing' :
       Copies(t, tasks') > Copies(t, tasks) => Visible(ui) = Question(t)]_vars
=============================================================================
