------------------------------- MODULE Notices -------------------------------
(***************************************************************************)
(* The one notice the window shows (ui/src/notice.rs), which messages make *)
(* a problem untrue, and the retry each raise site stores behind the       *)
(* notice's button (app/src/notice_retry.rs).                              *)
(*                                                                         *)
(* A message is a record whose "to" names the variant of `Message'; its    *)
(* payload has a field of its own name.  A notice is its kind, its retry,  *)
(* and (kept by this model only) the file the failed action was about.     *)
(***************************************************************************)
EXTENDS Naturals

CONSTANT None      \* no file, folder, query, location or question

NoRetry == [to |-> "nothing"]

Notice(kind, retry, about) == [kind |-> kind, retry |-> retry, about |-> about]
Plain(kind) == Notice(kind, NoRetry, None)
NoNotice == Plain("none")

(* The four notices of a result that could not be opened or shown.         *)
FileProblems == {"FileCouldNotBeFound", "FileCouldNotBeOpened",
                 "FileNotAllowed", "FileCheckFailed"}

Problems == FileProblems \union
  {"FolderCouldNotBeAdded", "SearchDidNotFinish", "SettingCouldNotBeSaved",
   "CatalogResetFailed", "SourceCouldNotBeRemoved", "RecentSearchesNotCleared",
   "CleanupDidNotFinish", "FolderNotChecked", "StorageUnavailable",
   "FolderPickerDidNotOpen"}

IsProblem(notice) == notice.kind \in Problems

(* What a message reports, for the notices it may end.                     *)
Reported(m) == IF m.to = "ShowNotice" THEN m.notice.kind ELSE m.to

(* The notice a safe cleanup ends with; of the four, two are modelled.     *)
Cleanups == {"CleanSnippets", "CleanTemporaryExtraction"}
DoneNotice(cleanup) ==
  IF cleanup = "CleanSnippets" THEN "PreviewsCleared" ELSE "ExtractedTextCleared"

(* The successes after which a problem is no longer true.                  *)
Resolving(notice) ==
  CASE notice.kind \in FileProblems \union {"SearchDidNotFinish"} ->
         {"SearchResultsReady"}
    [] notice.kind = "FolderCouldNotBeAdded" ->
         {"SourceAdded", "FolderAlreadyAdded", "FolderAlreadyIncluded"}
    [] notice.kind = "CatalogResetFailed" -> {"CatalogResetSucceeded"}
    [] notice.kind = "SourceCouldNotBeRemoved" -> {"SourceRemovalSucceeded"}
    [] notice.kind = "RecentSearchesNotCleared" -> {"RecentSearchesCleared"}
    [] notice.kind = "CleanupDidNotFinish" /\ notice.retry.to \in Cleanups ->
         {DoneNotice(notice.retry.to)}
    [] OTHER -> {}

IsResolvedBy(notice, m) == Reported(m) \in Resolving(notice)

(* Information never replaces a problem; a problem replaces anything.      *)
Raised(shown, notice) ==
  IF ~IsProblem(notice) /\ IsProblem(shown) THEN shown ELSE notice

-----------------------------------------------------------------------------
(* The notice of each failed request: the request itself is the retry, and *)
(* a destructive one is asked about again instead.                         *)
ShowNotice(notice) == [to |-> "ShowNotice", notice |-> notice]
Failed(kind, retry) == ShowNotice(Notice(kind, retry, None))

AddFolderFailed == Failed("FolderCouldNotBeAdded", [to |-> "RequestAddSource"])
SearchFolderFailed ==
  Failed("FolderCouldNotBeAdded", [to |-> "ChooseSearchFolder"])
SearchPickerUnavailable ==
  Failed("FolderPickerDidNotOpen", [to |-> "ChooseSearchFolder"])
AddPickerUnavailable ==
  Failed("FolderPickerDidNotOpen", [to |-> "RequestAddSource"])

(* Opening or showing the result at an index; `launch' is that request.    *)
NotLaunched(kind, launch, file) ==
  LET retry ==
        CASE kind = "FileCouldNotBeFound" -> [to |-> "Switch", view |-> "Sources"]
          [] kind = "FileCouldNotBeOpened" /\ launch.to = "OpenResult" ->
               [to |-> "RevealResult", result |-> launch.result]
          [] kind = "FileCheckFailed" -> launch
          [] OTHER -> NoRetry
  IN  ShowNotice(Notice(kind, retry, file))

RecoveryStorageUnavailable(request, file) ==
  ShowNotice(Notice("StorageUnavailable", request, file))

RecentSearchesNotCleared ==
  Failed("RecentSearchesNotCleared", [to |-> "AskClearRecentSearches"])
SettingNotSaved(change) == Failed("SettingCouldNotBeSaved", change)
CleanupDidNotFinish(retry) == Failed("CleanupDidNotFinish", retry)
CleanupStorageUnavailable(cleanup) == Failed("StorageUnavailable", cleanup)
FolderNotChecked(retry) == Failed("FolderNotChecked", retry)
ResetStorageUnavailable ==
  Failed("StorageUnavailable", [to |-> "AskResetCatalog"])
ResetFailedRetriesAtOnce ==       \* mutant: the retry acts without asking
  Failed("CatalogResetFailed", [to |-> "ConfirmResetCatalog"])
ResetFailed == Failed("CatalogResetFailed", [to |-> "AskResetCatalog"])
SourceNotRemoved(folder) ==
  Failed("SourceCouldNotBeRemoved", [to |-> "AskRemoveSource", folder |-> folder])
SearchFailed(query) ==
  Failed("SearchDidNotFinish", [to |-> "RetrySearch", query |-> query])
=============================================================================
