------------------------------ MODULE MCWindow ------------------------------
(* Instances of Window: what its user sets out to do.  Two folders, one    *)
(* inside the other.                                                       *)
EXTENDS Window

CONSTANTS outer, inner
InnerBelowOuter == {<<inner, outer>>}

Anywhere == {"Switch", "DismissOverlay", "ClearNotice", "NoticeActionPressed"}

(* Looks for files in a folder, and comes back to earlier searches.        *)
Searching ==
  [dirs |-> {inner}, visits |-> {"Search", "Settings"},
   failing |-> {"search", "add", "save", "settings"},
   uses |-> Anywhere \union
     {"QueryChanged", "SubmitSearch", "ChooseSearchFolder",
      "ExistingSearchFolderChosen", "SearchLocationCleared",
      "ConfirmAddSensitiveFolder", "CancelAddSensitiveFolder",
      "OpenRecentSearches", "CloseRecentSearches", "SearchAgain",
      "ToggleRememberRecentSearches", "AskClearRecentSearches",
      "ConfirmClearRecentSearches", "CancelClearRecentSearches"}]

(* Opens the files found, and mends what is wrong with them.               *)
Opening ==
  [dirs |-> {outer}, visits |-> {"Search", "Sources"},
   failing |-> {"launch", "search", "recover"},
   uses |-> Anywhere \union
     {"QueryChanged", "SubmitSearch", "SubmitSourcePath",
      "ExistingSearchFolderChosen", "SearchLocationCleared",
      "SelectResult", "SelectNextResult", "SelectPrevResult",
      "RemoveFromResults", "OpenResult", "RevealResult",
      "PrepareAgain", "CheckFolder"}]

(* Adds and removes two folders that overlap, from both pages.             *)
Overlapping ==
  [dirs |-> {outer, inner}, visits |-> {"Search", "Sources"},
   failing |-> {"narrow", "widen", "scan"},
   uses |-> {"Switch", "NoticeActionPressed", "ChooseSearchFolder",
      "SubmitSourcePath", "ConfirmAddSensitiveFolder",
      "AskRemoveSource", "ConfirmRemoveSource",
      "AskNarrowFolder", "ConfirmNarrowFolder",
      "WidenFolder", "SourceRefreshRequested", "LoopReports"}]

(* Clears, rebuilds and resets what is stored.                             *)
Clearing ==
  [dirs |-> {outer}, visits |-> {"Sources", "Storage", "Search"},
   failing |-> {"remove", "narrow", "cleanup", "reset", "rebuild"},
   uses |-> Anywhere \union
     {"RequestAddSource", "AskRemoveSource", "ConfirmRemoveSource",
      "CancelRemoveSource", "AskNarrowFolder", "ConfirmNarrowFolder",
      "WidenFolder", "CleanSnippets", "CleanTemporaryExtraction",
      "StorageMeasurementRequested",
      "AskResetCatalog", "ConfirmResetCatalog", "CancelResetCatalog",
      "AskRebuild", "ConfirmRebuild", "CancelRebuild"}]

(* Turns remembering off and on where saving it, or clearing, may fail.    *)
Forgetting ==
  [dirs |-> {outer}, visits |-> {"Search", "Settings"},
   failing |-> {"save", "clear", "settings"},
   uses |-> {"Switch", "NoticeActionPressed", "QueryChanged", "SubmitSearch",
      "ChooseSearchFolder", "OpenRecentSearches",
      "ToggleRememberRecentSearches", "AskClearRecentSearches",
      "ConfirmClearRecentSearches"}]

EveryPlan == [searching |-> Searching, opening |-> Opening,
              overlapping |-> Overlapping, clearing |-> Clearing,
              forgetting |-> Forgetting]
=============================================================================
