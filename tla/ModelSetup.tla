----------------------------- MODULE ModelSetup -----------------------------
(***************************************************************************)
(* Setting up the model for search by meaning: the wizard's pages          *)
(* (ui/src/state.rs, app/src/model_flow.rs), the tasks it starts (the      *)
(* folder picker, a download, saving the choice, loading the model for     *)
(* search), and the preparation loop, which is told that the model changed *)
(* and loads its own copy (app/src/scheduler_host.rs).                     *)
(*                                                                         *)
(* The store of downloaded models is ManagedModels; here it either has a   *)
(* current generation or has none.  A check of a folder, a load, a save or *)
(* a download may fail at any time.  Identities are numbers; their         *)
(* exhaustion, progress figures, wording and focus are left out.           *)
(***************************************************************************)
EXTENDS Integers, FiniteSets

CONSTANTS
  None,        \* no folder, no model
  Folder,      \* folders with a model that the user may choose
  Inside,      \* those inside the store of downloaded models
  MaxReady,    \* bound: entries into the Ready page and downloads
  MaxAttempt,  \* bound: attempts at saving a choice
  MaxSignals   \* bound: reports the loop has not read

ASSUME SetupAssumption ==
  /\ None \notin Folder /\ "managed" \notin Folder /\ Inside \subseteq Folder
  /\ MaxReady \in Nat /\ MaxAttempt \in Nat /\ MaxSignals \in Nat

VARIABLES
  page,      \* the wizard's page
  picking,   \* its folder picker is open
  notice,    \* what the button of the notice shown does
  shown,     \* the capability and the kind of model the window shows
  ids,       \* identities given out: entries into Ready, attempts at saving
  tasks,     \* tasks started and not yet answered, and their answers
  store,     \* the saved folder, and whether there is a current generation
  search,    \* the model search holds
  loop,      \* how the loop is replacing its own copy
  signals,   \* reports of a change the loop has not read
  since      \* history: what the loop did since the last report

vars == <<page, picking, notice, shown, ids, tasks, store, search, loop,
          signals, since>>
model == <<store, search, loop>>
reports == <<signals, since>>

Dir == Folder \union {"managed"}   \* what a Ready page may offer
Model == Dir \union {None}
Kind(dir) == IF dir = "managed" THEN "AppManaged" ELSE "UserSupplied"

(* What the window shows, and since when.                                  *)
KeywordOnly == [capability |-> "KeywordOnly", kind |-> None, since |-> "start"]
Hybrid(dir, since_) == [capability |-> "Hybrid", kind |-> Kind(dir), since |-> since_]

(* Pages.                                                                  *)
NoPage == [at |-> "closed"]
Setup(why) == [at |-> why]                       \* NotConfigured, FileMissing
Consent(back) == [at |-> "DownloadConsent", back |-> back]
Downloading(id, back) ==
  [at |-> "Downloading", ready |-> id, back |-> back, cancelling |-> FALSE]
DownloadFailedPage(back) == [at |-> "DownloadFailed", back |-> back]
Checked == [at |-> "Checked"]
Ready(id, dir) ==
  [at |-> "Ready", ready |-> id, dir |-> dir, saving |-> "Idle", attempt |-> 0]

OnSetup == page.at \in {"NotConfigured", "FileMissing"}

(* Tasks, and their answers.  An answer names the task it is of.           *)
PickTask == [task |-> "pick"]
DownloadTask(id) == [task |-> "download", id |-> id]
SaveTask(ready, attempt, dir) ==
  [task |-> "save", ready |-> ready, attempt |-> attempt, dir |-> dir]
LoadTask(ready, attempt) ==
  [task |-> "load", ready |-> ready, attempt |-> attempt, read |-> FALSE,
   found |-> None]
Answer(of, message) == [task |-> "answer", of |-> of, message |-> message]
ByDownload(id) == [by |-> "download", id |-> id]
ByNotice == [by |-> "notice"]
Running(kind) == {t \in tasks : t.task = kind}

(* What startup, search and the loop load (model_resolution.rs).           *)
Resolved ==
  IF store.managed THEN "managed"
  ELSE IF store.dir \in Folder \ Inside THEN store.dir ELSE None
Loads == {Resolved, None}

(* The loop's replacement of its copy: not begun, asked for, or read       *)
(* ("read", with whether a model was found), and whether to begin again.   *)
Settled == [pending |-> "none", found |-> FALSE, again |-> FALSE]

(* report_model_changed. *)
Report == signals' = signals + 1 /\ since' = "reported"

-----------------------------------------------------------------------------
(* Start of the program; what was running before is gone.                  *)

(* The folder is checked for its files; search and the loop then load it,  *)
(* each for itself.                                                        *)
Projected(found) ==
  /\ \/ /\ Resolved # None /\ found
        /\ page' = NoPage
        /\ shown' = Hybrid(Resolved, "start")
     \/ /\ Resolved # None /\ ~found
        /\ page' = Setup("FileMissing")
        /\ shown' = KeywordOnly
     \/ /\ Resolved = None
        /\ page' = Setup("NotConfigured")
        /\ shown' = KeywordOnly

Init ==
  /\ store \in [dir : {None} \union Folder, managed : {FALSE}]
  /\ page = IF Resolved = None THEN Setup("NotConfigured") ELSE Setup("FileMissing")
  /\ shown = KeywordOnly
  /\ search = None
  /\ loop = Settled
  /\ picking = FALSE /\ notice = "none"
  /\ ids = [ready |-> 0, attempt |-> 0]
  /\ tasks = {} /\ signals = 0 /\ since = "taken"

Restart ==
  /\ \E found \in BOOLEAN : Projected(found)
  /\ search' \in Loads
  /\ loop' = Settled
  /\ picking' = FALSE /\ notice' = "none"
  /\ ids' = [ready |-> 0, attempt |-> 0]
  /\ tasks' = {} /\ signals' = 0 /\ since' = "taken"
  /\ UNCHANGED store

-----------------------------------------------------------------------------
(* The pages that choose.  Each message either finds its page or does      *)
(* nothing; the views offer it on its page only.                           *)
DownloadModel ==
  /\ OnSetup
  /\ page' = Consent(page.at)
  /\ UNCHANGED <<picking, notice, shown, ids, tasks, model, reports>>

CancelModelDownload ==
  /\ page.at = "DownloadConsent"
  /\ page' = Setup(page.back)
  /\ UNCHANGED <<picking, notice, shown, ids, tasks, model, reports>>

(* Agreed: the download starts, or the store cannot be opened.             *)
ConfirmModelDownload ==
  /\ page.at = "DownloadConsent" /\ ids.ready < MaxReady
  /\ LET id == ids.ready + 1
     IN /\ ids' = [ids EXCEPT !.ready = id]
        /\ page' = Downloading(id, page.back)
        /\ tasks' \in {tasks \union {DownloadTask(id)},
                      tasks \union {Answer(ByDownload(id), [to |-> "DownloadFailed"])}}
  /\ UNCHANGED <<picking, notice, shown, model, reports>>

(* Asks the latest download to stop; the page waits for it to say it has.  *)
(* It may fail, or complete, at any time after as before.                  *)
CancelDownloadInProgress ==
  /\ page.at = "Downloading" /\ ~page.cancelling
  /\ page' = [page EXCEPT !.cancelling = TRUE]
  /\ UNCHANGED <<picking, notice, shown, ids, tasks, model, reports>>

RetryModelDownload ==
  /\ page.at = "DownloadFailed"
  /\ page' = Consent(page.back)
  /\ UNCHANGED <<picking, notice, shown, ids, tasks, model, reports>>

WizardBack ==
  /\ \/ page.at = "Checked"
     \/ page.at = "Ready" /\ page.saving = "Idle"
  /\ page' = Setup("NotConfigured")
  /\ UNCHANGED <<picking, notice, shown, ids, tasks, model, reports>>

(* Skip, or Escape.                                                        *)
SkipWizard ==
  /\ \/ OnSetup \/ page.at \in {"Checked", "DownloadFailed"}
     \/ page.at = "Ready" /\ page.saving \in {"Failed", "LoadFailed"}
  /\ page' = NoPage
  /\ shown' = KeywordOnly
  /\ UNCHANGED <<picking, notice, ids, tasks, model, reports>>

(* A folder was typed or picked: it is looked at at once, whatever page is *)
(* shown, and the result takes the page's place.                           *)
CheckWizardPath(dir) ==
  \/ page' = Checked /\ UNCHANGED ids
  \/ /\ ids.ready < MaxReady
     /\ ids' = [ids EXCEPT !.ready = @ + 1]
     /\ page' = Ready(ids.ready + 1, dir)

WizardValidate ==
  /\ OnSetup \/ page.at = "Checked"
  /\ \E dir \in Folder : CheckWizardPath(dir)
  /\ UNCHANGED <<picking, notice, shown, tasks, model, reports>>

WizardChooseFolder ==
  /\ OnSetup \/ page.at = "Checked"
  /\ ~picking
  /\ picking' = TRUE /\ tasks' = tasks \union {PickTask}
  /\ UNCHANGED <<page, notice, shown, ids, model, reports>>

PickerAnswers ==
  /\ PickTask \in tasks
  /\ tasks' = tasks \ {PickTask} /\ picking' = FALSE
  /\ \/ UNCHANGED <<page, ids, notice>>                        \* cancelled
     \/ notice' = "pick" /\ UNCHANGED <<page, ids>>            \* unavailable
     \/ \E dir \in Folder : CheckWizardPath(dir) /\ UNCHANGED notice
  /\ UNCHANGED <<shown, model, reports>>

(* A notice's button: pick again, or ask the loop to load again.           *)
NoticeActionPressed ==
  /\ notice # "none"
  /\ notice' = "none"
  /\ tasks' = tasks \union
       {Answer(ByNotice, [to |-> IF notice = "pick" THEN "WizardChooseFolder"
                                 ELSE "RetryModelLoad"])}
  /\ UNCHANGED <<page, picking, shown, ids, model, reports>>

ClearNotice ==
  /\ notice # "none" /\ notice' = "none"
  /\ UNCHANGED <<page, picking, shown, ids, tasks, model, reports>>

NoticeAnswers ==
  /\ \E t \in Running("answer") :
       /\ t.of = ByNotice /\ signals < MaxSignals
       /\ \/ /\ t.message.to = "WizardChooseFolder"
             /\ picking' = TRUE            \* one dialog at a time
             /\ tasks' = (tasks \ {t}) \union {PickTask}
             /\ UNCHANGED <<notice, reports>>
          \/ /\ t.message.to = "RetryModelLoad"
             /\ tasks' = tasks \ {t} /\ notice' = "none"
             /\ Report
             /\ UNCHANGED picking
  /\ UNCHANGED <<page, shown, ids, model>>

-----------------------------------------------------------------------------
(* The download.                                                           *)

(* It ends with a new current generation, or fails or is stopped; it fails *)
(* because search holds a generation, whose lease keeps the store locked.  *)
DownloadEnds ==
  /\ \E t \in Running("download") :
       \/ /\ search # "managed"
          /\ store' = [store EXCEPT !.managed = TRUE]
          /\ tasks' = (tasks \ {t}) \union
                        {Answer(ByDownload(t.id), [to |-> "DownloadAllComplete"])}
       \/ /\ tasks' = (tasks \ {t}) \union {Answer(ByDownload(t.id), [to |-> "DownloadFailed"])}
          /\ UNCHANGED store
  /\ UNCHANGED <<page, picking, notice, shown, ids, search, loop, reports>>

DownloadAllComplete(t) ==
  /\ t.message.to = "DownloadAllComplete"
  /\ page' = IF page.at = "Downloading" THEN Ready(page.ready, "managed") ELSE page

DownloadFailed(t) ==
  /\ t.message.to = "DownloadFailed"
  /\ page' = CASE page.at = "Downloading" /\ page.cancelling -> Consent(page.back)
               [] page.at = "Downloading" /\ ~page.cancelling ->
                    DownloadFailedPage(page.back)
               [] OTHER -> page

DownloadAnswers ==
  /\ \E t \in Running("answer") :
       /\ DownloadAllComplete(t) \/ DownloadFailed(t)
       /\ tasks' = tasks \ {t}
  /\ UNCHANGED <<picking, notice, shown, ids, model, reports>>

-----------------------------------------------------------------------------
(* Saving the choice and loading it for search.                            *)

(* "Use this model", or "Retry" after a save that failed.                  *)
WizardAccept ==
  /\ page.at = "Ready" /\ page.saving \in {"Idle", "Failed"}
  /\ ids.attempt < MaxAttempt
  /\ LET attempt == ids.attempt + 1
     IN /\ ids' = [ids EXCEPT !.attempt = attempt]
        /\ page' = [page EXCEPT !.saving = "InFlight", !.attempt = attempt]
        /\ tasks' = tasks \union {SaveTask(page.ready, attempt, page.dir)}
  /\ UNCHANGED <<picking, notice, shown, model, reports>>

(* The settings file: a chosen folder replaces the one saved; choosing the *)
(* downloaded model only forgets one saved from inside its store.          *)
SaveRuns ==
  /\ \E t \in Running("save") :
       \/ /\ store' = [store EXCEPT !.dir =
                          CASE t.dir # "managed" -> t.dir
                         [] t.dir = "managed" /\ @ \in Inside -> None
                         [] OTHER -> @]
          /\ tasks' = (tasks \ {t}) \union {Answer(t, [to |-> "Saved"])}
       \/ /\ tasks' = (tasks \ {t}) \union {Answer(t, [to |-> "NotSaved"])}
          /\ UNCHANGED store
  /\ UNCHANGED <<page, picking, notice, shown, ids, search, loop, reports>>

Awaited(t) ==
  /\ page.at = "Ready" /\ page.saving = "InFlight"
  /\ page.ready = t.ready /\ page.attempt = t.attempt

(* The loop is told, and the model is loaded for search off the thread.    *)
ActivateModel(rest, t) ==
  /\ tasks' = rest \union {LoadTask(t.ready, t.attempt)}
  /\ Report

(* Mutant: the save is taken for the model being ready for use.            *)
PersistenceCompletedAtOnce ==
  /\ \E t \in Running("answer") :
       /\ t.message.to \in {"Saved", "NotSaved"} /\ signals < MaxSignals
       /\ Awaited(t.of) /\ t.message.to = "Saved"
       /\ shown' = Hybrid(page.dir, "session")
       /\ ActivateModel(tasks \ {t}, t.of)
  /\ UNCHANGED <<page, picking, notice, ids, model>>

ModelPersistenceCompleted ==
  /\ \E t \in Running("answer") :
       /\ t.message.to \in {"Saved", "NotSaved"} /\ signals < MaxSignals
       /\ \/ /\ ~Awaited(t.of)
             /\ tasks' = tasks \ {t} /\ UNCHANGED <<page, reports>>
          \/ /\ Awaited(t.of) /\ t.message.to = "Saved"
             /\ ActivateModel(tasks \ {t}, t.of) /\ UNCHANGED page
          \/ /\ Awaited(t.of) /\ t.message.to = "NotSaved"
             /\ page' = [page EXCEPT !.saving = "Failed"]
             /\ tasks' = tasks \ {t} /\ UNCHANGED reports
  /\ UNCHANGED <<picking, notice, shown, ids, model>>

(* Mutant: the retry loads under an attempt of its own.                    *)
WizardRetryAsNew ==
  /\ page.at = "Ready" /\ page.saving = "LoadFailed"
  /\ signals < MaxSignals /\ ids.attempt < MaxAttempt
  /\ page' = [page EXCEPT !.saving = "InFlight"]
  /\ ids' = [ids EXCEPT !.attempt = @ + 1]
  /\ ActivateModel(tasks, [ready |-> page.ready, attempt |-> ids.attempt + 1])
  /\ UNCHANGED <<picking, notice, shown, model>>

(* "Try again" on the page of a saved model that did not load.             *)
WizardRetryModelLoad ==
  /\ page.at = "Ready" /\ page.saving = "LoadFailed"
  /\ signals < MaxSignals
  /\ page' = [page EXCEPT !.saving = "InFlight"]
  /\ ActivateModel(tasks, page)
  /\ UNCHANGED <<picking, notice, shown, ids, model>>

(* Search's model is resolved and built, then swapped in.                  *)
LoadReads ==
  /\ \E t \in Running("load") :
       /\ ~t.read
       /\ \E found \in Loads :
            tasks' = (tasks \ {t}) \union {[t EXCEPT !.read = TRUE, !.found = found]}
  /\ UNCHANGED <<page, picking, notice, shown, ids, model, reports>>

LoadSwaps ==
  /\ \E t \in Running("load") :
       /\ t.read
       /\ search' = IF t.found = None THEN search ELSE t.found
       /\ tasks' = (tasks \ {t}) \union {Answer(t,
            [to |-> "Activated", activated |-> t.found # None])}
  /\ UNCHANGED <<page, picking, notice, shown, ids, store, loop, reports>>

ModelActivationCompleted ==
  /\ \E t \in Running("answer") :
       /\ t.message.to = "Activated"
       /\ tasks' = tasks \ {t}
       /\ \/ ~Awaited(t.of) /\ UNCHANGED <<page, shown>>
          \/ /\ Awaited(t.of) /\ t.message.activated
             /\ shown' = Hybrid(page.dir, "session")
             /\ page' = NoPage
          \/ /\ Awaited(t.of) /\ ~t.message.activated
             /\ page' = [page EXCEPT !.saving = "LoadFailed"]
             /\ UNCHANGED shown
  /\ UNCHANGED <<picking, notice, ids, model, reports>>

-----------------------------------------------------------------------------
(* The loop.                                                               *)

(* It reads a report: resolving starts, or will again when this one ends.  *)
LoopHears ==
  /\ signals > 0 /\ signals' = signals - 1
  /\ loop' = IF loop.pending = "none" THEN [loop EXCEPT !.pending = "asked"]
             ELSE [loop EXCEPT !.again = TRUE]
  /\ UNCHANGED <<page, picking, notice, shown, ids, tasks, store, search,
                 since>>

ResolutionReads ==
  /\ loop.pending = "asked"
  /\ \E found \in Loads :
       loop' = [loop EXCEPT !.pending = "read", !.found = found # None]
  /\ since' = "read"
  /\ UNCHANGED <<page, picking, notice, shown, ids, tasks, store, search,
                 signals>>

(* The model read is taken, or search by meaning goes on with the old one  *)
(* and a notice with "Try again" says so.                                  *)
Taken ==
  /\ loop.pending = "read"
  /\ since' = IF since = "read" THEN "taken" ELSE since
  /\ notice' = IF loop.found THEN notice ELSE "load"

(* Mutant: a report heard meanwhile is dropped.                            *)
LoopTakesAndForgets ==
  /\ Taken
  /\ loop' = Settled
  /\ UNCHANGED <<page, picking, shown, ids, tasks, store, search, signals>>

LoopTakes ==
  /\ Taken
  /\ loop' = [Settled EXCEPT !.pending = IF loop.again THEN "asked" ELSE "none"]
  /\ UNCHANGED <<page, picking, shown, ids, tasks, store, search, signals>>

-----------------------------------------------------------------------------
Next ==
  \/ DownloadModel \/ CancelModelDownload \/ ConfirmModelDownload
  \/ CancelDownloadInProgress \/ RetryModelDownload
  \/ WizardBack \/ SkipWizard \/ WizardValidate \/ WizardChooseFolder
  \/ PickerAnswers \/ NoticeActionPressed \/ ClearNotice \/ NoticeAnswers
  \/ DownloadEnds \/ DownloadAnswers
  \/ WizardAccept \/ SaveRuns \/ ModelPersistenceCompleted
  \/ WizardRetryModelLoad \/ LoadReads \/ LoadSwaps \/ ModelActivationCompleted
  \/ LoopHears \/ ResolutionReads \/ LoopTakes
  \/ Restart

Spec == Init /\ [][Next]_vars

-----------------------------------------------------------------------------
(* "Search by meaning" turned on during a session is honest: search holds  *)
(* a model from then on (search_model.rs:38-49, model_flow.rs:344-372).    *)
HybridIsHeld ==
  shown.capability = "Hybrid" /\ shown.since = "session" => search # None

(* A page that only waits is waited for: what it waits for is under way or *)
(* has answered, under the identities the page will accept, whatever other *)
(* downloads, saves and pickers do meanwhile (model_flow.rs:276-372).      *)
WaitingIsAnswered ==
  /\ page.at = "Downloading" =>
       \E t \in tasks : \/ t.task = "download" /\ t.id = page.ready
                        \/ /\ t.task = "answer" /\ t.of = ByDownload(page.ready)
                           /\ t.message.to \in {"DownloadAllComplete", "DownloadFailed"}
  /\ page.at = "Ready" /\ page.saving = "InFlight" =>
       \E t \in tasks : \/ t.task \in {"save", "load"} /\ Awaited(t)
                        \/ /\ t.task = "answer"
                           /\ t.message.to \in {"Saved", "NotSaved", "Activated"}
                           /\ Awaited(t.of)

(* The latest change wins: once the loop has no report to read and nothing *)
(* to resolve, it took a model that it read after the last report          *)
(* (scheduler_host.rs:396-399, 440-491).                                   *)
LatestIsResolved ==
  signals = 0 /\ loop.pending = "none" => since = "taken"
=============================================================================
