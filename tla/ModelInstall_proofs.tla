------------------------ MODULE ModelInstall_proofs -------------------------
(***************************************************************************)
(* Proofs about how a model is installed.  About ModelSetup, for any       *)
(* folders and any number of downloads, attempts and reports: the latest   *)
(* change of model is resolved, search by meaning is on only when a model  *)
(* is held, and a waiting page is waited for.  About ModelDelivery, for    *)
(* any number of files, of chunks, of transfers at a time and any room in  *)
(* the channels: only what was checked is promoted, the outcome comes last *)
(* and a cancelled download is not installed.                              *)
(***************************************************************************)
EXTENDS ModelSetup, ModelDelivery, FiniteSetTheorems, SequenceTheorems,
        WellFoundedInduction, TLAPS

(* After a report the loop reads a model again before it rests.            *)
ReportPending ==
  /\ signals \in Nat
  /\ loop \in [pending : {"none", "asked", "read"}, found : BOOLEAN, again : BOOLEAN]
  /\ since \in {"reported", "read", "taken"}
  /\ since = "reported" =>
       \/ signals > 0 \/ loop.pending = "asked"
       \/ loop.pending = "read" /\ loop.again
  /\ since = "read" => loop.pending = "read"

(* An answer that tells of a loaded model, and what the window shows, are  *)
(* of a model that search still holds.                                     *)
Activated(t) ==
  t.task = "answer" /\ t.message.to = "Activated" /\ t.message.activated

HeldSound ==
  /\ HybridIsHeld
  /\ \A t \in tasks : Activated(t) => search # None

-----------------------------------------------------------------------------
(* The loop *)

LEMMA ReportKeeps ==
  ASSUME ReportPending, UNCHANGED loop, Report \/ UNCHANGED reports
  PROVE  ReportPending'
  BY DEF ReportPending, Report, reports

LEMMA LoopKeeps ==
  ASSUME ReportPending, LoopHears \/ ResolutionReads \/ LoopTakes
  PROVE  ReportPending'
  <1>1. CASE LoopHears
    <2>1. signals' = signals - 1 /\ signals' \in Nat /\ since' = since
      BY <1>1 DEF LoopHears, ReportPending
    <2>2. CASE loop.pending = "none"
      <3>1. loop' = [loop EXCEPT !.pending = "asked"]
        BY <1>1, <2>2 DEF LoopHears
      <3> QED BY <2>1, <2>2, <3>1 DEF ReportPending
    <2>3. CASE loop.pending # "none"
      <3>1. loop' = [loop EXCEPT !.again = TRUE]
        BY <1>1, <2>3 DEF LoopHears
      <3> QED BY <2>1, <2>3, <3>1 DEF ReportPending
    <2> QED BY <2>2, <2>3
  <1>2. CASE ResolutionReads
    <2>1. PICK found \in Loads :
            loop' = [loop EXCEPT !.pending = "read", !.found = found # None]
      BY <1>2 DEF ResolutionReads
    <2>2. since' = "read" /\ signals' = signals
      BY <1>2 DEF ResolutionReads
    <2> QED BY <2>1, <2>2 DEF ReportPending
  <1>3. CASE LoopTakes
    <2>1. /\ loop.pending = "read" /\ signals' = signals
          /\ since' = IF since = "read" THEN "taken" ELSE since
          /\ loop' = [Settled EXCEPT !.pending = IF loop.again THEN "asked" ELSE "none"]
      BY <1>3 DEF LoopTakes, Taken
    <2> QED BY <2>1 DEF ReportPending, Settled
  <1> QED BY <1>1, <1>2, <1>3

LEMMA PendingKept ==
  ASSUME ReportPending, [Next]_vars
  PROVE  ReportPending'
  <1>1. CASE LoopHears \/ ResolutionReads \/ LoopTakes
    BY <1>1, LoopKeeps
  <1>2. CASE Restart
    BY <1>2 DEF Restart, ReportPending, Settled
  <1>3. CASE NoticeAnswers
    BY <1>3, ReportKeeps DEF NoticeAnswers, model
  <1>4. CASE ModelPersistenceCompleted
    BY <1>4, ReportKeeps DEF ModelPersistenceCompleted, ActivateModel, model
  <1>5. CASE WizardRetryModelLoad
    BY <1>5, ReportKeeps DEF WizardRetryModelLoad, ActivateModel, model
  <1>6. CASE \/ DownloadModel \/ CancelModelDownload \/ ConfirmModelDownload
             \/ CancelDownloadInProgress \/ RetryModelDownload
             \/ WizardBack \/ SkipWizard \/ WizardValidate \/ WizardChooseFolder
    BY <1>6, ReportKeeps
    DEF model, DownloadModel, CancelModelDownload, ConfirmModelDownload,
        CancelDownloadInProgress, RetryModelDownload, WizardBack, SkipWizard,
        WizardValidate, WizardChooseFolder
  <1>7. CASE \/ PickerAnswers \/ NoticeActionPressed \/ ClearNotice
             \/ DownloadEnds \/ DownloadAnswers \/ WizardAccept \/ SaveRuns
             \/ LoadReads \/ LoadSwaps \/ ModelActivationCompleted
    BY <1>7, ReportKeeps
    DEF model, PickerAnswers, NoticeActionPressed, ClearNotice, DownloadEnds,
        DownloadAnswers, WizardAccept, SaveRuns, LoadReads, LoadSwaps,
        ModelActivationCompleted
  <1>8. CASE UNCHANGED vars
    BY <1>8, ReportKeeps DEF vars, reports
  <1> QED BY <1>1, <1>2, <1>3, <1>4, <1>5, <1>6, <1>7, <1>8 DEF Next

(* However many changes are reported, and whenever, the loop rests only on *)
(* a model it read after the last of them (scheduler_host.rs:440-491).     *)
THEOREM LatestChangeWins == Spec => []LatestIsResolved
  <1>1. Init => ReportPending
    BY DEF Init, ReportPending, Settled
  <1>2. ReportPending /\ [Next]_vars => ReportPending'
    BY PendingKept
  <1>3. ReportPending => LatestIsResolved
    BY DEF ReportPending, LatestIsResolved
  <1> QED BY <1>1, <1>2, <1>3, PTL DEF Spec

-----------------------------------------------------------------------------
(* The model that is held *)

(* Types the steps rely on: of the page, of the identities, of the loads.  *)
Why == {"NotConfigured", "FileMissing"}
DownloadingPage ==
  [at : {"Downloading"}, ready : Nat, back : Why, cancelling : BOOLEAN]
ReadyPage ==
  [at : {"Ready"}, ready : Nat, dir : Dir,
   saving : {"Idle", "InFlight", "Failed", "LoadFailed"}, attempt : Nat]
Page ==
  [at : Why \union {"closed", "Checked"}]
    \union [at : {"DownloadConsent", "DownloadFailed"}, back : Why]
    \union DownloadingPage \union ReadyPage
Load == [task : {"load"}, ready : Nat, attempt : Nat, read : BOOLEAN, found : Model]

LoadsTyped == \A t \in tasks : t.task = "load" => t \in Load
Typed ==
  /\ page \in Page
  /\ ids \in [ready : Nat, attempt : Nat]
  /\ LoadsTyped

LEMMA PageTyped ==
  ASSUME NEW p \in Page
  PROVE  /\ p.at \in Why => p.at # "Downloading" /\ p.at # "Ready"
         /\ p.at = "DownloadConsent" => p.back \in Why
         /\ p.at = "DownloadFailed" => p.back \in Why
         /\ p.at = "Downloading" => p \in DownloadingPage /\ p.back \in Why /\ p.ready \in Nat
         /\ p.at = "Ready" => p \in ReadyPage /\ p.ready \in Nat /\ p.attempt \in Nat
                              /\ p.dir \in Dir
  BY DEF Page, Why, DownloadingPage, ReadyPage

LEMMA PagesTyped ==
  /\ \A why \in Why : Setup(why) \in Page /\ Setup(why).at = why
  /\ \A back \in Why : Consent(back) \in Page /\ Consent(back).at = "DownloadConsent"
  /\ \A back \in Why : /\ DownloadFailedPage(back) \in Page
                       /\ DownloadFailedPage(back).at = "DownloadFailed"
  /\ NoPage \in Page /\ NoPage.at = "closed" /\ Checked \in Page /\ Checked.at = "Checked"
  /\ \A id \in Nat, back \in Why :
       /\ Downloading(id, back) \in Page /\ Downloading(id, back).at = "Downloading"
       /\ Downloading(id, back).ready = id
  /\ \A id \in Nat, dir \in Dir :
       /\ Ready(id, dir) \in Page /\ Ready(id, dir).at = "Ready"
       /\ Ready(id, dir).saving = "Idle"
  <1>1. \A why \in Why : Setup(why) \in Page /\ Setup(why).at = why
    BY DEF Page, Setup
  <1>2. \A back \in Why : Consent(back) \in Page /\ Consent(back).at = "DownloadConsent"
    BY DEF Page, Consent
  <1>3. \A back \in Why : /\ DownloadFailedPage(back) \in Page
                          /\ DownloadFailedPage(back).at = "DownloadFailed"
    BY DEF Page, DownloadFailedPage
  <1>4. NoPage \in Page /\ NoPage.at = "closed" /\ Checked \in Page /\ Checked.at = "Checked"
    BY DEF Page, NoPage, Checked
  <1>5. \A id \in Nat, back \in Why :
          /\ Downloading(id, back) \in Page /\ Downloading(id, back).at = "Downloading"
          /\ Downloading(id, back).ready = id
    BY DEF Page, Downloading, DownloadingPage
  <1>6. \A id \in Nat, dir \in Dir :
          /\ Ready(id, dir) \in Page /\ Ready(id, dir).at = "Ready"
          /\ Ready(id, dir).saving = "Idle"
    BY DEF Page, Ready, ReadyPage
  <1> QED BY <1>1, <1>2, <1>3, <1>4, <1>5, <1>6

(* What marking a page does to it. *)
LEMMA Cancelling ==
  ASSUME NEW p \in DownloadingPage
  PROVE  /\ [p EXCEPT !.cancelling = TRUE] \in Page
         /\ [p EXCEPT !.cancelling = TRUE].at = "Downloading"
         /\ [p EXCEPT !.cancelling = TRUE].ready = p.ready
  BY DEF DownloadingPage, Page

LEMMA Saving ==
  ASSUME NEW p \in ReadyPage, NEW s \in {"Idle", "InFlight", "Failed", "LoadFailed"}
  PROVE  /\ [p EXCEPT !.saving = s] \in Page
         /\ [p EXCEPT !.saving = s].at = "Ready"
         /\ [p EXCEPT !.saving = s].saving = s
         /\ [p EXCEPT !.saving = s].ready = p.ready
         /\ [p EXCEPT !.saving = s].attempt = p.attempt
  <1>1. /\ [p EXCEPT !.saving = s] \in ReadyPage
        /\ [p EXCEPT !.saving = s].at = "Ready"
        /\ [p EXCEPT !.saving = s].saving = s
        /\ [p EXCEPT !.saving = s].ready = p.ready
        /\ [p EXCEPT !.saving = s].attempt = p.attempt
    BY DEF ReadyPage
  <1> QED BY <1>1 DEF Page

LEMMA TasksTyped ==
  /\ PickTask.task = "pick"
  /\ \A id : DownloadTask(id).task = "download" /\ DownloadTask(id).id = id
  /\ \A r, a, d : /\ SaveTask(r, a, d).task = "save"
                  /\ SaveTask(r, a, d).ready = r /\ SaveTask(r, a, d).attempt = a
  /\ \A r, a \in Nat : /\ LoadTask(r, a) \in Load /\ LoadTask(r, a).task = "load"
                       /\ LoadTask(r, a).ready = r /\ LoadTask(r, a).attempt = a
  /\ \A of, m : /\ Answer(of, m).task = "answer"
                /\ Answer(of, m).of = of /\ Answer(of, m).message = m
  <1>1. PickTask.task = "pick" BY DEF PickTask
  <1>2. \A id : DownloadTask(id).task = "download" /\ DownloadTask(id).id = id
    BY DEF DownloadTask
  <1>3. \A r, a, d : /\ SaveTask(r, a, d).task = "save"
                     /\ SaveTask(r, a, d).ready = r /\ SaveTask(r, a, d).attempt = a
    BY DEF SaveTask
  <1>4. \A r, a \in Nat : /\ LoadTask(r, a) \in Load /\ LoadTask(r, a).task = "load"
                          /\ LoadTask(r, a).ready = r /\ LoadTask(r, a).attempt = a
    BY DEF LoadTask, Load, Model
  <1>5. \A of, m : /\ Answer(of, m).task = "answer"
                   /\ Answer(of, m).of = of /\ Answer(of, m).message = m
    BY DEF Answer
  <1> QED BY <1>1, <1>2, <1>3, <1>4, <1>5

LEMMA LoadRead ==
  ASSUME NEW t \in Load, NEW found \in Model
  PROVE  LET read == [t EXCEPT !.read = TRUE, !.found = found]
         IN /\ read \in Load /\ read.task = "load" /\ read.found = found
            /\ read.ready = t.ready /\ read.attempt = t.attempt
  BY DEF Load

LEMMA LoadsAreModels == Loads \subseteq Model
  BY DEF Loads, Model, Dir, Resolved

-----------------------------------------------------------------------------
(* The invariant, and what keeps it *)

SetupInv == Typed /\ HeldSound /\ WaitingIsAnswered

AnswersDownload(t) ==
  \/ t.task = "download" /\ t.id = page.ready
  \/ /\ t.task = "answer" /\ t.of = ByDownload(page.ready)
     /\ t.message.to \in {"DownloadAllComplete", "DownloadFailed"}
AnswersChoice(t) ==
  \/ t.task \in {"save", "load"} /\ Awaited(t)
  \/ /\ t.task = "answer" /\ t.message.to \in {"Saved", "NotSaved", "Activated"}
     /\ Awaited(t.of)
Waits == page.at = "Ready" /\ page.saving = "InFlight"
Harmless(t) == ~Activated(t) /\ (t.task = "load" => t \in Load)

LEMMA WaitingIs ==
  WaitingIsAnswered <=>
    /\ page.at = "Downloading" => \E t \in tasks : AnswersDownload(t)
    /\ Waits => \E t \in tasks : AnswersChoice(t)
  BY DEF WaitingIsAnswered, AnswersDownload, AnswersChoice, Waits

(* A step that leaves the page and what it waits for. *)
LEMMA PageStays ==
  ASSUME SetupInv, UNCHANGED <<page, ids, shown, search>>,
         \A t \in tasks' : t \in tasks \/ Harmless(t),
         page.at = "Downloading" =>
           \A t \in tasks : AnswersDownload(t) => \E u \in tasks' : AnswersDownload(u),
         Waits =>
           \A t \in tasks : AnswersChoice(t) => \E u \in tasks' : AnswersChoice(u)
  PROVE  SetupInv'
  <1>1. Typed'
    BY DEF SetupInv, Typed, LoadsTyped, Harmless
  <1>2. HeldSound'
    BY DEF SetupInv, HeldSound, HybridIsHeld, Harmless, Activated
  <1>3. /\ \A t : AnswersDownload(t)' <=> AnswersDownload(t)
        /\ \A t : AnswersChoice(t)' <=> AnswersChoice(t)
        /\ Waits' <=> Waits
    BY DEF AnswersDownload, AnswersChoice, Waits, Awaited
  <1>4. /\ page.at = "Downloading" => \E t \in tasks' : AnswersDownload(t)'
        /\ Waits => \E t \in tasks' : AnswersChoice(t)'
    BY <1>3, WaitingIs DEF SetupInv
  <1>5. WaitingIsAnswered'
    BY <1>4 DEF WaitingIsAnswered, AnswersDownload, AnswersChoice, Waits
  <1> QED BY <1>1, <1>2, <1>5 DEF SetupInv

(* A step to a page that waits for nothing. *)
LEMMA PageMoves ==
  ASSUME SetupInv, page' \in Page, ids' \in [ready : Nat, attempt : Nat],
         page'.at # "Downloading", ~Waits', UNCHANGED search,
         shown' = shown \/ shown' = KeywordOnly,
         \A t \in tasks' : t \in tasks \/ Harmless(t)
  PROVE  SetupInv'
  <1>1. Typed'
    BY DEF SetupInv, Typed, LoadsTyped, Harmless
  <1>2. HeldSound'
    BY DEF SetupInv, HeldSound, HybridIsHeld, Harmless, Activated, KeywordOnly
  <1>3. WaitingIsAnswered'
    BY DEF WaitingIsAnswered, Waits
  <1> QED BY <1>1, <1>2, <1>3 DEF SetupInv

LEMMA NewTasks ==
  /\ Harmless(PickTask)
  /\ \A id : Harmless(DownloadTask(id))
  /\ \A r, a, d : Harmless(SaveTask(r, a, d))
  /\ \A r, a \in Nat : Harmless(LoadTask(r, a))
  /\ \A of, to : to # "Activated" => Harmless(Answer(of, [to |-> to]))
  BY TasksTyped DEF Harmless, Activated

-----------------------------------------------------------------------------
(* The pages that choose *)

LEMMA ChoosingKeeps ==
  ASSUME SetupInv,
         \/ DownloadModel \/ CancelModelDownload \/ RetryModelDownload
         \/ WizardBack \/ SkipWizard \/ WizardValidate
  PROVE  SetupInv'
  <1>1. page \in Page /\ ids \in [ready : Nat, attempt : Nat]
    BY DEF SetupInv, Typed
  <1>2. UNCHANGED <<tasks, search>>
    BY DEF model, DownloadModel, CancelModelDownload, RetryModelDownload, WizardBack,
       SkipWizard, WizardValidate
  <1>3. shown' = shown \/ shown' = KeywordOnly
    BY DEF DownloadModel, CancelModelDownload, RetryModelDownload, WizardBack,
       SkipWizard, WizardValidate
  <1>4. /\ page' \in Page /\ page'.at # "Downloading" /\ ~Waits'
        /\ ids' \in [ready : Nat, attempt : Nat]
    <2>1. CASE DownloadModel
      BY <1>1, <2>1, PagesTyped DEF DownloadModel, OnSetup, Why, Waits
    <2>2. CASE CancelModelDownload
      <3>1. page.back \in Why /\ page' = Setup(page.back) /\ ids' = ids
        BY <1>1, <2>2, PageTyped DEF CancelModelDownload
      <3> QED BY <1>1, <3>1, PagesTyped DEF Why, Waits
    <2>3. CASE RetryModelDownload
      <3>1. page.back \in Why /\ page' = Consent(page.back) /\ ids' = ids
        BY <1>1, <2>3, PageTyped DEF RetryModelDownload
      <3> QED BY <1>1, <3>1, PagesTyped DEF Waits
    <2>4. CASE WizardBack
      BY <1>1, <2>4, PagesTyped DEF WizardBack, Why, Waits
    <2>5. CASE SkipWizard
      BY <1>1, <2>5, PagesTyped DEF SkipWizard, Waits
    <2>6. CASE WizardValidate
      <3>1. PICK dir \in Folder : CheckWizardPath(dir)
        BY <2>6 DEF WizardValidate
      <3>2. CASE page' = Checked /\ UNCHANGED ids
        BY <1>1, <3>2, PagesTyped DEF Waits
      <3>3. CASE ids' = [ids EXCEPT !.ready = @ + 1] /\ page' = Ready(ids.ready + 1, dir)
        <4>1. dir \in Dir /\ ids.ready + 1 \in Nat
          BY <1>1 DEF Dir
        <4> QED BY <1>1, <3>3, <4>1, PagesTyped DEF Waits
      <3> QED BY <3>1, <3>2, <3>3 DEF CheckWizardPath
    <2> QED BY <2>1, <2>2, <2>3, <2>4, <2>5, <2>6
  <1> QED BY <1>2, <1>3, <1>4, PageMoves

LEMMA ConfirmModelDownloadKeeps ==
  ASSUME SetupInv, ConfirmModelDownload
  PROVE  SetupInv'
  <1> DEFINE id == ids.ready + 1
             failed == Answer(ByDownload(id), [to |-> "DownloadFailed"])
  <1>1. /\ page \in Page /\ ids \in [ready : Nat, attempt : Nat] /\ id \in Nat
        /\ page.back \in Why
    BY PageTyped DEF SetupInv, Typed, ConfirmModelDownload
  <1>2. /\ ids' = [ids EXCEPT !.ready = id] /\ page' = Downloading(id, page.back)
        /\ UNCHANGED <<shown, search>>
    BY DEF ConfirmModelDownload, model
  <1>3. PICK t \in {DownloadTask(id), failed} : tasks' = tasks \union {t}
    BY DEF ConfirmModelDownload
  <1>4. page' \in Page /\ page'.at = "Downloading" /\ page'.ready = id
    BY <1>1, <1>2, PagesTyped
  <1>5. /\ Harmless(t)
        /\ \/ t.task = "download" /\ t.id = id
           \/ /\ t.task = "answer" /\ t.of = ByDownload(id)
              /\ t.message.to = "DownloadFailed"
    BY NewTasks, TasksTyped
  <1>6. Typed'
    BY <1>1, <1>2, <1>3, <1>4, <1>5 DEF SetupInv, Typed, LoadsTyped, Harmless
  <1>7. HeldSound'
    BY <1>2, <1>3, <1>5 DEF SetupInv, HeldSound, HybridIsHeld, Harmless, Activated
  <1>8. WaitingIsAnswered'
    BY <1>3, <1>4, <1>5 DEF WaitingIsAnswered
  <1> QED BY <1>6, <1>7, <1>8 DEF SetupInv

LEMMA CancelDownloadInProgressKeeps ==
  ASSUME SetupInv, CancelDownloadInProgress
  PROVE  SetupInv'
  <1>1. /\ page \in DownloadingPage
        /\ page' = [page EXCEPT !.cancelling = TRUE]
        /\ UNCHANGED <<ids, shown, search, tasks>>
    BY PageTyped DEF SetupInv, Typed, CancelDownloadInProgress, model
  <1>2. page' \in Page /\ page'.at = "Downloading" /\ page'.ready = page.ready
    BY <1>1, Cancelling
  <1>3. Typed' /\ HeldSound'
    BY <1>1, <1>2 DEF SetupInv, Typed, LoadsTyped, HeldSound, HybridIsHeld, Activated
  <1>4. page.at = "Downloading"
    BY DEF CancelDownloadInProgress
  <1>5. WaitingIsAnswered'
    BY <1>1, <1>2, <1>4 DEF SetupInv, WaitingIsAnswered
  <1> QED BY <1>3, <1>5 DEF SetupInv

(* Pickers and notices answer no waiting page. *)
LEMMA OtherAnswers ==
  /\ ~AnswersDownload(PickTask) /\ ~AnswersChoice(PickTask)
  /\ \A t : t.task = "answer" /\ t.message.to \in {"WizardChooseFolder", "RetryModelLoad"}
             => ~AnswersDownload(t) /\ ~AnswersChoice(t)
  BY TasksTyped DEF AnswersDownload, AnswersChoice

LEMMA AskingKeeps ==
  ASSUME SetupInv,
         \/ WizardChooseFolder \/ NoticeActionPressed \/ ClearNotice
         \/ LoopHears \/ ResolutionReads \/ LoopTakes
  PROVE  SetupInv'
  <1>1. UNCHANGED <<page, ids, shown, search>> /\ tasks \subseteq tasks'
    BY DEF WizardChooseFolder, NoticeActionPressed, ClearNotice, LoopHears,
       ResolutionReads, LoopTakes, Taken, model
  <1>2. \A t \in tasks' : t \in tasks \/ Harmless(t)
    <2>1. CASE NoticeActionPressed
      <3> DEFINE to == IF notice = "pick" THEN "WizardChooseFolder" ELSE "RetryModelLoad"
      <3>1. tasks' = tasks \union {Answer(ByNotice, [to |-> to])}
        BY <2>1 DEF NoticeActionPressed
      <3>2. to # "Activated"
        OBVIOUS
      <3> QED BY <3>1, <3>2, NewTasks
    <2>2. CASE WizardChooseFolder
      BY <2>2, NewTasks DEF WizardChooseFolder
    <2>3. CASE ClearNotice \/ LoopHears \/ ResolutionReads \/ LoopTakes
      BY <2>3 DEF ClearNotice, LoopHears, ResolutionReads, LoopTakes
    <2> QED BY <2>1, <2>2, <2>3
  <1> QED BY <1>1, <1>2, PageStays

LEMMA PickerAnswersKeeps ==
  ASSUME SetupInv, PickerAnswers
  PROVE  SetupInv'
  <1>1. /\ tasks' = tasks \ {PickTask} /\ UNCHANGED <<shown, search>>
        /\ page \in Page /\ ids \in [ready : Nat, attempt : Nat]
    BY DEF PickerAnswers, model, SetupInv, Typed
  <1>2. CASE UNCHANGED <<page, ids>>
    BY <1>1, <1>2, OtherAnswers, PageStays
  <1>3. CASE \E dir \in Folder : CheckWizardPath(dir)
    <2>1. PICK dir \in Folder : CheckWizardPath(dir)
      BY <1>3
    <2>2. /\ page' \in Page /\ page'.at # "Downloading" /\ ~Waits'
          /\ ids' \in [ready : Nat, attempt : Nat]
      <3>1. CASE page' = Checked /\ UNCHANGED ids
        BY <1>1, <3>1, PagesTyped DEF Waits
      <3>2. CASE ids' = [ids EXCEPT !.ready = @ + 1] /\ page' = Ready(ids.ready + 1, dir)
        <4>1. dir \in Dir /\ ids.ready + 1 \in Nat
          BY <1>1 DEF Dir
        <4> QED BY <1>1, <3>2, <4>1, PagesTyped DEF Waits
      <3> QED BY <2>1, <3>1, <3>2 DEF CheckWizardPath
    <2> QED BY <1>1, <2>2, PageMoves
  <1> QED BY <1>2, <1>3 DEF PickerAnswers

LEMMA NoticeAnswersKeeps ==
  ASSUME SetupInv, NoticeAnswers
  PROVE  SetupInv'
  <1>1. PICK t \in Running("answer") :
          \/ /\ t.message.to = "WizardChooseFolder"
             /\ tasks' = (tasks \ {t}) \union {PickTask}
          \/ /\ t.message.to = "RetryModelLoad"
             /\ tasks' = tasks \ {t}
    BY DEF NoticeAnswers
  <1>2. UNCHANGED <<page, ids, shown, search>>
    BY DEF NoticeAnswers, model
  <1>3. t \in tasks /\ t.task = "answer"
    BY <1>1 DEF Running
  <1>4. ~AnswersDownload(t) /\ ~AnswersChoice(t)
    BY <1>1, <1>3, OtherAnswers
  <1>5. \A u \in tasks' : u \in tasks \/ Harmless(u)
    BY <1>1, NewTasks
  <1> QED BY <1>1, <1>2, <1>4, <1>5, PageStays

-----------------------------------------------------------------------------
(* The download *)

LEMMA DownloadEndsKeeps ==
  ASSUME SetupInv, DownloadEnds
  PROVE  SetupInv'
  <1>1. PICK t \in Running("download") :
          \E to \in {"DownloadAllComplete", "DownloadFailed"} :
            tasks' = (tasks \ {t}) \union {Answer(ByDownload(t.id), [to |-> to])}
    BY DEF DownloadEnds
  <1>2. PICK to \in {"DownloadAllComplete", "DownloadFailed"} :
          tasks' = (tasks \ {t}) \union {Answer(ByDownload(t.id), [to |-> to])}
    BY <1>1
  <1> DEFINE answer == Answer(ByDownload(t.id), [to |-> to])
  <1>3. UNCHANGED <<page, ids, shown, search>>
    BY DEF DownloadEnds
  <1>4. t \in tasks /\ t.task = "download"
    BY <1>1 DEF Running
  <1>5. ~AnswersChoice(t) /\ (AnswersDownload(t) => AnswersDownload(answer))
    BY <1>4, TasksTyped DEF AnswersChoice, AnswersDownload
  <1>6. Harmless(answer)
    BY NewTasks
  <1> HIDE DEF answer
  <1>7. \A u \in tasks' : u \in tasks \/ Harmless(u)
    BY <1>2, <1>6 DEF answer
  <1>8. answer \in tasks' /\ \A u \in tasks : u = t \/ u \in tasks'
    BY <1>2 DEF answer
  <1> QED BY <1>3, <1>5, <1>7, <1>8, PageStays

LEMMA DownloadAnswersKeeps ==
  ASSUME SetupInv, DownloadAnswers
  PROVE  SetupInv'
  <1>1. PICK t \in Running("answer") :
          (DownloadAllComplete(t) \/ DownloadFailed(t)) /\ tasks' = tasks \ {t}
    BY DEF DownloadAnswers
  <1>2. UNCHANGED <<ids, shown, search>> /\ page \in Page /\ ids \in [ready : Nat, attempt : Nat]
    BY DEF DownloadAnswers, model, SetupInv, Typed
  <1>3. t.task = "answer" /\ t.message.to \in {"DownloadAllComplete", "DownloadFailed"}
    BY <1>1 DEF Running, DownloadAllComplete, DownloadFailed
  <1>4. CASE page.at # "Downloading"
    <2>1. page' = page
      BY <1>1, <1>4 DEF DownloadAllComplete, DownloadFailed
    <2>2. ~AnswersChoice(t)
      BY <1>3 DEF AnswersChoice
    <2> QED BY <1>1, <1>2, <1>4, <2>1, <2>2, PageStays
  <1>5. CASE page.at = "Downloading"
    <2>1. page.ready \in Nat /\ page.back \in Why /\ page.cancelling \in BOOLEAN
      BY <1>2, <1>5, PageTyped DEF DownloadingPage
    <2>2. \/ page' = Ready(page.ready, "managed")
          \/ page' = Consent(page.back)
          \/ page' = DownloadFailedPage(page.back)
      BY <1>1, <1>5, <2>1 DEF DownloadAllComplete, DownloadFailed
    <2>3. page' \in Page /\ page'.at # "Downloading" /\ ~Waits'
      BY <2>1, <2>2, PagesTyped DEF Dir, Waits
    <2> QED BY <1>1, <1>2, <2>3, PageMoves
  <1> QED BY <1>4, <1>5

-----------------------------------------------------------------------------
(* Saving the choice and loading it *)

LEMMA WizardAcceptKeeps ==
  ASSUME SetupInv, WizardAccept
  PROVE  SetupInv'
  <1> DEFINE attempt == ids.attempt + 1
             save == SaveTask(page.ready, attempt, page.dir)
  <1>1. /\ page \in ReadyPage /\ ids \in [ready : Nat, attempt : Nat] /\ attempt \in Nat
    BY PageTyped DEF SetupInv, Typed, WizardAccept
  <1>2. /\ ids' = [ids EXCEPT !.attempt = attempt]
        /\ page' = [page EXCEPT !.saving = "InFlight", !.attempt = attempt]
        /\ tasks' = tasks \union {save} /\ UNCHANGED <<shown, search>>
    BY DEF WizardAccept, model
  <1>3. /\ page' \in Page /\ page'.at = "Ready" /\ page'.saving = "InFlight"
        /\ page'.ready = page.ready /\ page'.attempt = attempt
    <2>1. page' = [page EXCEPT !.saving = "InFlight", !.attempt = attempt]
      BY <1>2
    <2>2. attempt \in Nat /\ page \in ReadyPage
      BY <1>1
    <2> HIDE DEF attempt
    <2> DEFINE q == [page EXCEPT !.saving = "InFlight", !.attempt = attempt]
    <2>3. /\ q \in Page /\ q.at = "Ready" /\ q.saving = "InFlight"
          /\ q.ready = page.ready /\ q.attempt = attempt
      BY <2>2 DEF ReadyPage, Page
    <2> HIDE DEF q
    <2>4. page' = q
      BY <2>1 DEF q
    <2> QED BY <2>3, <2>4
  <1>4. /\ Harmless(save) /\ save.task = "save"
        /\ save.ready = page.ready /\ save.attempt = attempt
    BY NewTasks, TasksTyped
  <1> HIDE DEF save, attempt
  <1>5. Typed'
    BY <1>1, <1>2, <1>3, <1>4 DEF SetupInv, Typed, LoadsTyped, Harmless
  <1>6. HeldSound'
    BY <1>2, <1>4 DEF SetupInv, HeldSound, HybridIsHeld, Harmless, Activated
  <1>7. WaitingIsAnswered'
    BY <1>2, <1>3, <1>4 DEF WaitingIsAnswered, Awaited
  <1> QED BY <1>5, <1>6, <1>7 DEF SetupInv

LEMMA SaveRunsKeeps ==
  ASSUME SetupInv, SaveRuns
  PROVE  SetupInv'
  <1>1. PICK t \in Running("save") :
          \E to \in {"Saved", "NotSaved"} :
            tasks' = (tasks \ {t}) \union {Answer(t, [to |-> to])}
    BY DEF SaveRuns
  <1>2. PICK to \in {"Saved", "NotSaved"} :
          tasks' = (tasks \ {t}) \union {Answer(t, [to |-> to])}
    BY <1>1
  <1> DEFINE answer == Answer(t, [to |-> to])
  <1>3. UNCHANGED <<page, ids, shown, search>>
    BY DEF SaveRuns
  <1>4. t \in tasks /\ t.task = "save"
    BY <1>1 DEF Running
  <1>5. answer.task = "answer" /\ answer.of = t /\ answer.message.to = to
    BY TasksTyped
  <1>6. ~AnswersDownload(t) /\ (AnswersChoice(t) => AnswersChoice(answer))
    BY <1>4, <1>5 DEF AnswersChoice, AnswersDownload
  <1>7. Harmless(answer)
    BY NewTasks
  <1> HIDE DEF answer
  <1>8. \A u \in tasks' : u \in tasks \/ Harmless(u)
    BY <1>2, <1>7 DEF answer
  <1>9. answer \in tasks' /\ \A u \in tasks : u = t \/ u \in tasks'
    BY <1>2 DEF answer
  <1> QED BY <1>3, <1>6, <1>8, <1>9, PageStays

LEMMA ModelPersistenceCompletedKeeps ==
  ASSUME SetupInv, ModelPersistenceCompleted
  PROVE  SetupInv'
  <1>1. PICK t \in Running("answer") :
          /\ t.message.to \in {"Saved", "NotSaved"}
          /\ \/ /\ ~Awaited(t.of)
                /\ tasks' = tasks \ {t} /\ UNCHANGED page
             \/ /\ Awaited(t.of) /\ t.message.to = "Saved"
                /\ ActivateModel(tasks \ {t}, t.of) /\ UNCHANGED page
             \/ /\ Awaited(t.of) /\ t.message.to = "NotSaved"
                /\ page' = [page EXCEPT !.saving = "Failed"]
                /\ tasks' = tasks \ {t}
    BY DEF ModelPersistenceCompleted
  <1>2. UNCHANGED <<ids, shown, search>> /\ page \in Page /\ ids \in [ready : Nat, attempt : Nat]
    BY DEF ModelPersistenceCompleted, model, SetupInv, Typed
  <1>3. t \in tasks /\ t.task = "answer"
    BY <1>1 DEF Running
  <1>4. CASE ~Awaited(t.of) /\ tasks' = tasks \ {t} /\ UNCHANGED page
    <2>1. ~AnswersChoice(t) /\ ~AnswersDownload(t)
      BY <1>1, <1>3, <1>4 DEF AnswersChoice, AnswersDownload
    <2> QED BY <1>2, <1>4, <2>1, PageStays
  <1>5. CASE /\ Awaited(t.of) /\ t.message.to = "Saved"
             /\ ActivateModel(tasks \ {t}, t.of) /\ UNCHANGED page
    <2> DEFINE load == LoadTask(t.of.ready, t.of.attempt)
    <2>1. /\ page.at = "Ready" /\ page.ready = t.of.ready /\ page.attempt = t.of.attempt
          /\ page.ready \in Nat /\ page.attempt \in Nat
      BY <1>2, <1>5, PageTyped DEF Awaited
    <2>2. tasks' = (tasks \ {t}) \union {load}
      BY <1>5 DEF ActivateModel
    <2>3. /\ Harmless(load) /\ load.task = "load"
          /\ load.ready = page.ready /\ load.attempt = page.attempt
      BY <2>1, NewTasks, TasksTyped
    <2> HIDE DEF load
    <2>4. Waits => AnswersChoice(load)
      BY <2>1, <2>3 DEF AnswersChoice, Awaited, Waits
    <2> QED BY <1>2, <1>5, <2>1, <2>2, <2>3, <2>4, PageStays
  <1>6. CASE /\ Awaited(t.of) /\ page' = [page EXCEPT !.saving = "Failed"]
             /\ tasks' = tasks \ {t}
    <2>1. page \in ReadyPage
      BY <1>2, <1>6, PageTyped DEF Awaited
    <2>2. page' \in Page /\ page'.at = "Ready" /\ page'.saving = "Failed"
      <3>1. page' = [page EXCEPT !.saving = "Failed"]
        BY <1>6
      <3>2. /\ [page EXCEPT !.saving = "Failed"] \in Page
            /\ [page EXCEPT !.saving = "Failed"].at = "Ready"
            /\ [page EXCEPT !.saving = "Failed"].saving = "Failed"
        BY <2>1, Saving
      <3> QED BY <3>1, <3>2
    <2>3. ~Waits'
      BY <2>2 DEF Waits
    <2> QED BY <1>2, <1>6, <2>2, <2>3, PageMoves
  <1> QED BY <1>1, <1>4, <1>5, <1>6

LEMMA WizardRetryModelLoadKeeps ==
  ASSUME SetupInv, WizardRetryModelLoad
  PROVE  SetupInv'
  <1>1. page \in ReadyPage /\ page.ready \in Nat /\ page.attempt \in Nat
    BY PageTyped DEF SetupInv, Typed, WizardRetryModelLoad
  <1>2. page' = [page EXCEPT !.saving = "InFlight"]
    BY DEF WizardRetryModelLoad
  <1>3. /\ page' \in Page /\ page'.at = "Ready" /\ page'.saving = "InFlight"
        /\ page'.ready = page.ready /\ page'.attempt = page.attempt
    <2>1. [page EXCEPT !.saving = "InFlight"] \in Page
      BY <1>1, Saving
    <2>2. /\ [page EXCEPT !.saving = "InFlight"].at = "Ready"
          /\ [page EXCEPT !.saving = "InFlight"].saving = "InFlight"
          /\ [page EXCEPT !.saving = "InFlight"].ready = page.ready
          /\ [page EXCEPT !.saving = "InFlight"].attempt = page.attempt
      BY <1>1, Saving
    <2> QED BY <1>2, <2>1, <2>2
  <1> DEFINE load == LoadTask(page.ready, page.attempt)
  <1>4. tasks' = tasks \union {load} /\ UNCHANGED <<ids, shown, search>>
    BY DEF WizardRetryModelLoad, ActivateModel, model
  <1>5. /\ Harmless(load) /\ load.task = "load"
        /\ load.ready = page.ready /\ load.attempt = page.attempt
    BY <1>1, NewTasks, TasksTyped
  <1> HIDE DEF load
  <1>6. Typed'
    BY <1>3, <1>4, <1>5 DEF SetupInv, Typed, LoadsTyped, Harmless
  <1>7. HeldSound'
    BY <1>4, <1>5 DEF SetupInv, HeldSound, HybridIsHeld, Harmless, Activated
  <1>8. WaitingIsAnswered'
    BY <1>3, <1>4, <1>5 DEF WaitingIsAnswered, Awaited
  <1> QED BY <1>6, <1>7, <1>8 DEF SetupInv

LEMMA LoadReadsKeeps ==
  ASSUME SetupInv, LoadReads
  PROVE  SetupInv'
  <1>1. PICK t \in Running("load"), found \in Loads :
          tasks' = (tasks \ {t}) \union {[t EXCEPT !.read = TRUE, !.found = found]}
    BY DEF LoadReads
  <1> DEFINE read == [t EXCEPT !.read = TRUE, !.found = found]
  <1>2. UNCHANGED <<page, ids, shown, search>>
    BY DEF LoadReads, model
  <1>3. t \in tasks /\ t.task = "load" /\ t \in Load /\ found \in Model
    BY <1>1, LoadsAreModels DEF Running, SetupInv, Typed, LoadsTyped
  <1>4. /\ read \in Load /\ read.task = "load"
        /\ read.ready = t.ready /\ read.attempt = t.attempt
    BY <1>3, LoadRead
  <1> HIDE DEF read
  <1>5. Harmless(read)
    BY <1>4 DEF Harmless, Activated
  <1>6. ~AnswersDownload(t) /\ (AnswersChoice(t) => AnswersChoice(read))
    BY <1>3, <1>4 DEF AnswersDownload, AnswersChoice, Awaited
  <1>7. \A u \in tasks' : u \in tasks \/ Harmless(u)
    BY <1>1, <1>5 DEF read
  <1>8. read \in tasks' /\ \A u \in tasks : u = t \/ u \in tasks'
    BY <1>1 DEF read
  <1> QED BY <1>2, <1>6, <1>7, <1>8, PageStays

LEMMA LoadSwapsKeeps ==
  ASSUME SetupInv, LoadSwaps
  PROVE  SetupInv'
  <1>1. PICK t \in Running("load") :
          /\ search' = IF t.found = None THEN search ELSE t.found
          /\ tasks' = (tasks \ {t}) \union {Answer(t,
               [to |-> "Activated", activated |-> t.found # None])}
    BY DEF LoadSwaps
  <1> DEFINE answer == Answer(t, [to |-> "Activated", activated |-> t.found # None])
  <1>2. UNCHANGED <<page, ids, shown>>
    BY DEF LoadSwaps
  <1>3. t \in tasks /\ t.task = "load"
    BY <1>1 DEF Running
  <1>4. /\ answer.task = "answer" /\ answer.of = t /\ answer.message.to = "Activated"
        /\ answer.message.activated => t.found # None
    <2> DEFINE m == [to |-> "Activated", activated |-> t.found # None]
    <2>1. /\ answer.task = "answer" /\ answer.of = t /\ answer.message = m
      BY DEF Answer
    <2>2. m.to = "Activated" /\ (m.activated => t.found # None)
      OBVIOUS
    <2> QED BY <2>1, <2>2
  <1>5. tasks' = (tasks \ {t}) \union {answer}
    BY <1>1
  <1> HIDE DEF answer
  <1>6. Typed'
    BY <1>2, <1>4, <1>5 DEF SetupInv, Typed, LoadsTyped
  <1>7. search # None => search' # None
    BY <1>1
  <1>8. HeldSound'
    BY <1>1, <1>2, <1>4, <1>5, <1>7 DEF SetupInv, HeldSound, HybridIsHeld, Activated
  <1>9. ~AnswersDownload(t) /\ (AnswersChoice(t) => AnswersChoice(answer))
    BY <1>3, <1>4 DEF AnswersDownload, AnswersChoice
  <1>10. WaitingIsAnswered'
    <2>1. /\ page.at = "Downloading" => \E u \in tasks' : AnswersDownload(u)
          /\ Waits => \E u \in tasks' : AnswersChoice(u)
      BY <1>5, <1>9, WaitingIs DEF SetupInv
    <2> QED BY <1>2, <2>1 DEF WaitingIsAnswered, AnswersDownload, AnswersChoice, Waits, Awaited
  <1> QED BY <1>6, <1>8, <1>10 DEF SetupInv

LEMMA ModelActivationCompletedKeeps ==
  ASSUME SetupInv, ModelActivationCompleted
  PROVE  SetupInv'
  <1>1. PICK t \in Running("answer") :
          /\ t.message.to = "Activated" /\ tasks' = tasks \ {t}
          /\ \/ ~Awaited(t.of) /\ UNCHANGED <<page, shown>>
             \/ /\ Awaited(t.of) /\ t.message.activated
                /\ shown' = Hybrid(page.dir, "session") /\ page' = NoPage
             \/ /\ Awaited(t.of) /\ ~t.message.activated
                /\ page' = [page EXCEPT !.saving = "LoadFailed"] /\ UNCHANGED shown
    BY DEF ModelActivationCompleted
  <1>2. UNCHANGED <<ids, search>> /\ page \in Page /\ ids \in [ready : Nat, attempt : Nat]
    BY DEF ModelActivationCompleted, model, SetupInv, Typed
  <1>3. t \in tasks /\ t.task = "answer"
    BY <1>1 DEF Running
  <1>4. CASE ~Awaited(t.of) /\ UNCHANGED <<page, shown>>
    <2>1. ~AnswersChoice(t) /\ ~AnswersDownload(t)
      BY <1>1, <1>3, <1>4 DEF AnswersChoice, AnswersDownload
    <2> QED BY <1>1, <1>2, <1>4, <2>1, PageStays
  <1>5. CASE /\ t.message.activated
             /\ shown' = Hybrid(page.dir, "session") /\ page' = NoPage
    <2>1. search' # None
      BY <1>1, <1>2, <1>3, <1>5 DEF SetupInv, HeldSound, Activated
    <2>2. Typed' /\ page'.at = "closed"
      BY <1>1, <1>2, <1>5, PagesTyped DEF SetupInv, Typed, LoadsTyped
    <2>3. HeldSound'
      BY <2>1 DEF HeldSound, HybridIsHeld
    <2>4. WaitingIsAnswered'
      BY <2>2 DEF WaitingIsAnswered
    <2> QED BY <2>2, <2>3, <2>4 DEF SetupInv
  <1>6. CASE /\ Awaited(t.of)
             /\ page' = [page EXCEPT !.saving = "LoadFailed"] /\ UNCHANGED shown
    <2>1. page \in ReadyPage
      BY <1>2, <1>6, PageTyped DEF Awaited
    <2>2. page' \in Page /\ page'.at = "Ready" /\ page'.saving = "LoadFailed"
      <3>1. page' = [page EXCEPT !.saving = "LoadFailed"]
        BY <1>6
      <3>2. /\ [page EXCEPT !.saving = "LoadFailed"] \in Page
            /\ [page EXCEPT !.saving = "LoadFailed"].at = "Ready"
            /\ [page EXCEPT !.saving = "LoadFailed"].saving = "LoadFailed"
        BY <2>1, Saving
      <3> QED BY <3>1, <3>2
    <2>3. ~Waits'
      BY <2>2 DEF Waits
    <2> QED BY <1>1, <1>2, <1>6, <2>2, <2>3, PageMoves
  <1> QED BY <1>1, <1>4, <1>5, <1>6

-----------------------------------------------------------------------------
(* Start, and the theorems *)

LEMMA InitKeeps == Init => SetupInv
  <1> SUFFICES ASSUME Init PROVE SetupInv
    OBVIOUS
  <1>1. page \in Page /\ page.at \in Why
    BY PagesTyped DEF Init, Why
  <1>2. page.at # "Downloading" /\ page.at # "Ready"
    BY <1>1 DEF Why
  <1>3. Typed
    BY <1>1 DEF Init, Typed, LoadsTyped
  <1>4. HeldSound
    BY DEF Init, HeldSound, HybridIsHeld, KeywordOnly
  <1> QED BY <1>2, <1>3, <1>4 DEF SetupInv, WaitingIsAnswered

LEMMA RestartKeeps ==
  ASSUME SetupInv, Restart
  PROVE  SetupInv'
  <1>1. /\ tasks' = {} /\ ids' = [ready |-> 0, attempt |-> 0]
        /\ \E found \in BOOLEAN : Projected(found)
    BY DEF Restart
  <1>2. page' \in {NoPage, Setup("FileMissing"), Setup("NotConfigured")}
    BY <1>1 DEF Projected
  <1>3. page' \in Page /\ page'.at # "Downloading" /\ page'.at # "Ready"
    BY <1>2, PagesTyped DEF Why
  <1>4. shown'.since = "start"
    BY <1>1 DEF Projected, Hybrid, KeywordOnly
  <1>5. Typed'
    BY <1>1, <1>3 DEF Typed, LoadsTyped
  <1>6. HeldSound'
    BY <1>1, <1>4 DEF HeldSound, HybridIsHeld
  <1> QED BY <1>3, <1>5, <1>6 DEF SetupInv, WaitingIsAnswered

LEMMA SetupInvKept ==
  ASSUME SetupInv, [Next]_vars
  PROVE  SetupInv'
  <1>1. CASE UNCHANGED vars
    BY <1>1, PageStays DEF vars
  <1>2. CASE Next
    BY <1>2, ChoosingKeeps, ConfirmModelDownloadKeeps, CancelDownloadInProgressKeeps,
       AskingKeeps, PickerAnswersKeeps, NoticeAnswersKeeps, DownloadEndsKeeps,
       DownloadAnswersKeeps, WizardAcceptKeeps, SaveRunsKeeps,
       ModelPersistenceCompletedKeeps, WizardRetryModelLoadKeeps, LoadReadsKeeps,
       LoadSwapsKeeps, ModelActivationCompletedKeeps, RestartKeeps
    DEF Next
  <1> QED BY <1>1, <1>2

(* "Search by meaning" is turned on only when search holds a model         *)
(* (search_model.rs:38-49).                                                *)
THEOREM HybridNeedsModel == Spec => []HybridIsHeld
  <1>1. SetupInv => HybridIsHeld
    BY DEF SetupInv, HeldSound
  <1> QED BY <1>1, InitKeeps, SetupInvKept, PTL DEF Spec

(* No page of the wizard waits for an answer that will not come, or that   *)
(* it would not take for its own (model_flow.rs:276-372).                  *)
THEOREM NoPageWaitsInVain == Spec => []WaitingIsAnswered
  <1>1. SetupInv => WaitingIsAnswered
    BY DEF SetupInv
  <1> QED BY <1>1, InitKeeps, SetupInvKept, PTL DEF Spec

-----------------------------------------------------------------------------
(* One download *)

LEMMA HasFirst ==
  ASSUME NEW S, S \subseteq File, S # {}
  PROVE  \E f \in S : \A g \in S : f <= g
<1> DEFINE R == OpToRel(<, Nat)
<1>1. IsWellFoundedOn(R, Nat)
  BY NatLessThanWellFounded
<1>2. S \subseteq Nat
  BY DeliveryAssumption DEF File
<1>3. PICK f \in S : \A g \in S : <<g, f>> \notin R
  BY <1>1, <1>2, WFMin
<1>4. \A g \in S : ~(g < f)
  BY <1>2, <1>3 DEF OpToRel
<1> QED
  BY <1>2, <1>4

(* Something that waits is among the first transfers to be started. *)
LEMMA FirstIsStarted ==
  ASSUME TypeOK, StartFetching, NEW f \in File, transfer[f] = "waiting"
  PROVE  InFlight' # {}
<1> DEFINE Waiting == {g \in File : transfer[g] = "waiting"}
<1>1. PICK h \in Waiting : \A g \in Waiting : h <= g
  BY HasFirst
<1>2. {g \in 1 .. h : transfer[g] = "waiting"} = {h}
  BY <1>1, DeliveryAssumption DEF File
<1>3. Cardinality({h}) = 1
  BY FS_Singleton
<1>4. transfer'[h] = "asked"
  BY <1>1, <1>2, <1>3, DeliveryAssumption DEF StartFetching
<1> QED
  BY <1>1, <1>4 DEF InFlight

LEMMA OutcomeTyped == Outcome \in Message /\ Outcome # "progress"
  BY DEF Outcome, Message

LEMMA CompleteMeansOk == Outcome = "Complete" => result = "Ok"
  BY DEF Outcome

LEMMA InitInv == DeliveryInit => DeliveryInv
<1> SUFFICES ASSUME DeliveryInit PROVE DeliveryInv
  OBVIOUS
<1> USE DeliveryAssumption DEF DeliveryInit
<1>1. TypeOK
  <2>1. ui \in Seq(Message)
    OBVIOUS
  <2>2. 0 \in 0 .. Length
    OBVIOUS
  <2>3. "absent" \in Content
    BY DEF Content
  <2> QED
    BY <2>1, <2>2, <2>3 DEF TypeOK
<1>2. WorkSound
  BY DEF WorkSound, InFlight
<1>3. ToldSound
  BY DEF ToldSound
<1>4. CancelSound
  BY DEF CancelSound
<1> QED
  BY <1>1, <1>2, <1>3, <1>4 DEF DeliveryInv

-----------------------------------------------------------------------------
(* A transfer *)

LEMMA SettleFacts ==
  ASSUME TypeOK, NEW f \in File, NEW error \in Failure \union {Nothing}, Settle(f, error)
  PROVE  /\ failure' \in Failure \union {Nothing}
         /\ transfer' \in [File -> {"none", "waiting", "asked", "receiving", "sending", "settled"}]
         /\ error # Nothing \/ failure # Nothing \/ cancel => failure' # Nothing
<1>1. "Cancelled" \in Failure /\ "Cancelled" # Nothing
  BY DeliveryAssumption DEF Failure
<1>2. failure' = FirstError(error)
  BY DEF Settle
<1>3. /\ failure' \in Failure \union {Nothing}
      /\ error # Nothing \/ failure # Nothing \/ cancel => failure' # Nothing
  BY <1>1, <1>2 DEF FirstError, TypeOK
<1>4. transfer' \in [File -> {"none", "waiting", "asked", "receiving", "sending", "settled"}]
  BY DEF Settle, TypeOK
<1> QED
  BY <1>3, <1>4

(* A transfer's step settles it, or leaves it under way. *)
LEMMA TransferFacts ==
  ASSUME TypeOK, NEW f \in File, Transferring(ServerStep(f)) \/ Transferring(OwnStep(f))
  PROVE  /\ TypeOK'
         /\ failure # Nothing => failure' # Nothing
         /\ cancel => failure' # Nothing \/ InFlight' # {}
<1> USE DEF Transferring
<1>1. Polled /\ phase = "fetch"
      /\ UNCHANGED <<sourceVars, endVars, tocopy, copying, adapterVars, cancel, inTime>>
  OBVIOUS
<1>2. /\ "Network" \in Failure /\ "Integrity" \in Failure /\ "Filesystem" \in Failure
      /\ "Cancelled" \in Failure /\ "TransferLimit" \in Failure
  BY DEF Failure
<1>3. CASE \E error \in Failure \union {Nothing} :
             Settle(f, error) /\ UNCHANGED <<got, wrong, queued>>
             /\ (staged' = staged \/ staged' = [staged EXCEPT ![f] = "exact"])
  <2>1. PICK error \in Failure \union {Nothing} :
             Settle(f, error) /\ UNCHANGED <<got, wrong, queued>>
             /\ (staged' = staged \/ staged' = [staged EXCEPT ![f] = "exact"])
    BY <1>3
  <2>2. /\ failure' \in Failure \union {Nothing}
        /\ transfer' \in [File -> {"none", "waiting", "asked", "receiving", "sending", "settled"}]
        /\ error # Nothing \/ failure # Nothing \/ cancel => failure' # Nothing
    BY <2>1, SettleFacts
  <2>3. staged' \in [File -> Content]
    BY <2>1 DEF TypeOK, Content
  <2>4. TypeOK'
    BY <1>1, <2>1, <2>2, <2>3 DEF TypeOK, sourceVars, endVars, adapterVars
  <2> QED
    BY <2>2, <2>4
<1>4. CASE \E to \in {"receiving", "sending"} :
             /\ transfer' = [transfer EXCEPT ![f] = to]
             /\ UNCHANGED <<failure, staged>>
             /\ got' \in [File -> 0 .. Length] /\ wrong' \in SUBSET File /\ queued' \in Nat
  <2>1. PICK to \in {"receiving", "sending"} :
             /\ transfer' = [transfer EXCEPT ![f] = to]
             /\ UNCHANGED <<failure, staged>>
             /\ got' \in [File -> 0 .. Length] /\ wrong' \in SUBSET File /\ queued' \in Nat
    BY <1>4
  <2>2. transfer' \in [File -> {"none", "waiting", "asked", "receiving", "sending", "settled"}]
    BY <2>1 DEF TypeOK
  <2>3. f \in InFlight'
    BY <2>1 DEF InFlight, TypeOK
  <2>4. TypeOK'
    BY <1>1, <2>1, <2>2 DEF TypeOK, sourceVars, endVars, adapterVars
  <2> QED
    BY <2>1, <2>3, <2>4
<1>5. CASE Answered(f)
  BY <1>2, <1>3, <1>4, <1>5 DEF Answered, TypeOK
<1>6. CASE Lost(f)
  BY <1>2, <1>3, <1>6 DEF Lost
<1>7. CASE EndOfBody(f)
  BY <1>2, <1>3, <1>7 DEF EndOfBody
<1>8. CASE Sent(f)
  BY <1>4, <1>8 DEF Sent, TypeOK
<1>9. CASE Receive(f)
  <2>1. CASE UNCHANGED <<got, wrong, queued>>
    BY <1>2, <1>3, <1>9, <2>1 DEF Receive, TypeOK
  <2>2. CASE /\ got[f] # Length
             /\ got' = [got EXCEPT ![f] = @ + 1]
             /\ wrong' \in {wrong, wrong \union {f}}
             /\ queued' = queued + 1
             /\ transfer' = [transfer EXCEPT ![f] = "sending"]
             /\ UNCHANGED <<failure, staged>>
    <3>1. got' \in [File -> 0 .. Length]
      BY <2>2, DeliveryAssumption DEF TypeOK
    <3> QED
      BY <1>4, <2>2, <3>1 DEF TypeOK
  <2> QED
    BY <1>2, <1>3, <1>9, <2>1, <2>2 DEF Receive
<1> QED
  BY <1>5, <1>6, <1>7, <1>8, <1>9 DEF ServerStep, OwnStep

LEMMA TransferKeeps ==
  ASSUME DeliveryInv, NEW f \in File, Transferring(ServerStep(f)) \/ Transferring(OwnStep(f))
  PROVE  DeliveryInv'
<1>1. /\ TypeOK'
      /\ failure # Nothing => failure' # Nothing
      /\ cancel => failure' # Nothing \/ InFlight' # {}
  BY TransferFacts DEF DeliveryInv
<1>2. Polled /\ phase = "fetch"
      /\ UNCHANGED <<sourceVars, endVars, tocopy, copying, adapterVars, cancel, inTime>>
  BY DEF Transferring
<1>3. WorkSound'
  BY <1>1, <1>2 DEF DeliveryInv, WorkSound, endVars
<1>4. ToldSound'
  BY <1>1, <1>2 DEF DeliveryInv, ToldSound, Polled, Outcome, endVars, adapterVars
<1>5. CancelSound'
  BY <1>1, <1>2 DEF DeliveryInv, CancelSound, StillChecked, endVars
<1> QED
  BY <1>1, <1>3, <1>4, <1>5 DEF DeliveryInv

-----------------------------------------------------------------------------
(* The worker's other steps.  Each is taken while the adapter selects, and *)
(* leaves the channels and the flag alone.                                 *)

Stays == UNCHANGED <<queued, adapterVars, cancel, inTime>>

LEMMA SelectingKeepsTold ==
  ASSUME DeliveryInv, Polled, Stays
  PROVE  ToldSound'
  BY DEF DeliveryInv, ToldSound, Polled, Stays, adapterVars

LEMMA BeginKeeps ==
  ASSUME DeliveryInv, Polled, Stays, CannotBegin \/ CannotPlan \/ VerifyReadyCurrent \/ Stage
  PROVE  DeliveryInv'
<1> USE DEF DeliveryInv
<1>1. phase = "begin" /\ UNCHANGED <<sourceVars, promoted>>
  BY DEF CannotBegin, CannotPlan, VerifyReadyCurrent, Stage
<1>2. /\ InFlight = {} /\ copying = Nothing /\ failure = Nothing /\ ~promoted /\ result = Nothing
  BY <1>1 DEF WorkSound
<1>3. CASE \E r \in Failure \union {"Ok"} : Returns(r) /\ UNCHANGED workVars /\ (r = "Ok" => SourceReady /\ current)
  <2>1. PICK r \in Failure \union {"Ok"} : Returns(r) /\ UNCHANGED workVars /\ (r = "Ok" => SourceReady /\ current)
    BY <1>3
  <2>2. result' # Nothing
    BY <2>1, DeliveryAssumption DEF Returns, TypeOK
  <2>3. TypeOK'
    BY <1>1, <2>1 DEF TypeOK, Returns, Stays, sourceVars, workVars, adapterVars
  <2>4. WorkSound'
    BY <1>1, <1>2, <2>1, <2>2 DEF WorkSound, Returns, InFlight, workVars
  <2>5. CancelSound'
    BY <1>1, <1>2, <2>1 DEF CancelSound, StillChecked, Returns, Stays, SourceReady
  <2> QED
    BY <2>3, <2>4, <2>5, SelectingKeepsTold
<1>4. CASE /\ phase' = "copy"
           /\ tocopy' = {f \in File : source[f] = "exact"}
           /\ transfer' = [f \in File |-> IF source[f] = "exact" THEN "none" ELSE "waiting"]
           /\ UNCHANGED <<result, copying, got, wrong, staged, failure>>
  <2>1. TypeOK'
    BY <1>1, <1>4 DEF TypeOK, Stays, sourceVars, adapterVars
  <2>2. InFlight' = {}
    BY <1>4 DEF InFlight
  <2>3. WorkSound'
    BY <1>1, <1>2, <1>4, <2>2 DEF WorkSound
  <2>4. CancelSound'
    <3> SUFFICES ASSUME inTime' PROVE cancel' /\ ~promoted' /\ StillChecked'
      BY DEF CancelSound
    <3>1. cancel /\ Files > 0
      BY <1>1, <1>2 DEF CancelSound, StillChecked, Stays
    <3>2. 1 \in File
      BY <3>1, DeliveryAssumption DEF File
    <3>3. copying' = Nothing /\ Nothing \notin File
      BY <1>2, <1>4, DeliveryAssumption
    <3>4. Unstarted' # {} \/ \E f \in File : transfer'[f] = "waiting"
      BY <1>4, <3>2, <3>3 DEF Unstarted
    <3> QED
      BY <1>1, <1>2, <1>4, <3>1, <3>4 DEF StillChecked, Stays
  <2> QED
    BY <2>1, <2>3, <2>4, SelectingKeepsTold
<1>5. CASE CannotBegin
  BY <1>3, <1>5 DEF CannotBegin, Failure
<1>6. CASE CannotPlan
  BY <1>3, <1>6 DEF CannotPlan, Failure
<1>7. CASE VerifyReadyCurrent
  <2>1. "Integrity" \in Failure
    BY DEF Failure
  <2>2. Returns("Ok") \/ Returns("Integrity")
    BY <1>7 DEF VerifyReadyCurrent
  <2> QED
    BY <1>3, <1>7, <2>1, <2>2 DEF VerifyReadyCurrent
<1>8. CASE Stage
  <2>1. CASE Returns("Filesystem") /\ UNCHANGED workVars
    BY <1>3, <2>1 DEF Failure
  <2> QED
    BY <1>4, <1>8, <2>1 DEF Stage
<1> QED
  BY <1>5, <1>6, <1>7, <1>8

LEMMA FailedStaging ==
  ASSUME TypeOK, NEW r \in Failure, StagingFailed(r)
  PROVE  /\ phase' = "over" /\ result' \in Failure /\ result' # Nothing /\ result' # "Ok"
         /\ staged' \in [File -> Content]
<1>1. staged' \in [File -> Content]
  BY DEF StagingFailed, TypeOK, Content
<1> QED
  BY <1>1, DeliveryAssumption DEF StagingFailed, Returns, Failure

LEMMA StartCopyKeeps ==
  ASSUME DeliveryInv, Polled, Stays, NEW f \in File, StartCopy(f)
  PROVE  DeliveryInv'
<1> USE DEF DeliveryInv
<1>1. /\ phase = "copy" /\ copying = Nothing /\ f \in tocopy
      /\ UNCHANGED <<sourceVars, tocopy, transfer, got, wrong, failure, promoted>>
  BY DEF StartCopy
<1>2. InFlight = {} /\ InFlight' = {} /\ failure = Nothing /\ ~promoted /\ result = Nothing
  BY <1>1 DEF WorkSound, InFlight
<1>3. CASE cancel
  <2>1. "Cancelled" \in Failure
    BY DEF Failure
  <2>2. StagingFailed("Cancelled") /\ UNCHANGED copying
    BY <1>3 DEF StartCopy
  <2>3. /\ phase' = "over" /\ result' \in Failure /\ result' # Nothing /\ result' # "Ok"
        /\ staged' \in [File -> Content]
    BY <2>1, <2>2, FailedStaging
  <2>4. TypeOK'
    BY <1>1, <2>2, <2>3 DEF TypeOK, Stays, sourceVars, adapterVars
  <2>5. WorkSound'
    BY <1>1, <1>2, <2>2, <2>3 DEF WorkSound
  <2>6. CancelSound'
    BY <1>1, <1>2, <2>3 DEF CancelSound, Stays
  <2> QED
    BY <2>4, <2>5, <2>6, SelectingKeepsTold
<1>4. CASE ~cancel
  <2>1. copying' = f /\ UNCHANGED <<phase, result, staged>>
    BY <1>4 DEF StartCopy
  <2>2. TypeOK'
    BY <1>1, <2>1 DEF TypeOK, Stays, sourceVars, adapterVars
  <2>3. WorkSound'
    BY <1>1, <1>2, <2>1 DEF WorkSound
  <2>4. CancelSound'
    BY <1>4 DEF CancelSound, Stays
  <2> QED
    BY <2>2, <2>3, <2>4, SelectingKeepsTold
<1> QED
  BY <1>3, <1>4

LEMMA EndCopyKeeps ==
  ASSUME DeliveryInv, Polled, Stays, EndCopy
  PROVE  DeliveryInv'
<1> USE DEF DeliveryInv
<1>1. /\ phase = "copy" /\ copying \in File /\ copying' = Nothing
      /\ UNCHANGED <<sourceVars, transfer, got, wrong, failure, promoted>>
  BY DEF EndCopy, TypeOK
<1>2. InFlight = {} /\ InFlight' = {} /\ failure = Nothing /\ ~promoted /\ result = Nothing
  BY <1>1 DEF WorkSound, InFlight
<1>3. CASE /\ staged' = [staged EXCEPT ![copying] = source[copying]]
           /\ tocopy' = tocopy \ {copying}
           /\ UNCHANGED <<phase, result>>
  <2>1. staged' \in [File -> Content]
    BY <1>1, <1>3 DEF TypeOK
  <2>2. TypeOK'
    BY <1>1, <1>3, <2>1 DEF TypeOK, Stays, sourceVars, adapterVars
  <2>3. WorkSound'
    BY <1>1, <1>2, <1>3 DEF WorkSound
  <2>4. Unstarted' = Unstarted
    BY <1>1, <1>3, DeliveryAssumption DEF Unstarted, TypeOK
  <2>5. CancelSound'
    BY <1>1, <1>2, <1>3, <2>4 DEF CancelSound, StillChecked, Stays
  <2> QED
    BY <2>2, <2>3, <2>5, SelectingKeepsTold
<1>4. CASE StagingFailed("Filesystem") /\ UNCHANGED tocopy
  <2>1. "Filesystem" \in Failure
    BY DEF Failure
  <2>2. /\ phase' = "over" /\ result' \in Failure /\ result' # Nothing /\ result' # "Ok"
        /\ staged' \in [File -> Content]
    BY <1>4, <2>1, FailedStaging
  <2>3. TypeOK'
    BY <1>1, <1>4, <2>2 DEF TypeOK, Stays, sourceVars, adapterVars
  <2>4. WorkSound'
    BY <1>1, <1>2, <2>2 DEF WorkSound
  <2>5. CancelSound'
    BY <1>1, <1>2, <2>2 DEF CancelSound, Stays
  <2> QED
    BY <2>3, <2>4, <2>5, SelectingKeepsTold
<1> QED
  BY <1>3, <1>4 DEF EndCopy

LEMMA StartFetchingKeeps ==
  ASSUME DeliveryInv, Polled, Stays, StartFetching
  PROVE  DeliveryInv'
<1> USE DEF DeliveryInv
<1>1. /\ phase = "copy" /\ tocopy = {} /\ phase' = "fetch"
      /\ UNCHANGED <<sourceVars, tocopy, copying, got, wrong, staged, failure, promoted, result>>
  BY DEF StartFetching
<1>2. transfer' \in [File -> {"none", "waiting", "asked", "receiving", "sending", "settled"}]
  BY DEF StartFetching, TypeOK
<1>3. TypeOK'
  BY <1>1, <1>2 DEF TypeOK, Stays, sourceVars, adapterVars
<1>4. copying = Nothing /\ failure = Nothing /\ ~promoted /\ result = Nothing
  BY <1>1 DEF WorkSound
<1>5. WorkSound'
  BY <1>1, <1>4 DEF WorkSound
<1>6. CancelSound'
  <2> SUFFICES ASSUME inTime' PROVE cancel' /\ ~promoted' /\ StillChecked'
    BY DEF CancelSound
  <2>1. cancel /\ \E f \in File : transfer[f] = "waiting"
    BY <1>1, <1>4 DEF CancelSound, StillChecked, Unstarted, Stays
  <2>2. InFlight' # {}
    BY <2>1, FirstIsStarted
  <2> QED
    BY <1>1, <1>4, <2>1, <2>2 DEF StillChecked, Stays
<1> QED
  BY <1>3, <1>5, <1>6, SelectingKeepsTold

LEMMA FetchingEndsKeeps ==
  ASSUME DeliveryInv, Polled, Stays, FetchingEnds
  PROVE  DeliveryInv'
<1> USE DEF DeliveryInv
<1>1. /\ phase = "fetch" /\ InFlight = {} /\ InFlight' = {}
      /\ UNCHANGED <<sourceVars, tocopy, copying, transfer, got, wrong, failure, promoted>>
  BY DEF FetchingEnds, InFlight
<1>2. copying = Nothing /\ ~promoted /\ result = Nothing
  BY <1>1 DEF WorkSound
<1>3. CASE failure # Nothing
  <2>1. failure \in Failure /\ StagingFailed(failure)
    BY <1>3 DEF FetchingEnds, TypeOK
  <2>2. /\ phase' = "over" /\ result' \in Failure /\ result' # Nothing /\ result' # "Ok"
        /\ staged' \in [File -> Content]
    BY <2>1, FailedStaging
  <2>3. TypeOK'
    BY <1>1, <2>2 DEF TypeOK, Stays, sourceVars, adapterVars
  <2>4. WorkSound'
    BY <1>1, <1>2, <2>2 DEF WorkSound
  <2>5. CancelSound'
    BY <1>1, <1>2, <2>2 DEF CancelSound, Stays
  <2> QED
    BY <2>3, <2>4, <2>5, SelectingKeepsTold
<1>4. CASE failure = Nothing
  <2>1. phase' = "verify" /\ UNCHANGED <<result, staged>>
    BY <1>4 DEF FetchingEnds
  <2>2. TypeOK'
    BY <1>1, <2>1 DEF TypeOK, Stays, sourceVars, adapterVars
  <2>3. WorkSound'
    BY <1>1, <1>2, <1>4, <2>1 DEF WorkSound
  <2>4. ~inTime
    BY <1>1, <1>4 DEF CancelSound, StillChecked
  <2>5. CancelSound'
    BY <2>4 DEF CancelSound, Stays
  <2> QED
    BY <2>2, <2>3, <2>5, SelectingKeepsTold
<1> QED
  BY <1>3, <1>4

LEMMA InstallingKeeps ==
  ASSUME DeliveryInv, Polled, Stays, VerifyStaged \/ Promote \/ Activate
  PROVE  DeliveryInv'
<1> USE DEF DeliveryInv
<1>1. /\ phase \in {"verify", "promote", "activate"} /\ UNCHANGED <<sourceVars, workVars>>
      /\ InFlight' = InFlight
  BY DEF VerifyStaged, Promote, Activate, InFlight, workVars
<1>2. InFlight = {} /\ copying = Nothing /\ failure = Nothing /\ result = Nothing /\ ~inTime
  BY <1>1 DEF WorkSound, CancelSound, StillChecked
<1>3. CancelSound'
  BY <1>2 DEF CancelSound, Stays
<1>4. \A r \in Failure \union {"Ok"} : r # Nothing
  BY DeliveryAssumption
<1>5. /\ "Filesystem" \in Failure /\ "Integrity" \in Failure /\ "Catalog" \in Failure
      /\ "FinalCheck" \in Failure
  BY DEF Failure
<1>6. CASE VerifyStaged
  <2>1. /\ UNCHANGED promoted
        /\ \/ phase' = "promote" /\ AllExact /\ UNCHANGED result
           \/ Returns("Integrity") \/ Returns("Filesystem")
    BY <1>6 DEF VerifyStaged, AllExact
  <2>2. TypeOK'
    BY <1>1, <1>5, <2>1 DEF TypeOK, Stays, Returns, sourceVars, workVars, adapterVars
  <2>3. WorkSound'
    BY <1>1, <1>2, <1>4, <1>5, <1>6, <2>1 DEF WorkSound, Returns, AllExact, VerifyStaged, workVars
  <2> QED
    BY <1>3, <2>2, <2>3, SelectingKeepsTold
<1>7. CASE Promote
  <2>1. TypeOK'
    BY <1>1, <1>5, <1>7, SMTT(15), ZenonT(30) DEF Promote, TypeOK, Stays, Returns, sourceVars, workVars, adapterVars
  <2>2. WorkSound'
    BY <1>1, <1>2, <1>4, <1>5, <1>7 DEF WorkSound, Returns, AllExact, Promote, workVars
  <2> QED
    BY <1>3, <2>1, <2>2, SelectingKeepsTold
<1>8. CASE Activate
  <2>1. TypeOK'
    BY <1>1, <1>5, <1>8 DEF Activate, TypeOK, Stays, Returns, sourceVars, workVars, adapterVars
  <2>2. WorkSound'
    BY <1>1, <1>2, <1>4, <1>5, <1>8 DEF WorkSound, Returns, AllExact, Activate, workVars
  <2> QED
    BY <1>3, <2>1, <2>2, SelectingKeepsTold
<1> QED
  BY <1>6, <1>7, <1>8

-----------------------------------------------------------------------------
(* The adapter, the window and the others: the worker stands still *)

WorkerStands == UNCHANGED <<workVars, endVars>>

LEMMA StandingKeepsWork ==
  ASSUME WorkSound, WorkerStands
  PROVE  WorkSound'
  BY DEF WorkSound, WorkerStands, workVars, endVars, InFlight, AllExact

LEMMA StandingKeepsCancel ==
  ASSUME CancelSound, WorkerStands, UNCHANGED <<source, current, cancel, inTime>>
  PROVE  CancelSound'
  BY DEF CancelSound, WorkerStands, workVars, endVars, StillChecked, Unstarted, InFlight, SourceReady

LEMMA ForwardKeeps ==
  ASSUME DeliveryInv, Forward
  PROVE  DeliveryInv'
<1> USE DEF DeliveryInv
<1>1. /\ UNCHANGED <<sourceVars, workVars, endVars, cancel, inTime, adapter, uiOpen, told>>
      /\ adapter # "over" /\ queued' = queued - 1 /\ queued > 0
      /\ ui' = ui \/ ui' = Append(ui, "progress")
  BY DEF Forward, ToUi
<1>2. ui' \in Seq(Message) /\ \A i \in 1 .. Len(ui') : ui'[i] # "progress" => i \in 1 .. Len(ui) /\ ui'[i] = ui[i]
  <2>1. "progress" \in Message /\ ui \in Seq(Message)
    BY DEF Message, TypeOK
  <2> QED
    BY <1>1, <2>1, AppendProperties
<1>3. TypeOK'
  BY <1>1, <1>2 DEF TypeOK, sourceVars, workVars, endVars
<1>4. ToldSound'
  BY <1>1, <1>2 DEF ToldSound, Outcome, endVars
<1> QED
  BY <1>1, <1>3, <1>4, StandingKeepsWork, StandingKeepsCancel DEF WorkerStands, sourceVars

LEMMA ResolveKeeps ==
  ASSUME DeliveryInv, Resolve
  PROVE  DeliveryInv'
<1> USE DEF DeliveryInv
<1>1. /\ UNCHANGED <<sourceVars, workVars, endVars, cancel, inTime, queued, uiOpen, ui, told>>
      /\ adapter = "selecting" /\ phase = "over" /\ adapter' = "draining"
  BY DEF Resolve, Polled
<1>2. TypeOK'
  BY <1>1 DEF TypeOK, sourceVars, workVars, endVars
<1>3. ToldSound'
  BY <1>1 DEF ToldSound, Outcome, endVars
<1> QED
  BY <1>1, <1>2, <1>3, StandingKeepsWork, StandingKeepsCancel DEF WorkerStands, sourceVars

LEMMA TellKeeps ==
  ASSUME DeliveryInv, Tell
  PROVE  DeliveryInv'
<1> USE DEF DeliveryInv
<1>1. /\ UNCHANGED <<sourceVars, workVars, endVars, cancel, inTime, queued, uiOpen, told>>
      /\ adapter = "draining" /\ queued = 0 /\ adapter' = "over"
      /\ ui' = ui \/ ui' = Append(ui, Outcome)
  BY DEF Tell, ToUi
<1>2. TypeOK'
  <2>1. ui' \in Seq(Message)
    <3>1. Outcome \in Message /\ ui \in Seq(Message)
      BY OutcomeTyped DEF TypeOK
    <3>2. Append(ui, Outcome) \in Seq(Message)
      BY <3>1, AppendProperties
    <3> QED
      BY <1>1, <3>1, <3>2
  <2> QED
    BY <1>1, <2>1 DEF TypeOK, sourceVars, workVars, endVars
<1>3. Outcome' = Outcome
  BY <1>1 DEF Outcome, endVars
<1>4. \A i \in 1 .. Len(ui) : ui[i] = "progress"
  BY <1>1 DEF ToldSound
<1>5. told = Nothing /\ phase = "over"
  BY <1>1 DEF ToldSound
<1>6. \A i \in 1 .. Len(ui') :
        ui'[i] # "progress" => adapter' = "over" /\ i = Len(ui') /\ ui'[i] = Outcome'
  BY <1>1, <1>3, <1>4, OutcomeTyped DEF TypeOK
<1>7. ToldSound'
  BY <1>1, <1>5, <1>6 DEF ToldSound, endVars
<1> QED
  BY <1>1, <1>2, <1>7, StandingKeepsWork, StandingKeepsCancel DEF WorkerStands, sourceVars

LEMMA ShowKeeps ==
  ASSUME DeliveryInv, Show
  PROVE  DeliveryInv'
<1> USE DEF DeliveryInv
<1>1. /\ UNCHANGED <<sourceVars, workVars, endVars, cancel, inTime, queued, adapter, uiOpen>>
      /\ ui # <<>> /\ ui' = Tail(ui)
      /\ told' = IF Head(ui) = "progress" THEN told ELSE Head(ui)
  BY DEF Show
<1>2. ui \in Seq(Message)
  BY DEF TypeOK
<1>3. TypeOK'
  BY <1>1, <1>2 DEF TypeOK, sourceVars, workVars, endVars
<1>4. Outcome' = Outcome
  BY <1>1 DEF Outcome, endVars
<1>5. told = Nothing
  BY <1>1 DEF ToldSound
<1>6. \A i \in 1 .. Len(ui') :
        ui'[i] # "progress" => adapter' = "over" /\ i = Len(ui') /\ ui'[i] = Outcome'
  <2>1. Len(ui') = Len(ui) - 1 /\ \A i \in 1 .. Len(ui') : ui'[i] = ui[i + 1]
    BY <1>1, <1>2
  <2>2. \A i \in 1 .. Len(ui) :
          ui[i] # "progress" => adapter = "over" /\ i = Len(ui) /\ ui[i] = Outcome
    BY DEF ToldSound
  <2>3. \A i \in 1 .. Len(ui') : i + 1 \in 1 .. Len(ui)
    BY <1>2, <2>1
  <2> SUFFICES ASSUME NEW i \in 1 .. Len(ui'), ui'[i] # "progress"
               PROVE  adapter' = "over" /\ i = Len(ui') /\ ui'[i] = Outcome'
    OBVIOUS
  <2>4. adapter = "over" /\ i + 1 = Len(ui) /\ ui'[i] = Outcome
    BY <2>1, <2>2, <2>3
  <2>5. i = Len(ui')
    BY <1>2, <2>1, <2>4
  <2>6. adapter' = adapter
    BY <1>1
  <2>7. ui'[i] = Outcome'
    BY <1>4, <2>4
  <2> QED
    BY <2>4, <2>5, <2>6, <2>7
<1>7. told' # Nothing => adapter' = "over" /\ ui' = <<>> /\ told' = Outcome'
  <2> SUFFICES ASSUME told' # Nothing PROVE adapter' = "over" /\ ui' = <<>> /\ told' = Outcome'
    OBVIOUS
  <2>1. Head(ui) # "progress" /\ told' = Head(ui) /\ Head(ui) = ui[1] /\ 1 \in 1 .. Len(ui)
    BY <1>1, <1>2, <1>5
  <2>2. adapter = "over" /\ Len(ui) = 1 /\ ui[1] = Outcome
    BY <2>1 DEF ToldSound
  <2>3. Tail(ui) = <<>>
    BY <1>1, <1>2, <2>2, HeadTailProperties, EmptySeq
  <2> QED
    BY <1>1, <1>4, <2>1, <2>2, <2>3
<1>8. ToldSound'
  BY <1>1, <1>6, <1>7 DEF ToldSound, endVars
<1> QED
  BY <1>1, <1>3, <1>8, StandingKeepsWork, StandingKeepsCancel DEF WorkerStands, sourceVars

LEMMA CancelKeeps ==
  ASSUME DeliveryInv, Cancel
  PROVE  DeliveryInv'
<1> USE DEF DeliveryInv
<1>1. /\ UNCHANGED <<sourceVars, workVars, endVars, queued, adapterVars>>
      /\ cancel' = TRUE /\ inTime' = StillChecked
  BY DEF Cancel
<1>2. TypeOK'
  BY <1>1 DEF TypeOK, sourceVars, workVars, endVars, adapterVars, StillChecked
<1>3. ToldSound'
  BY <1>1 DEF ToldSound, Outcome, endVars, adapterVars
<1>4. StillChecked' = StillChecked
  BY <1>1 DEF StillChecked, Unstarted, InFlight, SourceReady, sourceVars, workVars, endVars
<1>5. StillChecked => ~promoted
  BY DEF StillChecked, WorkSound
<1>6. CancelSound'
  BY <1>1, <1>4, <1>5 DEF CancelSound, endVars
<1> QED
  BY <1>1, <1>2, <1>3, <1>6, StandingKeepsWork DEF WorkerStands

LEMMA OthersKeep ==
  ASSUME DeliveryInv, CloseWindow \/ \E f \in File : Spoil(f)
  PROVE  DeliveryInv'
<1> USE DEF DeliveryInv
<1>1. CASE CloseWindow
  <2>1. /\ UNCHANGED <<sourceVars, workVars, endVars, cancel, inTime, queued, adapter, told>>
        /\ uiOpen' = FALSE /\ ui' = <<>>
    BY <1>1 DEF CloseWindow
  <2>2. TypeOK'
    <3>1. ui' \in Seq(Message)
      BY <2>1, EmptySeq
    <3>2. /\ UNCHANGED <<sourceVars, workVars, endVars, cancel, inTime, queued, adapter, told>>
          /\ uiOpen' \in BOOLEAN
      BY <2>1
    <3> QED
      BY <3>1, <3>2 DEF TypeOK, sourceVars, workVars, endVars
  <2>3. ToldSound'
    BY <2>1 DEF ToldSound, Outcome, endVars
  <2> QED
    BY <2>1, <2>2, <2>3, StandingKeepsWork, StandingKeepsCancel DEF WorkerStands, sourceVars
<1>2. CASE \E f \in File : Spoil(f)
  <2>1. /\ UNCHANGED <<current, sealed, workVars, endVars, cancel, inTime, queued, adapterVars>>
        /\ phase = "copy" /\ source' \in [File -> Content]
    BY <1>2 DEF Spoil, TypeOK, Content
  <2>2. TypeOK'
    BY <2>1 DEF TypeOK, workVars, endVars, adapterVars
  <2>3. ToldSound'
    BY <2>1 DEF ToldSound, Outcome, endVars, adapterVars
  <2>4. CancelSound'
    BY <2>1 DEF CancelSound, StillChecked, Unstarted, InFlight, workVars, endVars
  <2> QED
    BY <2>1, <2>2, <2>3, <2>4, StandingKeepsWork DEF WorkerStands
<1> QED
  BY <1>1, <1>2

LEMMA DeliveryInvKept ==
  ASSUME DeliveryInv, [DeliveryNext]_deliveryVars
  PROVE  DeliveryInv'
<1>1. CASE TransferStep
  BY <1>1, TransferKeeps DEF TransferStep
<1>2. CASE WorkerStep
  <2>1. CASE \E f \in File : Transferring(OwnStep(f))
    BY <2>1, TransferKeeps
  <2>2. CASE /\ Polled
             /\ \/ CannotBegin \/ CannotPlan \/ VerifyReadyCurrent \/ Stage
                \/ (\E f \in File : StartCopy(f)) \/ EndCopy \/ StartFetching
                \/ FetchingEnds
                \/ VerifyStaged \/ Promote \/ Activate
             /\ Stays
    BY <2>2, BeginKeeps, StartCopyKeeps, EndCopyKeeps, StartFetchingKeeps, FetchingEndsKeeps,
       InstallingKeeps
  <2> QED
    BY <1>2, <2>1, <2>2 DEF WorkerStep, Stays
<1>3. CASE AdapterStep
  BY <1>3, ForwardKeeps, ResolveKeeps, TellKeeps DEF AdapterStep
<1>4. CASE Show \/ Cancel \/ CloseWindow \/ \E f \in File : Spoil(f)
  BY <1>4, ShowKeeps, CancelKeeps, OthersKeep
<1>5. CASE UNCHANGED deliveryVars
  <2>1. UNCHANGED <<sourceVars, workVars, endVars, adapterVars, cancel, queued, inTime>>
    BY <1>5 DEF deliveryVars
  <2> QED
    BY <2>1 DEF DeliveryInv, TypeOK, WorkSound, ToldSound, CancelSound, StillChecked, Unstarted,
                InFlight, SourceReady, AllExact, Outcome, sourceVars, workVars, endVars, adapterVars
<1> QED
  BY <1>1, <1>2, <1>3, <1>4, <1>5 DEF DeliveryNext

-----------------------------------------------------------------------------
(* What follows from the invariant *)

(* The inductive invariant holds: the worker's files and transfers, the    *)
(* window's messages and a cancel under way are as its stage says.         *)
THEOREM DeliveryIsSound == DeliverySpec => []DeliveryInv
<1>1. DeliveryInit => DeliveryInv
  BY InitInv
<1>2. DeliveryInv /\ [DeliveryNext]_deliveryVars => DeliveryInv'
  BY DeliveryInvKept
<1> QED
  BY <1>1, <1>2, PTL DEF DeliverySpec

(* Only a directory in which every file is exactly the trusted one is      *)
(* promoted.                                                               *)
THEOREM OnlyTrustedIsPromoted == DeliverySpec => []PromotedIsTrusted
<1>1. DeliveryInv => PromotedIsTrusted
  BY DEF DeliveryInv, WorkSound, PromotedIsTrusted
<1> QED
  BY <1>1, DeliveryIsSound, PTL

(* No transfer outlives the worker's answer. *)
THEOREM TransfersEndFirst == DeliverySpec => []QuietWhenOver
<1>1. DeliveryInv => QuietWhenOver
  BY DEF DeliveryInv, WorkSound, QuietWhenOver
<1> QED
  BY <1>1, DeliveryIsSound, PTL

(* Nothing follows the outcome. *)
THEOREM OutcomeEndsIt == DeliverySpec => []OutcomeIsLast
<1>1. DeliveryInv => OutcomeIsLast
  BY DEF DeliveryInv, WorkSound, ToldSound, OutcomeIsLast
<1> QED
  BY <1>1, DeliveryIsSound, PTL

(* A cancel in time is heeded. *)
THEOREM CancelIsHeeded == DeliverySpec => []CancelledIsNotInstalled
<1>1. DeliveryInv => CancelledIsNotInstalled
  <2> SUFFICES ASSUME DeliveryInv, inTime PROVE ~promoted /\ told # "Complete"
    BY DEF CancelledIsNotInstalled
  <2>1. ~promoted /\ (phase = "over" => result # "Ok")
    BY DEF DeliveryInv, CancelSound, StillChecked
  <2>2. told # Nothing => phase = "over" /\ told = Outcome
    BY DEF DeliveryInv, ToldSound
  <2>3. Nothing # "Complete"
    BY DeliveryAssumption DEF Message
  <2> QED
    BY <2>1, <2>2, <2>3, CompleteMeansOk
<1> QED
  BY <1>1, DeliveryIsSound, PTL

(* The first failure is the end of asking. *)
THEOREM FailureStopsAsking == DeliverySpec => NothingMoreIsAsked
<1>1. ASSUME DeliveryInv, [DeliveryNext]_deliveryVars
      PROVE  [\A f \in File : failure' # Nothing /\ transfer'[f] = "asked" => transfer[f] = "asked"]_deliveryVars
  <2> SUFFICES ASSUME DeliveryNext, NEW f \in File, failure' # Nothing, transfer'[f] = "asked"
               PROVE  transfer[f] = "asked"
    BY <1>1
  <2>1. CASE \E g \in File : Transferring(ServerStep(g)) \/ Transferring(OwnStep(g))
    <3>1. PICK g \in File : Transferring(ServerStep(g)) \/ Transferring(OwnStep(g))
      BY <2>1
    <3>2. CASE \E error : Settle(g, error)
      BY <3>2 DEF Settle
    <3>3. CASE \E to \in {"receiving", "sending"} : transfer' = [transfer EXCEPT ![g] = to]
      BY <1>1, <3>3 DEF DeliveryInv, TypeOK
    <3> QED
      BY <3>1, <3>2, <3>3
         DEF Transferring, ServerStep, OwnStep, Answered, Lost, Receive, Sent, EndOfBody
  <2>2. CASE UNCHANGED transfer
    BY <2>2
  <2>3. CASE Stage
    BY <1>1, <2>3 DEF DeliveryInv, WorkSound, Stage, workVars
  <2>4. CASE StartFetching
    BY <1>1, <2>4 DEF DeliveryInv, WorkSound, StartFetching
  <2> QED
    BY <2>1, <2>2, <2>3, <2>4
       DEF DeliveryNext, TransferStep, WorkerStep, AdapterStep, CannotBegin, CannotPlan, VerifyReadyCurrent,
           StartCopy, EndCopy, FetchingEnds, VerifyStaged, Promote, Activate, Forward, Resolve, Tell,
           Show, Cancel, CloseWindow, Spoil, workVars
<1> QED
  BY <1>1, DeliveryIsSound, PTL DEF DeliverySpec, NothingMoreIsAsked
=============================================================================
