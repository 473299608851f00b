---------------------------- MODULE ModelDelivery ----------------------------
(***************************************************************************)
(* One download of the managed model: the worker that copies and fetches   *)
(* the files of a new generation (workers/model_delivery.rs) and the       *)
(* adapter between it and the window (app/download.rs).                    *)
(*                                                                         *)
(* The two are one task.  The adapter waits for the worker's result and    *)
(* for its progress at once, and while it hands progress to the window the *)
(* worker stands still.  Several transfers run inside the worker; each     *)
(* waits on its own for the server and for room in the progress channel.   *)
(* The window's thread sets the cancel flag whenever it likes; the files   *)
(* the worker copies can change after they were checked.                   *)
(*                                                                         *)
(* ManagedModels has the catalog's and the lock's side of an installation, *)
(* with crashes; there all of this module is BeginInstall, FilesStaged or  *)
(* StagingFails, and what follows.                                         *)
(***************************************************************************)
EXTENDS Integers, Sequences, FiniteSets

CONSTANTS
  Nothing,       \* no file, no error
  Files,         \* how many files the manifest lists
  Length,        \* chunks in a file of the exact size
  MaxConcurrent, \* transfers at a time (2)
  Buffer,        \* room in the progress channel (64)
  UiBuffer       \* room in the window's channel (64)

File == 1 .. Files

Failure == {"StoreUnavailable", "StoreBusy", "Plan", "Network", "TransferLimit", "Integrity",
            "Filesystem", "Catalog", "FinalCheck", "Cancelled"}

Message == {"progress", "Complete", "StoreUnavailable", "Connection", "LocalStorage",
            "Cancelled", "Verification"}

ASSUME DeliveryAssumption ==
  /\ Files \in Nat /\ Length \in Nat \ {0} /\ MaxConcurrent \in Nat \ {0}
  /\ Buffer \in Nat /\ UiBuffer \in Nat
  /\ Nothing \notin File /\ Nothing \notin Failure \union Message \union {"Ok"}

VARIABLES
  source,   \* of a file: what the source directory has under its name
  current,  \* whether that directory is the current generation's
  sealed,   \* whether its manifest and COMPLETE marker are right
  phase,    \* where the worker is
  tocopy,   \* files the plan skips, not yet copied
  copying,  \* the file being copied
  transfer, \* of a file: where its transfer is
  got,      \* of a file: chunks received
  wrong,    \* files with a chunk that is not the trusted file's
  staged,   \* of a file: what the staging directory has under its name
  failure,  \* first_error
  promoted, \* whether the staged directory became a generation
  result,   \* what install_default_model returned
  cancel,   \* the cancel flag
  queued,   \* progress events in the worker's channel
  adapter,  \* where run_with_installer is
  uiOpen,   \* whether the window still receives
  ui,       \* messages in the window's channel
  told,     \* the outcome the window was told
  inTime    \* history: the flag was set with work still to do

sourceVars == <<source, current, sealed>>
workVars == <<tocopy, copying, transfer, got, wrong, staged, failure>>
endVars == <<phase, promoted, result>>
adapterVars == <<adapter, uiOpen, ui, told>>
deliveryVars == <<sourceVars, workVars, endVars, adapterVars, cancel, queued, inTime>>

(* A file cut short and left as .part is no file. *)
Content == {"exact", "other", "absent", "unreadable"}

DeliveryInit ==
  /\ source \in [File -> Content]
  /\ current \in BOOLEAN
  /\ sealed \in BOOLEAN
  /\ phase = "begin"
  /\ tocopy = {}
  /\ copying = Nothing
  /\ transfer = [f \in File |-> "none"]
  /\ got = [f \in File |-> 0]
  /\ wrong = {}
  /\ staged = [f \in File |-> "absent"]
  /\ failure = Nothing
  /\ promoted = FALSE
  /\ result = Nothing
  /\ cancel = FALSE
  /\ queued = 0
  /\ adapter = "selecting"
  /\ uiOpen = TRUE
  /\ ui = <<>>
  /\ told = Nothing
  /\ inTime = FALSE

-----------------------------------------------------------------------------
(* The channels *)

(* A sender goes on once the message it sent last is within the buffer.    *)
UiHasRoom == Len(ui) <= UiBuffer

ToUi(message) == ui' = IF uiOpen THEN Append(ui, message) ELSE ui

(* select! polls the worker between two messages it forwards. *)
Polled == adapter = "selecting" /\ UiHasRoom

InFlight == {f \in File : transfer[f] \in {"asked", "receiving", "sending"}}

(* Every event beyond the buffer has its own sender waiting. *)
Admitted == queued < Buffer + Cardinality({f \in File : transfer[f] = "sending"})

-----------------------------------------------------------------------------
(* install_default_model, up to the staging directory *)

Returns(r) == phase' = "over" /\ result' = r

Unchecked == \E f \in File : source[f] = "unreadable"
SourceReady == \A f \in File : source[f] = "exact"

(* Preflight, the lock, or reading the catalog. *)
CannotBegin ==
  /\ phase = "begin"
  /\ \E r \in {"StoreUnavailable", "StoreBusy", "Catalog"} : Returns(r)
  /\ UNCHANGED <<sourceVars, workVars, promoted>>

CannotPlan ==
  /\ phase = "begin"
  /\ Unchecked
  /\ Returns("Plan")
  /\ UNCHANGED <<sourceVars, workVars, promoted>>

(* verify_ready_current: there is nothing to fetch. *)
VerifyReadyCurrent ==
  /\ phase = "begin"
  /\ SourceReady /\ current
  /\ Returns(IF sealed THEN "Ok" ELSE "Integrity")
  /\ UNCHANGED <<sourceVars, workVars, promoted>>

(* plan_action: an exact file is skipped, any other is fetched. *)
Stage ==
  /\ phase = "begin"
  /\ ~Unchecked /\ ~(SourceReady /\ current)
  /\ \/ Returns("Filesystem") /\ UNCHANGED workVars
     \/ /\ phase' = "copy"
        /\ tocopy' = {f \in File : source[f] = "exact"}
        /\ transfer' = [f \in File |-> IF source[f] = "exact" THEN "none" ELSE "waiting"]
        /\ UNCHANGED <<result, copying, got, wrong, staged, failure>>
  /\ UNCHANGED <<sourceVars, promoted>>

-----------------------------------------------------------------------------
(* stage_files: the files that are skipped *)

(* The staging directory is removed, as far as it can be. *)
StagingFailed(r) ==
  /\ Returns(r)
  /\ staged' \in {staged, [f \in File |-> "absent"]}

Unstarted == tocopy \ {copying}

StartCopy(f) ==
  /\ phase = "copy" /\ copying = Nothing
  /\ f \in tocopy /\ \A g \in tocopy : f <= g
  /\ IF cancel
     THEN StagingFailed("Cancelled") /\ UNCHANGED copying
     ELSE copying' = f /\ UNCHANGED <<phase, result, staged>>
  /\ UNCHANGED <<sourceVars, tocopy, transfer, got, wrong, failure, promoted>>

EndCopy ==
  /\ phase = "copy" /\ copying # Nothing
  /\ \/ /\ source[copying] # "absent"
        /\ staged' = [staged EXCEPT ![copying] = source[copying]]
        /\ tocopy' = tocopy \ {copying}
        /\ UNCHANGED <<phase, result>>
     \/ StagingFailed("Filesystem") /\ UNCHANGED tocopy
  /\ copying' = Nothing
  /\ UNCHANGED <<sourceVars, transfer, got, wrong, failure, promoted>>

(* The first transfers are started. *)
StartFetching ==
  /\ phase = "copy" /\ tocopy = {}
  /\ phase' = "fetch"
  /\ transfer' = [f \in File |->
       IF /\ transfer[f] = "waiting"
          /\ Cardinality({g \in 1 .. f : transfer[g] = "waiting"}) <= MaxConcurrent
       THEN "asked" ELSE transfer[f]]
  /\ UNCHANGED <<sourceVars, tocopy, copying, got, wrong, staged, failure, promoted, result>>

-----------------------------------------------------------------------------
(* stage_files and download_file: the transfers *)

NextUp == {f \in File : transfer[f] = "waiting" /\ \A g \in 1 .. f - 1 : transfer[g] # "waiting"}

(* Faulty variant: the flag is left to the transfers. *)
FirstErrorOnly(error) == IF failure # Nothing THEN failure ELSE error

(* A transfer ends with an error, or with none; what is to be returned.    *)
FirstError(error) ==
  IF failure # Nothing THEN failure
  ELSE IF error # Nothing THEN error
  ELSE IF cancel THEN "Cancelled" ELSE Nothing

Settle(f, error) ==
  /\ failure' = FirstError(error)
  /\ transfer' = [g \in File |->
       IF g = f THEN "settled"
       ELSE IF g \in NextUp /\ failure' = Nothing THEN "asked" ELSE transfer[g]]

(* The server answers: with an error, with a length that is not the exact  *)
(* one, or with a body.                                                    *)
Answered(f) ==
  /\ transfer[f] = "asked"
  /\ \/ \E error \in {"Network", "Integrity", "Filesystem"} : Settle(f, error)
     \/ transfer' = [transfer EXCEPT ![f] = "receiving"] /\ UNCHANGED failure
  /\ UNCHANGED <<got, wrong, staged, queued>>

(* Faulty variant: the transfer ends only as the server likes. *)
NeverLost(f) == FALSE /\ UNCHANGED deliveryVars

(* The connection breaks, or the request's time is over. *)
Lost(f) ==
  /\ transfer[f] \in {"asked", "receiving"}
  /\ Settle(f, IF cancel /\ transfer[f] = "receiving" THEN "Cancelled" ELSE "Network")
  /\ UNCHANGED <<got, wrong, staged, queued>>

(* A chunk: refused when the download is cancelled or the file would grow  *)
(* beyond its exact size, else written, and its progress sent.             *)
Receive(f) ==
  /\ transfer[f] = "receiving"
  /\ IF cancel
     THEN Settle(f, "Cancelled") /\ UNCHANGED <<got, wrong, queued>>
     ELSE IF got[f] = Length
     THEN Settle(f, "TransferLimit") /\ UNCHANGED <<got, wrong, queued>>
     ELSE \/ Settle(f, "Filesystem") /\ UNCHANGED <<got, wrong, queued>>
          \/ /\ got' = [got EXCEPT ![f] = @ + 1]
             /\ wrong' \in {wrong, wrong \union {f}}
             /\ queued' = queued + 1
             /\ transfer' = [transfer EXCEPT ![f] = "sending"]
             /\ UNCHANGED failure
  /\ UNCHANGED staged

Sent(f) ==
  /\ transfer[f] = "sending"
  /\ Admitted
  /\ transfer' = [transfer EXCEPT ![f] = "receiving"]
  /\ UNCHANGED <<got, wrong, staged, failure, queued>>

(* The body ends: the file is checked and takes its name. *)
EndOfBody(f) ==
  /\ transfer[f] = "receiving"
  /\ \/ Settle(f, "Filesystem") /\ UNCHANGED staged
     \/ IF got[f] = Length /\ f \notin wrong
        THEN Settle(f, Nothing) /\ staged' = [staged EXCEPT ![f] = "exact"]
        ELSE Settle(f, "Integrity") /\ UNCHANGED staged
  /\ UNCHANGED <<got, wrong, queued>>

(* What waits for the server, and what does not. *)
ServerStep(f) == Answered(f) \/ Receive(f) \/ EndOfBody(f)
OwnStep(f) == Lost(f) \/ Sent(f)

(* Every transfer that was started has ended. *)
FetchingEnds ==
  /\ phase = "fetch" /\ InFlight = {}
  /\ IF failure # Nothing
     THEN StagingFailed(failure)
     ELSE phase' = "verify" /\ UNCHANGED <<result, staged>>
  /\ UNCHANGED <<sourceVars, tocopy, copying, transfer, got, wrong, failure, promoted>>

-----------------------------------------------------------------------------
(* execute_generation: what follows the staging *)

(* Faulty variant: files copied from a directory just checked are trusted. *)
VerifyFetched ==
  /\ phase = "verify"
  /\ \/ phase' = "promote" /\ UNCHANGED result
     \/ Returns("Filesystem")
  /\ UNCHANGED <<sourceVars, workVars, promoted>>

(* verify_payload_files, the metadata, and the same once more with it.  A  *)
(* directory that fails here stays where it is, for the next startup.      *)
VerifyStaged ==
  /\ phase = "verify"
  /\ \/ IF \A f \in File : staged[f] = "exact"
        THEN phase' = "promote" /\ UNCHANGED result
        ELSE Returns("Integrity")
     \/ Returns("Filesystem")
  /\ UNCHANGED <<sourceVars, workVars, promoted>>

Promote ==
  /\ phase = "promote"
  /\ \/ promoted' = TRUE /\ phase' = "activate" /\ UNCHANGED result
     \/ Returns("Filesystem") /\ promoted' \in BOOLEAN
  /\ UNCHANGED <<sourceVars, workVars>>

(* Verified, registered, activated and confirmed (see ManagedModels). *)
Activate ==
  /\ phase = "activate"
  /\ \E r \in {"Ok", "Integrity", "Catalog", "FinalCheck"} : Returns(r)
  /\ UNCHANGED <<sourceVars, workVars, promoted>>

Transferring(step) ==
  /\ Polled
  /\ phase = "fetch"
  /\ step
  /\ UNCHANGED <<sourceVars, endVars, tocopy, copying, adapterVars, cancel, inTime>>

TransferStep == \E f \in File : Transferring(ServerStep(f))

WorkerStep ==
  \/ /\ Polled
     /\ \/ CannotBegin \/ CannotPlan \/ VerifyReadyCurrent \/ Stage
        \/ (\E f \in File : StartCopy(f)) \/ EndCopy \/ StartFetching
        \/ FetchingEnds
        \/ VerifyStaged \/ Promote \/ Activate
     /\ UNCHANGED <<queued, adapterVars, cancel, inTime>>
  \/ \E f \in File : Transferring(OwnStep(f))

-----------------------------------------------------------------------------
(* run_with_installer *)

Forward ==
  /\ adapter \in {"selecting", "draining"}
  /\ queued > 0 /\ UiHasRoom
  /\ queued' = queued - 1
  /\ ToUi("progress")
  /\ UNCHANGED <<sourceVars, workVars, endVars, cancel, inTime, adapter, uiOpen, told>>

Resolve ==
  /\ Polled
  /\ phase = "over"
  /\ adapter' = "draining"
  /\ UNCHANGED <<sourceVars, workVars, endVars, cancel, inTime, queued, uiOpen, ui, told>>

(* map_delivery_error *)
Outcome ==
  CASE result = "Ok" -> "Complete"
    [] result \in {"StoreUnavailable", "StoreBusy"} -> "StoreUnavailable"
    [] result = "Network" -> "Connection"
    [] result \in {"Filesystem", "Catalog"} -> "LocalStorage"
    [] result = "Cancelled" -> "Cancelled"
    [] OTHER -> "Verification"

(* Faulty variant: what is still queued is left to be sent after. *)
TellAtOnce ==
  /\ adapter = "draining"
  /\ UiHasRoom
  /\ adapter' = "over"
  /\ ToUi(Outcome)
  /\ UNCHANGED <<sourceVars, workVars, endVars, cancel, inTime, queued, uiOpen, told>>

Tell ==
  /\ adapter = "draining"
  /\ queued = 0 /\ UiHasRoom
  /\ adapter' = "over"
  /\ ToUi(Outcome)
  /\ UNCHANGED <<sourceVars, workVars, endVars, cancel, inTime, queued, uiOpen, told>>

AdapterStep == Forward \/ Resolve \/ Tell

-----------------------------------------------------------------------------
(* The window, and what else happens *)

Show ==
  /\ ui # <<>>
  /\ ui' = Tail(ui)
  /\ told' = IF Head(ui) = "progress" THEN told ELSE Head(ui)
  /\ UNCHANGED <<sourceVars, workVars, endVars, cancel, inTime, queued, adapter, uiOpen>>

(* The flag can still be seen: a copy is to start, or a chunk or the end   *)
(* of a transfer to come.                                                  *)
StillChecked ==
  \/ phase = "begin" /\ ~(SourceReady /\ current) /\ Files > 0
  \/ phase = "copy" /\ (Unstarted # {} \/ \E f \in File : transfer[f] = "waiting")
  \/ phase = "fetch" /\ InFlight # {}

Cancel ==
  /\ told = Nothing /\ ~cancel
  /\ cancel' = TRUE
  /\ inTime' = StillChecked
  /\ UNCHANGED <<sourceVars, workVars, endVars, queued, adapterVars>>

CloseWindow ==
  /\ uiOpen
  /\ uiOpen' = FALSE
  /\ ui' = <<>>
  /\ UNCHANGED <<sourceVars, workVars, endVars, cancel, inTime, queued, adapter, told>>

(* A file of the source directory is replaced or removed by another        *)
(* program after it was checked: it does not know of the lock.             *)
Spoil(f) ==
  /\ phase = "copy"
  /\ source[f] = "exact"
  /\ \E c \in {"other", "absent"} : source' = [source EXCEPT ![f] = c]
  /\ UNCHANGED <<current, sealed, workVars, endVars, cancel, inTime, queued, adapterVars>>

DeliveryNext ==
  \/ TransferStep \/ WorkerStep \/ AdapterStep
  \/ Show \/ Cancel \/ CloseWindow
  \/ \E f \in File : Spoil(f)

(* The task is scheduled and the window takes its messages.  A server need *)
(* never answer, nor a body end: a request is over when its time is.       *)
Fairness == WF_deliveryVars(WorkerStep) /\ WF_deliveryVars(AdapterStep) /\ WF_deliveryVars(Show)

DeliverySpec == DeliveryInit /\ [][DeliveryNext]_deliveryVars

FairDeliverySpec == DeliverySpec /\ Fairness

-----------------------------------------------------------------------------
(* Properties *)

TypeOK ==
  /\ source \in [File -> Content] /\ current \in BOOLEAN /\ sealed \in BOOLEAN
  /\ phase \in {"begin", "copy", "fetch", "verify", "promote", "activate", "over"}
  /\ tocopy \in SUBSET File
  /\ copying \in File \union {Nothing}
  /\ transfer \in [File -> {"none", "waiting", "asked", "receiving", "sending", "settled"}]
  /\ got \in [File -> 0 .. Length]
  /\ wrong \in SUBSET File
  /\ staged \in [File -> Content]
  /\ failure \in Failure \union {Nothing}
  /\ promoted \in BOOLEAN
  /\ result \in Failure \union {Nothing, "Ok"}
  /\ cancel \in BOOLEAN /\ inTime \in BOOLEAN
  /\ queued \in Nat
  /\ adapter \in {"selecting", "draining", "over"}
  /\ uiOpen \in BOOLEAN
  /\ ui \in Seq(Message)
  /\ told \in Message \union {Nothing}

(* Where the worker is says what its files, its transfers and its result   *)
(* can be.                                                                 *)
AllExact == \A f \in File : staged[f] = "exact"

WorkSound ==
  /\ phase # "fetch" => InFlight = {}
  /\ copying # Nothing => phase = "copy" /\ copying \in tocopy
  /\ failure # Nothing => phase \in {"fetch", "over"}
  /\ phase \in {"promote", "activate"} => AllExact
  /\ promoted => phase \in {"activate", "over"} /\ AllExact
  /\ result # Nothing <=> phase = "over"

(* Progress first and the outcome last: what the window was told and what  *)
(* is still on its way to it.                                              *)
ToldSound ==
  /\ adapter # "selecting" => phase = "over"
  /\ adapter = "over" => queued = 0
  /\ \A i \in 1 .. Len(ui) :
       ui[i] # "progress" => adapter = "over" /\ i = Len(ui) /\ ui[i] = Outcome
  /\ told # Nothing => adapter = "over" /\ ui = <<>> /\ told = Outcome

(* A cancel that came in time is yet to be seen, or was.                   *)
CancelSound ==
  inTime =>
    /\ cancel /\ ~promoted
    /\ \/ StillChecked
       \/ phase = "fetch" /\ failure # Nothing
       \/ phase = "over" /\ result # "Ok"

(* The inductive invariant. *)
DeliveryInv == TypeOK /\ WorkSound /\ ToldSound /\ CancelSound

(* A generation is promoted only with every file exactly the trusted one,  *)
(* whatever the server sent and whatever became of the directory the rest  *)
(* was copied from.                                                        *)
PromotedIsTrusted == promoted => AllExact

(* Once the worker has returned, and its staging directory may be gone, no *)
(* transfer of it is under way: none can write there or send progress.     *)
QuietWhenOver == phase = "over" => InFlight = {}

(* The outcome is the last thing the window hears of a download. *)
OutcomeIsLast == told # Nothing => queued = 0 /\ ui = <<>> /\ InFlight = {}

(* A download cancelled while a file was still to be copied or fetched is  *)
(* not installed, however close to its end it was: the flag is looked at   *)
(* before every copy, at every chunk, and as every transfer ends.          *)
CancelledIsNotInstalled == inTime => ~promoted /\ told # "Complete"

(* After the first failure no server is asked for anything more. *)
NothingMoreIsAsked ==
  [][\A f \in File : failure' # Nothing /\ transfer'[f] = "asked" => transfer[f] = "asked"
    ]_deliveryVars

(* Every download comes to an end the window is told of, unless the window *)
(* is closed first: through stalled servers, a full channel and a cancel.  *)
EveryDownloadEnds == <>(told # Nothing \/ ~uiOpen)
=============================================================================
