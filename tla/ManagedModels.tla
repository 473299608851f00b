---------------------------- MODULE ManagedModels ----------------------------
(***************************************************************************)
(* The managed model store (RFC-050): generations of a model on disk, the  *)
(* catalog's record of them, and the processes that install, recover, use  *)
(* and clean them up.                                                      *)
(*                                                                         *)
(* Several processes may have the profile open: nothing makes the          *)
(* application single-instance.  They meet in the store's lock, which is   *)
(* exclusive for startup recovery, installation and cleanup and shared for *)
(* a loaded model.  A process can die at any step of the exclusive work,   *)
(* and a loss of power can take the catalog back to its last checkpoint    *)
(* (WAL, synchronous=NORMAL) while what was synced to disk stays.          *)
(***************************************************************************)
EXTENDS ModelGenerations

CONSTANTS
  Process,   \* the processes that may open the profile
  Mishaps    \* bound: what else may happen, of those below

ASSUME ModelsAssumption ==
  /\ None \notin Process
  /\ Mishaps \subseteq {"damage", "misread", "powerloss", "cleanup"}

VARIABLES
  catalog,      \* managed_model_profiles and managed_model_generations
  checkpoint,   \* the catalog as it would be after a loss of power
  place,        \* the directory a generation's files are in
  content,      \* the manifest its files are complete for, if they are
  up,           \* the processes that passed startup
  build,        \* the manifest of a process's application build
  owner,        \* who holds the store's lock exclusively
  step,         \* where the owner's work is
  subject,      \* the generation that work is about
  listed,       \* the directories startup has read the names of, and not
                \* yet looked at
  searchModel,  \* the generation search has loaded, with its shared lock
  loopModel     \* the generation the preparation loop has loaded

diskVars == <<place, content>>
lockVars == <<owner, step, subject, listed>>
userVars == <<up, build, searchModel, loopModel>>
vars == <<catalog, checkpoint, diskVars, lockVars, userVars>>

Place == {"none", "staging", "generations", "quarantine", "removed"}

Startup == {"advance", "staging", "recovered", "orphans", "judge", "release"}
Install == {"stage", "promote", "register", "activate", "confirm"}
Step    == Startup \union Install \union {"idle", "cleanup"}

Init ==
  /\ catalog = EmptyCatalog
  /\ checkpoint = EmptyCatalog
  /\ place = [g \in Generation |-> "none"]
  /\ content = [g \in Generation |-> None]
  /\ up = {}
  /\ build = [p \in Process |-> None]
  /\ owner = None
  /\ step = "idle"
  /\ subject = None
  /\ listed = {}
  /\ searchModel = [p \in Process |-> None]
  /\ loopModel = [p \in Process |-> None]

-----------------------------------------------------------------------------
(* The lock and the files *)

(* Faulty variant: a shared lock does not keep the store. *)
NobodyOwnsStore == owner = None

(* What acquire_exclusive waits for; it gives up after a timeout, and the  *)
(* work is not begun.                                                      *)
StoreIsFree == owner = None /\ \A p \in Process : searchModel[p] = None

(* The end of the exclusive work drops the guard. *)
Release == owner' = None /\ step' = "idle" /\ subject' = None /\ listed' = {}

GoTo(s, g) == step' = s /\ subject' = g /\ UNCHANGED <<owner, listed>>

(* read_entries: the directories there now, each looked at once.           *)
Walk(s, directories) ==
  step' = s /\ subject' = None /\ listed' = directories /\ UNCHANGED owner
Visited(g) == listed' = listed \ {g} /\ UNCHANGED owner

(* Faulty variant: a directory is taken for a complete one. *)
IsPresent(g) == place[g] # "none"

(* validate_and_load: the files are those of the owner's own manifest and  *)
(* the model in them loads.                                                *)
Verifies(g) == content[g] = build[owner]

(* record_and_generation_load, verify_generation_validity. *)
VerifiesAsRecorded(g) == catalog.manifest[g] = build[owner] /\ Verifies(g)

(* What a verification can report: a read error, of a file or of the       *)
(* catalog, counts as a failure.                                           *)
Verdicts(verifies) == {verifies} \union {v \in {FALSE} : "misread" \in Mishaps}

Move(g, to) == place' = [place EXCEPT ![g] = to]

(* transition and apply_snapshot: the next state of the catalog is built   *)
(* from the one read under the store's lock and written in one transaction.*)
(* It keeps every generation and never lowers the epoch, and nobody else   *)
(* writes meanwhile, so none of its checks refuses.                        *)
Committed(next) == catalog' = next

-----------------------------------------------------------------------------
(* Startup: run_managed_model_startup *)

BeginStartup(p, m) ==
  /\ p \notin up
  /\ MayAdvance(catalog)
  /\ StoreIsFree
  /\ owner' = p
  /\ step' = "advance"
  /\ UNCHANGED <<subject, listed>>
  /\ build' = [build EXCEPT ![p] = m]
  /\ UNCHANGED <<catalog, checkpoint, diskVars, up, searchModel, loopModel>>

AdvanceEpoch ==
  /\ step = "advance"
  /\ MayAdvance(catalog)
  /\ Committed(Advanced(catalog))
  /\ Walk("staging", {g \in Generation : place[g] = "staging"})

Advance == AdvanceEpoch /\ UNCHANGED <<checkpoint, diskVars, userVars>>

(* A staged directory is moved to the generations if it proves complete,   *)
(* and to quarantine if not.  A move that fails ends the startup: Exit.    *)
RecoverStaged(g) ==
  /\ step = "staging"
  /\ g \in listed
  /\ \E complete \in Verdicts(Verifies(g)) :
       IF complete
       THEN Move(g, "generations") /\ step' = "recovered" /\ subject' = g
       ELSE Move(g, "quarantine") /\ UNCHANGED <<step, subject>>
  /\ Visited(g)
  /\ UNCHANGED <<catalog, checkpoint, content, userVars>>

(* register_inactive_if_unreferenced *)
RegisterIfUnreferenced(g) ==
  IF MayRegister(catalog, g)
  THEN Committed(Registered(catalog, g, build[owner]))
  ELSE UNCHANGED catalog

RegisterRecovered ==
  /\ step = "recovered"
  /\ RegisterIfUnreferenced(subject)
  /\ GoTo("staging", None)
  /\ UNCHANGED <<checkpoint, diskVars, userVars>>

IsOrphan(g) == place[g] = "generations" /\ catalog.state[g] = "absent"

(* What the generations hold beyond those the catalog refers to.           *)
Orphans == {g \in Generation : IsOrphan(g)}

StagingDone ==
  /\ step = "staging"
  /\ listed = {}
  /\ Walk("orphans", Orphans)
  /\ UNCHANGED <<catalog, checkpoint, diskVars, userVars>>

RecoverOrphan(g) ==
  /\ step = "orphans"
  /\ g \in listed
  /\ \E complete \in Verdicts(Verifies(g)) :
       IF complete
       THEN RegisterIfUnreferenced(g) /\ UNCHANGED place
       ELSE Move(g, "quarantine") /\ UNCHANGED catalog
  /\ Visited(g)
  /\ UNCHANGED <<checkpoint, content, step, subject, userVars>>

OrphansDone ==
  /\ step = "orphans"
  /\ listed = {}
  /\ GoTo("judge", None)
  /\ UNCHANGED <<catalog, checkpoint, diskVars, userVars>>

(* The process goes on to open its window. *)
ComeUp == Release /\ up' = up \union {owner}

NoCurrent ==
  /\ step = "judge"
  /\ catalog.current = None
  /\ ComeUp
  /\ UNCHANGED <<catalog, checkpoint, diskVars, build, searchModel, loopModel>>

(* The current generation verifies: recorded, and in a transaction of its  *)
(* own the previous one is released.                                       *)
ValidateCurrent ==
  /\ step = "judge"
  /\ MayValidate(catalog)
  /\ VerifiesAsRecorded(catalog.current)
  /\ Committed(Validated(catalog))
  /\ IF catalog.previous # None
     THEN GoTo("release", None) /\ UNCHANGED up
     ELSE ComeUp
  /\ UNCHANGED <<checkpoint, diskVars, build, searchModel, loopModel>>

(* Faulty variant: what is released is removed at once.                    *)
ReleaseAndRemovePrevious ==
  /\ step = "release"
  /\ MayRelease(catalog)
  /\ Committed(Released(catalog))
  /\ Move(catalog.previous, "removed")
  /\ ComeUp
  /\ UNCHANGED <<checkpoint, content, build, searchModel, loopModel>>

ReleasePrevious ==
  /\ step = "release"
  /\ MayRelease(catalog)
  /\ Committed(Released(catalog))
  /\ ComeUp
  /\ UNCHANGED <<checkpoint, diskVars, build, searchModel, loopModel>>

PreviousVerifies == catalog.previous # None /\ VerifiesAsRecorded(catalog.previous)

RollBack == \E verified \in Verdicts(PreviousVerifies) : Committed(RolledBack(catalog, verified))

RollBackAtStartup ==
  /\ step = "judge"
  /\ MayRollBack(catalog)
  /\ FALSE \in Verdicts(VerifiesAsRecorded(catalog.current))
  /\ RollBack
  /\ ComeUp
  /\ UNCHANGED <<checkpoint, diskVars, build, searchModel, loopModel>>

-----------------------------------------------------------------------------
(* Installation: install_default_model *)

(* There is something to install: no current generation, or its files are  *)
(* not those of the manifest.  A fresh id is drawn for what will be staged.*)
BeginInstall(p, g) ==
  /\ p \in up
  /\ StoreIsFree
  /\ catalog.current # None => content[catalog.current] # build[p]
  /\ place[g] = "none"
  /\ owner' = p
  /\ step' = "stage"
  /\ subject' = g
  /\ Move(g, "staging")
  /\ UNCHANGED <<catalog, checkpoint, content, listed, userVars>>

FilesStaged ==
  /\ step = "stage"
  /\ content' = [content EXCEPT ![subject] = build[owner]]
  /\ GoTo("promote", subject)
  /\ UNCHANGED <<catalog, checkpoint, place, userVars>>

(* A transfer fails or is cancelled: the staged files are removed, if they *)
(* can be.                                                                 *)
StagingFails ==
  /\ step = "stage"
  /\ place' \in {place, [place EXCEPT ![subject] = "removed"]}
  /\ Release
  /\ UNCHANGED <<catalog, checkpoint, content, userVars>>

Promote ==
  /\ step = "promote"
  /\ Verifies(subject)
  /\ Move(subject, "generations")
  /\ GoTo("register", subject)
  /\ UNCHANGED <<catalog, checkpoint, content, userVars>>

RegisterPromoted ==
  /\ step = "register"
  /\ Verifies(subject)
  /\ MayRegister(catalog, subject)
  /\ Committed(Registered(catalog, subject, build[owner]))
  /\ GoTo("activate", subject)
  /\ UNCHANGED <<checkpoint, diskVars, userVars>>

Activate ==
  /\ step = "activate"
  /\ MayActivate(catalog, subject)
  /\ Committed(Activated(catalog, subject))
  /\ GoTo("confirm", subject)
  /\ UNCHANGED <<checkpoint, diskVars, userVars>>

(* A verification, a file operation or a catalog access on the way to the  *)
(* activation fails, or the activation is refused; what is on disk and in  *)
(* the catalog stays.                                                      *)
InstallGivesUp ==
  /\ step \in {"promote", "register", "activate"}
  /\ Release
  /\ UNCHANGED <<catalog, checkpoint, diskVars, userVars>>

(* confirm_active_generation: the new generation is the current one and    *)
(* its files still verify.                                                 *)
Confirmed == catalog.current = subject /\ VerifiesAsRecorded(subject)

ConfirmActive ==
  /\ step = "confirm"
  /\ Confirmed
  /\ Release
  /\ UNCHANGED <<catalog, checkpoint, diskVars, userVars>>

(* Where the roll-back itself cannot be written, the generation that did   *)
(* not verify stays current, for the next start to judge.                  *)
RollBackInstall ==
  /\ step = "confirm"
  /\ FALSE \in Verdicts(Confirmed)
  /\ MayRollBack(catalog)
  /\ RollBack \/ UNCHANGED catalog
  /\ Release
  /\ UNCHANGED <<checkpoint, diskVars, userVars>>

-----------------------------------------------------------------------------
(* cleanup_managed_model_generations *)

BeginCleanup(p) ==
  /\ "cleanup" \in Mishaps
  /\ p \in up
  /\ StoreIsFree
  /\ owner' = p
  /\ step' = "cleanup"
  /\ UNCHANGED <<catalog, checkpoint, diskVars, subject, listed, userVars>>

(* Faulty variant: whatever is not in use goes. *)
AllButCurrent == {g \in Generation : catalog.state[g] \notin {"absent", "current"}}

Removable == {g \in Generation : catalog.state[g] \in {"inactive", "invalid"}}

RemoveGeneration(g) ==
  /\ step = "cleanup"
  /\ g \in Removable
  /\ place[g] = "generations"
  /\ Move(g, "removed")
  /\ UNCHANGED <<catalog, checkpoint, content, lockVars, userVars>>

EndCleanup ==
  /\ step = "cleanup"
  /\ Release
  /\ UNCHANGED <<catalog, checkpoint, diskVars, userVars>>

-----------------------------------------------------------------------------
(* Use of the model *)

(* resolve_embedding_worker_parts under the shared lock. *)
Resolves(p) ==
  /\ p \in up
  /\ owner = None
  /\ catalog.current # None
  /\ content[catalog.current] # None

(* The lock stays with the model search keeps. *)
ResolveForSearch(p) ==
  /\ Resolves(p)
  /\ searchModel' = [searchModel EXCEPT ![p] = catalog.current]
  /\ UNCHANGED <<catalog, checkpoint, diskVars, lockVars, up, build, loopModel>>

(* The loop takes the model out of what was resolved and drops the rest,   *)
(* the lock with it.                                                       *)
ResolveForLoop(p) ==
  /\ Resolves(p)
  /\ loopModel' = [loopModel EXCEPT ![p] = catalog.current]
  /\ UNCHANGED <<catalog, checkpoint, diskVars, lockVars, up, build, searchModel>>

-----------------------------------------------------------------------------
(* What happens to processes, files and the machine *)

(* A process ends, or dies at whatever step its exclusive work is; the     *)
(* operating system drops its locks.                                       *)
Exit(p) ==
  /\ p \in up \/ owner = p
  /\ up' = up \ {p}
  /\ searchModel' = [searchModel EXCEPT ![p] = None]
  /\ loopModel' = [loopModel EXCEPT ![p] = None]
  /\ build' = [build EXCEPT ![p] = None]
  /\ IF owner = p THEN Release ELSE UNCHANGED lockVars
  /\ UNCHANGED <<catalog, checkpoint, diskVars>>

(* Files of a complete generation are lost or spoilt from outside. *)
Damage(g) ==
  /\ "damage" \in Mishaps
  /\ place[g] = "generations"
  /\ content' = [content EXCEPT ![g] = None]
  /\ UNCHANGED <<catalog, checkpoint, place, lockVars, userVars>>

(* SQLite syncs its log when it checkpoints, which it may do after any     *)
(* transaction.                                                            *)
Checkpoint ==
  /\ "powerloss" \in Mishaps
  /\ checkpoint' = catalog
  /\ UNCHANGED <<catalog, diskVars, lockVars, userVars>>

PowerLoss ==
  /\ "powerloss" \in Mishaps
  /\ catalog' = checkpoint
  /\ up' = {}
  /\ searchModel' = [p \in Process |-> None]
  /\ loopModel' = [p \in Process |-> None]
  /\ build' = [p \in Process |-> None]
  /\ Release
  /\ UNCHANGED <<checkpoint, diskVars>>

-----------------------------------------------------------------------------
StartupStep ==
  \/ Advance \/ RegisterRecovered \/ StagingDone \/ OrphansDone
  \/ NoCurrent \/ ValidateCurrent \/ ReleasePrevious \/ RollBackAtStartup
  \/ \E g \in Generation : RecoverStaged(g) \/ RecoverOrphan(g)

InstallStep ==
  \/ FilesStaged \/ StagingFails \/ Promote \/ RegisterPromoted \/ Activate
  \/ InstallGivesUp \/ ConfirmActive \/ RollBackInstall

CleanupStep == EndCleanup \/ \E g \in Generation : RemoveGeneration(g)

OwnerStep == StartupStep \/ InstallStep \/ CleanupStep

Begin ==
  \E p \in Process :
    \/ \E m \in Manifest : BeginStartup(p, m)
    \/ \E g \in Generation : BeginInstall(p, g)
    \/ BeginCleanup(p)

Use == \E p \in Process : ResolveForSearch(p) \/ ResolveForLoop(p)

Mishap ==
  \/ \E p \in Process : Exit(p)
  \/ \E g \in Generation : Damage(g)
  \/ Checkpoint
  \/ PowerLoss

Next == Begin \/ OwnerStep \/ Use \/ Mishap

Spec == Init /\ [][Next]_vars

-----------------------------------------------------------------------------
(* Correctness *)

TypeOK ==
  /\ catalog \in Catalog
  /\ checkpoint \in Catalog
  /\ place \in [Generation -> Place]
  /\ content \in [Generation -> Manifest \union {None}]
  /\ up \subseteq Process
  /\ build \in [Process -> Manifest \union {None}]
  /\ owner \in Process \union {None}
  /\ step \in Step
  /\ subject \in Generation \union {None}
  /\ listed \subseteq Generation
  /\ searchModel \in [Process -> Generation \union {None}]
  /\ loopModel \in [Process -> Generation \union {None}]

(* After every transaction, in whatever order processes started, installed *)
(* and died, the pointers, states and epochs of the record agree, although *)
(* no transition looks at more than it changes: the check the code makes   *)
(* of the result of each transition (generation.rs:186-243) never refuses. *)
CatalogCoherent == Coherent(catalog)

(* What a failed generation is rolled back to has itself survived a start  *)
(* of the application after its activation (generation.rs:293-301,         *)
(* RFC-050 section 7.2).                                                   *)
PreviousSurvivedRestart == PreviousProven(catalog)

(* The transitions startup and installation rely on are never refused:     *)
(* what startup validates was activated in an earlier epoch, what it       *)
(* releases may be released, what was just activated can be rolled back    *)
(* (model_lifecycle.rs:236-298, model_delivery.rs:230-245).                *)
NeverRefused ==
  /\ step = "judge" /\ catalog.current # None => MayValidate(catalog)
  /\ step = "release"  => MayRelease(catalog)
  /\ step = "register" => MayRegister(catalog, subject)
  /\ step = "confirm"  => MayRollBack(catalog) /\ catalog.current = subject

(* When startup comes to judge the current generation nothing is left      *)
(* between the catalog and the disk, wherever earlier processes died: no   *)
(* staged directory, and no generation the catalog does not know           *)
(* (model_lifecycle.rs:123-224).                                           *)
NothingAstray ==
  step \in {"judge", "release"} =>
    \A g \in Generation : /\ place[g] # "staging"
                          /\ place[g] = "generations" => catalog.state[g] # "absent"

(* Startup, installation, roll-back and cleanup, cut short anywhere, leave *)
(* the directories of the current and the previous generation in place,    *)
(* and so does a loss of power that takes the catalog back to an earlier   *)
(* one, unless cleanup has removed what that one still names (RFC-050      *)
(* section 7): so it is claimed where there is no cleanup, or no such loss.*)
ProtectedKept ==
  \A g \in {catalog.current, catalog.previous} \ {None} : place[g] = "generations"

(* Unless its files are damaged later, a generation the catalog knows has  *)
(* the complete files of the manifest it is recorded with: no interrupted  *)
(* transfer is ever registered (model_delivery.rs:187-223,                 *)
(* model_lifecycle.rs:141-183).                                            *)
RegisteredIsComplete ==
  \A g \in Generation :
    catalog.state[g] # "absent" /\ place[g] = "generations"
      => \/ content[g] = catalog.manifest[g]
         \/ "damage" \in Mishaps /\ content[g] = None

(* While search holds the model it loaded, in any process, that generation *)
(* stays the current one (search_model.rs:17-20, RFC-050 section 5).       *)
LeaseProtects ==
  \A p \in Process : searchModel[p] # None => catalog.current = searchModel[p]

(* What a step does to the current generation and its fallback. *)
FallbackStays ==
  LET old == catalog  new == catalog'
  IN \/ new = checkpoint
     \/ /\ old.current # None /\ new.current # old.current =>
             new.previous = old.current \/ new.state[old.current] = "invalid"
        /\ old.previous # None /\ new.previous # old.previous =>
             \/ old.validated[old.current] # NoEpoch
             \/ new.state[old.current] = "invalid"

(* A generation is replaced only by one it stays the fallback of, and a    *)
(* fallback is given up only for a current generation that was validated   *)
(* by a later start, unless what is given up was found invalid             *)
(* (generation.rs:282-332, 418-452).                                       *)
FallbackKept == [][FallbackStays]_vars

-----------------------------------------------------------------------------
(***************************************************************************)
(* Why the invariants above hold: the strengthening that every step keeps. *)
(***************************************************************************)

(* What a loss of power would leave is as sound as the catalog, and knows  *)
(* no generation the catalog does not.                                     *)
CheckpointSound ==
  /\ Coherent(checkpoint)
  /\ PreviousProven(checkpoint)
  /\ \A g \in Generation : checkpoint.state[g] # "absent" => catalog.state[g] # "absent"

(* No epoch recorded lies ahead; from the moment startup has counted       *)
(* itself, until it judges, every activation lies behind.                  *)
EpochsSound ==
  /\ \A c \in {catalog, checkpoint} : \A g \in Generation : c.activated[g] <= c.epoch
  /\ step \in {"staging", "recovered", "orphans", "judge"} =>
       \A g \in Generation : catalog.activated[g] < catalog.epoch

(* The exclusive lock excludes every shared one; whoever works has a build. *)
LockSound ==
  /\ step = "idle" <=> owner = None
  /\ step = "cleanup" => "cleanup" \in Mishaps
  /\ owner # None => \A p \in Process : searchModel[p] = None
  /\ \A p \in Process : p \in up \/ owner = p => build[p] # None

(* The subject of the work under the lock, from its staging directory to   *)
(* its activation.                                                         *)
SubjectSound ==
  /\ step \in Install \union {"recovered"} => subject # None
  /\ step \in {"stage", "promote"} => place[subject] = "staging"
  /\ step \in {"register", "activate", "confirm", "recovered"} => place[subject] = "generations"
  /\ step \in {"stage", "promote", "register"} => catalog.state[subject] = "absent"
  /\ step = "confirm" => catalog.current = subject

(* A recorded generation's directory has left staging for good, and is     *)
(* never gone unless cleanup took it.                                      *)
RecordedSound ==
  \A g \in Generation :
    catalog.state[g] # "absent" =>
      \/ place[g] = "generations"
      \/ place[g] = "removed" /\ "cleanup" \in Mishaps

(* What is listed and not yet looked at is all that is left astray: first  *)
(* in staging, then among the generations.                                 *)
WalkSound ==
  /\ step \in {"staging", "recovered"} =>
       \A g \in Generation : place[g] = "staging" <=> g \in listed
  /\ step = "orphans" =>
       \A g \in Generation : /\ place[g] # "staging"
                             /\ g \in listed <=> IsOrphan(g)

ReleaseSound == step = "release" => MayRelease(catalog)

(* The inductive invariant of the store. *)
ModelsInv ==
  /\ TypeOK
  /\ CatalogCoherent
  /\ PreviousSurvivedRestart
  /\ CheckpointSound
  /\ EpochsSound
  /\ LockSound
  /\ SubjectSound
  /\ RecordedSound
  /\ WalkSound
  /\ NothingAstray
  /\ ReleaseSound
  /\ LeaseProtects
  /\ {"powerloss", "cleanup"} \subseteq Mishaps \/ ProtectedKept

(* Beside it: a known generation's files are what its record says, unless  *)
(* damaged, also in the record a loss of power goes back to; what startup  *)
(* is about to register has just been verified.                            *)
FilesAs(g, m) == content[g] = m \/ ("damage" \in Mishaps /\ content[g] = None)

CompleteInv ==
  /\ \A g \in Generation :
       /\ catalog.state[g] # "absent" => FilesAs(g, catalog.manifest[g])
       /\ checkpoint.state[g] # "absent" => checkpoint.manifest[g] = catalog.manifest[g]
  /\ step = "recovered" => FilesAs(subject, build[owner])

=============================================================================
