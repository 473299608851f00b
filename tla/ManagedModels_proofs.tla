-------------------------- MODULE ManagedModels_proofs --------------------------
(***************************************************************************)
(* The invariants of the managed model store, for every number of          *)
(* generations, processes, manifests and starts.                           *)
(***************************************************************************)
EXTENDS ManagedModels, TLAPS

-----------------------------------------------------------------------------
(* What each transition of the generation catalog makes of a sound record. *)

(* A record that is well-formed and coherent, whose fallback is proven and *)
(* whose epochs do not lie ahead.                                          *)
Sound(c) ==
  /\ c \in Catalog
  /\ Coherent(c)
  /\ PreviousProven(c)
  /\ \A g \in Generation : c.activated[g] <= c.epoch

(* Two records know the same generations. *)
SameKnown(c, d) == \A g \in Generation : c.state[g] = "absent" <=> d.state[g] = "absent"

LEMMA EmptySound == Sound(EmptyCatalog)
  BY GenerationAssumption
  DEF Sound, EmptyCatalog, Catalog, Coherent, PreviousProven, Epoch, NoEpoch, Lifecycle

(* Counting a start puts every activation behind it. *)
LEMMA AdvancedSound ==
  ASSUME NEW c, Sound(c), MayAdvance(c)
  PROVE  /\ Sound(Advanced(c))
         /\ SameKnown(c, Advanced(c))
         /\ Advanced(c).current = c.current
         /\ Advanced(c).previous = c.previous
         /\ \A g \in Generation : Advanced(c).activated[g] < Advanced(c).epoch
  BY GenerationAssumption
  DEF Sound, Advanced, MayAdvance, Catalog, Coherent, PreviousProven, Epoch, NoEpoch,
      Lifecycle, SameKnown

LEMMA RegisteredSound ==
  ASSUME NEW c, Sound(c), NEW g \in Generation, NEW m \in Manifest, MayRegister(c, g)
  PROVE  /\ Sound(Registered(c, g, m))
         /\ \A h \in Generation : Registered(c, g, m).state[h] = IF h = g THEN "inactive" ELSE c.state[h]
         /\ Registered(c, g, m).current = c.current
         /\ Registered(c, g, m).previous = c.previous
         /\ Registered(c, g, m).activated = c.activated
         /\ Registered(c, g, m).epoch = c.epoch
  BY GenerationAssumption
  DEF Sound, Registered, MayRegister, Catalog, Coherent, PreviousProven, Epoch, NoEpoch,
      Lifecycle

LEMMA ActivatedSound ==
  ASSUME NEW c, Sound(c), NEW g \in Generation, MayActivate(c, g)
  PROVE  /\ Sound(Activated(c, g))
         /\ SameKnown(c, Activated(c, g))
         /\ Activated(c, g).current = g
         /\ Activated(c, g).previous = c.current
         /\ Activated(c, g).epoch = c.epoch
<1> DEFINE d == Activated(c, g)
<1>1. /\ c \in Catalog
      /\ Coherent(c)
      /\ \A h \in Generation : c.activated[h] <= c.epoch
  BY DEF Sound
<1>2. /\ c.state[g] = "inactive"
      /\ CurrentValidated(c)
  BY DEF MayActivate
<1>3. /\ c.current # g
      /\ c.previous # g
  BY <1>1, <1>2 DEF Coherent
<1>4. /\ d.epoch = c.epoch
      /\ d.current = g
      /\ d.previous = c.current
      /\ d.manifest = c.manifest
      /\ d.activated = [c.activated EXCEPT ![g] = c.epoch]
      /\ d.validated = [c.validated EXCEPT ![g] = NoEpoch]
      /\ d.state = [h \in Generation |-> CASE h = g -> "current"
                                           [] h = c.current -> "previous"
                                           [] h = c.previous -> "inactive"
                                           [] OTHER -> c.state[h]]
  BY <1>1 DEF Activated, Catalog
<1>5. d \in Catalog
  BY <1>1, <1>4 DEF Activated, Catalog, Lifecycle, Epoch, NoEpoch
<1>6. Coherent(d)
  <2>1. d.previous # None => d.current \notin {None, d.previous}
    BY <1>3, <1>4, GenerationAssumption
  <2>2. ASSUME NEW h \in Generation
        PROVE  /\ d.state[h] = "current"  <=> d.current = h
               /\ d.state[h] = "previous" <=> d.previous = h
    <3>1. /\ c.state[h] = "current"  <=> c.current = h
          /\ c.state[h] = "previous" <=> c.previous = h
      BY <1>1 DEF Coherent
    <3>. QED  BY <3>1, <1>3, <1>4
  <2>3. ASSUME NEW h \in Generation, d.state[h] \in {"current", "previous"}
        PROVE  d.activated[h] # NoEpoch
    <3>1. h = g \/ h = c.current
      BY <2>2, <2>3, <1>4
    <3>2. CASE h = g
      BY <3>2, <1>1, <1>4 DEF Catalog, Epoch, NoEpoch
    <3>3. CASE h = c.current /\ h # g
      <4>1. c.state[h] = "current"
        BY <3>3, <1>1 DEF Coherent
      <4>. QED  BY <4>1, <3>3, <1>1, <1>4 DEF Coherent, Catalog
    <3>. QED  BY <3>1, <3>2, <3>3
  <2>4. ASSUME NEW h \in Generation, d.validated[h] # NoEpoch
        PROVE  d.activated[h] # NoEpoch /\ d.validated[h] > d.activated[h]
    BY <2>4, <1>1, <1>4 DEF Coherent, Catalog
  <2>. QED  BY <2>1, <2>2, <2>3, <2>4 DEF Coherent
<1>7. PreviousProven(d)
  BY <1>1, <1>2, <1>3, <1>4 DEF PreviousProven, CurrentValidated, Catalog
<1>8. \A h \in Generation : d.activated[h] <= d.epoch
  <2>1. c.epoch \in Nat /\ c.activated \in [Generation -> Epoch \union {NoEpoch}]
    BY <1>1, GenerationAssumption DEF Catalog, Epoch
  <2>2. ASSUME NEW h \in Generation
        PROVE  d.activated[h] <= d.epoch
    <3>1. d.activated[h] = IF h = g THEN c.epoch ELSE c.activated[h]
      BY <2>1, <1>4
    <3>2. d.epoch = c.epoch /\ c.activated[h] <= c.epoch
      BY <1>1, <1>4
    <3>. QED  BY <2>1, <3>1, <3>2
  <2>. QED  BY <2>2
<1>9. SameKnown(c, d)
  BY <1>1, <1>2, <1>4, SMTT(15), ZenonT(30) DEF SameKnown, Coherent
<1>. QED  BY <1>4, <1>5, <1>6, <1>7, <1>8, <1>9 DEF Sound

LEMMA ValidatedSound ==
  ASSUME NEW c, Sound(c), MayValidate(c)
  PROVE  /\ Sound(Validated(c))
         /\ SameKnown(c, Validated(c))
         /\ Validated(c).current = c.current
         /\ Validated(c).previous = c.previous
         /\ CurrentValidated(Validated(c))
<1>1. /\ c \in Catalog
      /\ Coherent(c)
      /\ c.current \in Generation
      /\ c.epoch > c.activated[c.current]
      /\ c.epoch \in Epoch
      /\ c.epoch # NoEpoch
  BY DEF Sound, MayValidate, Catalog, Epoch, NoEpoch
<1>2. c.state[c.current] = "current" /\ c.activated[c.current] # NoEpoch
  BY <1>1 DEF Coherent
<1>. QED
  BY <1>1, <1>2 DEF Sound, Validated, Catalog, Coherent, PreviousProven, CurrentValidated, SameKnown

(* A roll-back leaves a proven generation current, or none. *)
LEMMA RolledBackSound ==
  ASSUME NEW c, Sound(c), MayRollBack(c), NEW verified \in BOOLEAN
  PROVE  /\ Sound(RolledBack(c, verified))
         /\ SameKnown(c, RolledBack(c, verified))
         /\ RolledBack(c, verified).current \in {None, c.previous}
         /\ RolledBack(c, verified).previous = None
         /\ RolledBack(c, verified).state[c.current] = "invalid"
<1> DEFINE d == RolledBack(c, verified)
<1>1. /\ c \in Catalog
      /\ Coherent(c)
      /\ c.current \in Generation
      /\ c.previous \in Generation \union {None}
  BY DEF Sound, MayRollBack, Catalog
<1>2. c.current # c.previous
  BY <1>1, GenerationAssumption DEF Coherent
<1>3. /\ d.epoch = c.epoch
      /\ d.current = IF verified THEN c.previous ELSE None
      /\ d.previous = None
      /\ d.manifest = c.manifest
      /\ d.activated = c.activated
      /\ d.validated = c.validated
      /\ d.state = [h \in Generation |->
                      CASE h = c.current -> "invalid"
                        [] h = c.previous -> IF verified THEN "current" ELSE "invalid"
                        [] OTHER -> c.state[h]]
  BY <1>1 DEF RolledBack, Catalog
<1>4. d \in Catalog
  BY <1>1, <1>3 DEF RolledBack, Catalog, Lifecycle
<1>5. Coherent(d)
  <2>1. ASSUME NEW h \in Generation
        PROVE  /\ d.state[h] = "current"  <=> d.current = h
               /\ d.state[h] = "previous" <=> d.previous = h
    <3>1. /\ c.state[h] = "current"  <=> c.current = h
          /\ c.state[h] = "previous" <=> c.previous = h
      BY <1>1 DEF Coherent
    <3>. QED  BY <3>1, <1>1, <1>2, <1>3, GenerationAssumption
  <2>2. ASSUME NEW h \in Generation, d.state[h] \in {"current", "previous"}
        PROVE  d.activated[h] # NoEpoch
    <3>1. h = c.previous
      BY <2>1, <2>2, <1>3, GenerationAssumption
    <3>. QED  BY <3>1, <1>1, <1>3 DEF Coherent
  <2>3. ASSUME NEW h \in Generation, d.validated[h] # NoEpoch
        PROVE  d.activated[h] # NoEpoch /\ d.validated[h] > d.activated[h]
    BY <2>3, <1>1, <1>3 DEF Coherent
  <2>. QED  BY <1>3, <2>1, <2>2, <2>3 DEF Coherent
<1>6. SameKnown(c, d)
  <2>1. ASSUME NEW h \in Generation
        PROVE  c.state[h] = "absent" <=> d.state[h] = "absent"
    <3>1. /\ h = c.current  => c.state[h] = "current"
          /\ h = c.previous => c.state[h] = "previous"
      BY <1>1 DEF Coherent
    <3>. QED  BY <3>1, <1>3
  <2>. QED  BY <2>1 DEF SameKnown
<1>. QED
  BY <1>1, <1>2, <1>3, <1>4, <1>5, <1>6 DEF Sound, PreviousProven

LEMMA ReleasedSound ==
  ASSUME NEW c, Sound(c), MayRelease(c)
  PROVE  /\ Sound(Released(c))
         /\ SameKnown(c, Released(c))
         /\ Released(c).current = c.current
         /\ Released(c).previous = None
<1> DEFINE d == Released(c)
<1>1. /\ c \in Catalog
      /\ Coherent(c)
      /\ c.previous \in Generation
      /\ \A h \in Generation : c.activated[h] <= c.epoch
  BY DEF Sound, MayRelease, Catalog
<1>2. /\ d.epoch = c.epoch
      /\ d.current = c.current
      /\ d.previous = None
      /\ d.manifest = c.manifest
      /\ d.activated = c.activated
      /\ d.validated = c.validated
      /\ d.state = [c.state EXCEPT ![c.previous] = "inactive"]
  BY <1>1 DEF Released, Catalog
<1>3. d \in Catalog
  BY <1>1, <1>2 DEF Released, Catalog, Lifecycle
<1>4. Coherent(d)
  BY <1>1, <1>2, GenerationAssumption DEF Coherent, Catalog
<1>5. SameKnown(c, d)
  BY <1>1, <1>2 DEF SameKnown, Coherent, Catalog
<1>. QED  BY <1>1, <1>2, <1>3, <1>4, <1>5 DEF Sound, PreviousProven

-----------------------------------------------------------------------------
USE DEF Committed

VarsTyped ==
  /\ place \in [Generation -> Place]
  /\ content \in [Generation -> Manifest \union {None}]
  /\ up \subseteq Process
  /\ build \in [Process -> Manifest \union {None}]
  /\ owner \in Process \union {None}
  /\ step \in Step
  /\ subject \in Generation \union {None}
  /\ listed \subseteq Generation
  /\ searchModel \in [Process -> Generation \union {None}]
  /\ loopModel \in [Process -> Generation \union {None}]

CheckpointKnown ==
  \A g \in Generation : checkpoint.state[g] # "absent" => catalog.state[g] # "absent"

StartIsLater ==
  step \in {"staging", "recovered", "orphans", "judge"} =>
    \A g \in Generation : catalog.activated[g] < catalog.epoch

Kept == {"powerloss", "cleanup"} \subseteq Mishaps \/ ProtectedKept

(* What the invariant says beside the soundness of the two records, of     *)
(* which the steps below only need what SoundFacts lists.                  *)
Others ==
  /\ VarsTyped
  /\ CheckpointKnown
  /\ StartIsLater
  /\ LockSound
  /\ SubjectSound
  /\ RecordedSound
  /\ WalkSound
  /\ NothingAstray
  /\ ReleaseSound
  /\ LeaseProtects
  /\ Kept

LEMMA InvParts == ModelsInv <=> Sound(catalog) /\ Sound(checkpoint) /\ Others
  BY DEF ModelsInv, Sound, Others, TypeOK, VarsTyped, CatalogCoherent,
         PreviousSurvivedRestart, CheckpointSound, CheckpointKnown, EpochsSound,
         StartIsLater, Kept

LEMMA SoundFacts ==
  ASSUME NEW c, Sound(c)
  PROVE  /\ Coherent(c)
         /\ c.current \in Generation \union {None}
         /\ c.previous \in Generation \union {None}
         /\ c.state \in [Generation -> Lifecycle]
         /\ c.current # None => c.state[c.current] = "current"
         /\ c.previous # None => c.state[c.previous] = "previous" /\ c.current # None
         /\ \A g \in Generation : c.state[g] \in {"current", "previous"} => g \in {c.current, c.previous}
  BY GenerationAssumption DEF Sound, Catalog, Coherent

LEMMA InitInv == Init => ModelsInv
<1> SUFFICES ASSUME Init PROVE ModelsInv
  OBVIOUS
<1>1. Sound(catalog) /\ Sound(checkpoint)
  BY EmptySound DEF Init
<1>2. Others
  BY GenerationAssumption, ModelsAssumption
  DEF Init, EmptyCatalog, Others, VarsTyped, Place, Step, Startup, Install, CheckpointKnown,
      StartIsLater, LockSound, SubjectSound, RecordedSound, WalkSound, NothingAstray,
      ReleaseSound, LeaseProtects, Kept, ProtectedKept
<1>. QED  BY <1>1, <1>2, InvParts

LEMMA QuietSteps ==
  ASSUME ModelsInv,
         \/ \E p \in Process, m \in Manifest : BeginStartup(p, m)
         \/ \E g \in Generation : RecoverStaged(g)
         \/ StagingDone
         \/ OrphansDone
         \/ NoCurrent
         \/ \E p \in Process, g \in Generation : BeginInstall(p, g)
         \/ FilesStaged
         \/ StagingFails
         \/ Promote
         \/ InstallGivesUp
         \/ ConfirmActive
         \/ \E p \in Process : BeginCleanup(p)
         \/ \E g \in Generation : RemoveGeneration(g)
         \/ EndCleanup
         \/ \E p \in Process : ResolveForSearch(p)
         \/ \E p \in Process : ResolveForLoop(p)
         \/ \E p \in Process : Exit(p)
         \/ \E g \in Generation : Damage(g)
         \/ Checkpoint
  PROVE  Others' /\ catalog' = catalog
<1>1. Sound(catalog) /\ Sound(checkpoint) /\ Others
  BY InvParts
<1>2. CASE \E p \in Process, m \in Manifest : BeginStartup(p, m)
  BY <1>1, <1>2, SoundFacts, GenerationAssumption, ModelsAssumption
      DEF BeginStartup, Others, VarsTyped, Place, Step, Startup, Install, CheckpointKnown, StartIsLater, LockSound,
           SubjectSound, RecordedSound, WalkSound, NothingAstray, ReleaseSound, LeaseProtects,
           Kept, ProtectedKept, userVars, diskVars, lockVars, Release, GoTo, Walk, Visited, IsOrphan, Orphans, Move, StoreIsFree
<1>3. CASE \E g \in Generation : RecoverStaged(g)
  BY <1>1, <1>3, SoundFacts, GenerationAssumption, ModelsAssumption
      DEF RecoverStaged, Verifies, Others, VarsTyped, Place, Step, Startup, Install, CheckpointKnown, StartIsLater, LockSound,
           SubjectSound, RecordedSound, WalkSound, NothingAstray, ReleaseSound, LeaseProtects,
           Kept, ProtectedKept, userVars, diskVars, lockVars, Release, GoTo, Walk, Visited, IsOrphan, Orphans, Move, StoreIsFree
<1>4. CASE StagingDone
  BY <1>1, <1>4, SoundFacts, GenerationAssumption, ModelsAssumption
      DEF StagingDone, Others, VarsTyped, Place, Step, Startup, Install, CheckpointKnown, StartIsLater, LockSound,
           SubjectSound, RecordedSound, WalkSound, NothingAstray, ReleaseSound, LeaseProtects,
           Kept, ProtectedKept, userVars, diskVars, lockVars, Release, GoTo, Walk, Visited, IsOrphan, Orphans, Move, StoreIsFree
<1>5. CASE OrphansDone
  BY <1>1, <1>5, SoundFacts, GenerationAssumption, ModelsAssumption
      DEF OrphansDone, Orphans, IsOrphan, Others, VarsTyped, Place, Step, Startup, Install, CheckpointKnown, StartIsLater, LockSound,
           SubjectSound, RecordedSound, WalkSound, NothingAstray, ReleaseSound, LeaseProtects,
           Kept, ProtectedKept, userVars, diskVars, lockVars, Release, GoTo, Walk, Visited, IsOrphan, Orphans, Move, StoreIsFree
<1>6. CASE NoCurrent
  BY <1>1, <1>6, SoundFacts, GenerationAssumption, ModelsAssumption
      DEF NoCurrent, ComeUp, Others, VarsTyped, Place, Step, Startup, Install, CheckpointKnown, StartIsLater, LockSound,
           SubjectSound, RecordedSound, WalkSound, NothingAstray, ReleaseSound, LeaseProtects,
           Kept, ProtectedKept, userVars, diskVars, lockVars, Release, GoTo, Walk, Visited, IsOrphan, Orphans, Move, StoreIsFree
<1>7. CASE \E p \in Process, g \in Generation : BeginInstall(p, g)
  BY <1>1, <1>7, SoundFacts, GenerationAssumption, ModelsAssumption
      DEF BeginInstall, Others, VarsTyped, Place, Step, Startup, Install, CheckpointKnown, StartIsLater, LockSound,
           SubjectSound, RecordedSound, WalkSound, NothingAstray, ReleaseSound, LeaseProtects,
           Kept, ProtectedKept, userVars, diskVars, lockVars, Release, GoTo, Walk, Visited, IsOrphan, Orphans, Move, StoreIsFree
<1>8. CASE FilesStaged
  BY <1>1, <1>8, SoundFacts, GenerationAssumption, ModelsAssumption
      DEF FilesStaged, Others, VarsTyped, Place, Step, Startup, Install, CheckpointKnown, StartIsLater, LockSound,
           SubjectSound, RecordedSound, WalkSound, NothingAstray, ReleaseSound, LeaseProtects,
           Kept, ProtectedKept, userVars, diskVars, lockVars, Release, GoTo, Walk, Visited, IsOrphan, Orphans, Move, StoreIsFree
<1>9. CASE StagingFails
  BY <1>1, <1>9, SoundFacts, GenerationAssumption, ModelsAssumption
      DEF StagingFails, Others, VarsTyped, Place, Step, Startup, Install, CheckpointKnown, StartIsLater, LockSound,
           SubjectSound, RecordedSound, WalkSound, NothingAstray, ReleaseSound, LeaseProtects,
           Kept, ProtectedKept, userVars, diskVars, lockVars, Release, GoTo, Walk, Visited, IsOrphan, Orphans, Move, StoreIsFree
<1>10. CASE Promote
  BY <1>1, <1>10, SoundFacts, GenerationAssumption, ModelsAssumption
      DEF Promote, Verifies, Others, VarsTyped, Place, Step, Startup, Install, CheckpointKnown, StartIsLater, LockSound,
           SubjectSound, RecordedSound, WalkSound, NothingAstray, ReleaseSound, LeaseProtects,
           Kept, ProtectedKept, userVars, diskVars, lockVars, Release, GoTo, Walk, Visited, IsOrphan, Orphans, Move, StoreIsFree
<1>11. CASE InstallGivesUp
  BY <1>1, <1>11, SoundFacts, GenerationAssumption, ModelsAssumption
      DEF InstallGivesUp, Others, VarsTyped, Place, Step, Startup, Install, CheckpointKnown, StartIsLater, LockSound,
           SubjectSound, RecordedSound, WalkSound, NothingAstray, ReleaseSound, LeaseProtects,
           Kept, ProtectedKept, userVars, diskVars, lockVars, Release, GoTo, Walk, Visited, IsOrphan, Orphans, Move, StoreIsFree
<1>12. CASE ConfirmActive
  BY <1>1, <1>12, SoundFacts, GenerationAssumption, ModelsAssumption
      DEF ConfirmActive, Confirmed, Others, VarsTyped, Place, Step, Startup, Install, CheckpointKnown, StartIsLater, LockSound,
           SubjectSound, RecordedSound, WalkSound, NothingAstray, ReleaseSound, LeaseProtects,
           Kept, ProtectedKept, userVars, diskVars, lockVars, Release, GoTo, Walk, Visited, IsOrphan, Orphans, Move, StoreIsFree
<1>13. CASE \E p \in Process : BeginCleanup(p)
  BY <1>1, <1>13, SoundFacts, GenerationAssumption, ModelsAssumption
      DEF BeginCleanup, Others, VarsTyped, Place, Step, Startup, Install, CheckpointKnown, StartIsLater, LockSound,
           SubjectSound, RecordedSound, WalkSound, NothingAstray, ReleaseSound, LeaseProtects,
           Kept, ProtectedKept, userVars, diskVars, lockVars, Release, GoTo, Walk, Visited, IsOrphan, Orphans, Move, StoreIsFree
<1>14. CASE \E g \in Generation : RemoveGeneration(g)
  BY <1>1, <1>14, SoundFacts, GenerationAssumption, ModelsAssumption
      DEF RemoveGeneration, Removable, Others, VarsTyped, Place, Step, Startup, Install, CheckpointKnown, StartIsLater, LockSound,
           SubjectSound, RecordedSound, WalkSound, NothingAstray, ReleaseSound, LeaseProtects,
           Kept, ProtectedKept, userVars, diskVars, lockVars, Release, GoTo, Walk, Visited, IsOrphan, Orphans, Move, StoreIsFree
<1>15. CASE EndCleanup
  BY <1>1, <1>15, SoundFacts, GenerationAssumption, ModelsAssumption
      DEF EndCleanup, Others, VarsTyped, Place, Step, Startup, Install, CheckpointKnown, StartIsLater, LockSound,
           SubjectSound, RecordedSound, WalkSound, NothingAstray, ReleaseSound, LeaseProtects,
           Kept, ProtectedKept, userVars, diskVars, lockVars, Release, GoTo, Walk, Visited, IsOrphan, Orphans, Move, StoreIsFree
<1>16. CASE \E p \in Process : ResolveForSearch(p)
  BY <1>1, <1>16, SoundFacts, GenerationAssumption, ModelsAssumption
      DEF ResolveForSearch, Resolves, Others, VarsTyped, Place, Step, Startup, Install, CheckpointKnown, StartIsLater, LockSound,
           SubjectSound, RecordedSound, WalkSound, NothingAstray, ReleaseSound, LeaseProtects,
           Kept, ProtectedKept, userVars, diskVars, lockVars, Release, GoTo, Walk, Visited, IsOrphan, Orphans, Move, StoreIsFree
<1>17. CASE \E p \in Process : ResolveForLoop(p)
  BY <1>1, <1>17, SoundFacts, GenerationAssumption, ModelsAssumption
      DEF ResolveForLoop, Resolves, Others, VarsTyped, Place, Step, Startup, Install, CheckpointKnown, StartIsLater, LockSound,
           SubjectSound, RecordedSound, WalkSound, NothingAstray, ReleaseSound, LeaseProtects,
           Kept, ProtectedKept, userVars, diskVars, lockVars, Release, GoTo, Walk, Visited, IsOrphan, Orphans, Move, StoreIsFree
<1>18. CASE \E p \in Process : Exit(p)
  BY <1>1, <1>18, SoundFacts, GenerationAssumption, ModelsAssumption
      DEF Exit, Others, VarsTyped, Place, Step, Startup, Install, CheckpointKnown, StartIsLater, LockSound,
           SubjectSound, RecordedSound, WalkSound, NothingAstray, ReleaseSound, LeaseProtects,
           Kept, ProtectedKept, userVars, diskVars, lockVars, Release, GoTo, Walk, Visited, IsOrphan, Orphans, Move, StoreIsFree
<1>19. CASE \E g \in Generation : Damage(g)
  BY <1>1, <1>19, SoundFacts, GenerationAssumption, ModelsAssumption
      DEF Damage, Others, VarsTyped, Place, Step, Startup, Install, CheckpointKnown, StartIsLater, LockSound,
           SubjectSound, RecordedSound, WalkSound, NothingAstray, ReleaseSound, LeaseProtects,
           Kept, ProtectedKept, userVars, diskVars, lockVars, Release, GoTo, Walk, Visited, IsOrphan, Orphans, Move, StoreIsFree
<1>20. CASE Checkpoint
  BY <1>1, <1>20, SoundFacts, GenerationAssumption, ModelsAssumption
      DEF Checkpoint, Others, VarsTyped, Place, Step, Startup, Install, CheckpointKnown, StartIsLater, LockSound,
           SubjectSound, RecordedSound, WalkSound, NothingAstray, ReleaseSound, LeaseProtects,
           Kept, ProtectedKept, userVars, diskVars, lockVars, Release, GoTo, Walk, Visited, IsOrphan, Orphans, Move, StoreIsFree
<1>. QED  BY <1>2, <1>3, <1>4, <1>5, <1>6, <1>7, <1>8, <1>9, <1>10, <1>11, <1>12, <1>13, <1>14, <1>15, <1>16, <1>17, <1>18, <1>19, <1>20

(* The transactions: each leaves a sound record, by the lemma of its       *)
(* transition, and keeps the rest.                                         *)

LEMMA AdvanceStep ==
  ASSUME ModelsInv, Advance
  PROVE  Sound(catalog') /\ Others'
<1>1. Sound(catalog) /\ Sound(checkpoint) /\ Others
  BY InvParts
<1>2. MayAdvance(catalog) /\ catalog' = Advanced(catalog)
  BY DEF Advance, AdvanceEpoch
<1>3. /\ Sound(catalog')
      /\ SameKnown(catalog, catalog')
      /\ catalog'.current = catalog.current
      /\ catalog'.previous = catalog.previous
      /\ \A g \in Generation : catalog'.activated[g] < catalog'.epoch
  BY <1>1, <1>2, AdvancedSound
<1>. QED
  BY <1>1, <1>3, SoundFacts, GenerationAssumption, ModelsAssumption
  DEF Advance, AdvanceEpoch, SameKnown, Others, VarsTyped, Place, Step, Startup, Install, CheckpointKnown, StartIsLater, LockSound,
      SubjectSound, RecordedSound, WalkSound, NothingAstray, ReleaseSound, LeaseProtects,
      Kept, ProtectedKept, userVars, diskVars, lockVars, Release, GoTo, Walk, Visited, IsOrphan, Orphans, Move, StoreIsFree

LEMMA RegisterSteps ==
  ASSUME ModelsInv,
         \/ RegisterRecovered
         \/ \E g \in Generation : RecoverOrphan(g)
         \/ RegisterPromoted
  PROVE  Sound(catalog') /\ Others'
<1>1. Sound(catalog) /\ Sound(checkpoint) /\ Others
  BY InvParts
<1>2. owner \in Process /\ build[owner] \in Manifest
  BY <1>1 DEF Others, VarsTyped, LockSound, RegisterRecovered, RecoverOrphan, RegisterPromoted
<1>3. ASSUME NEW g \in Generation, MayRegister(catalog, g),
             catalog' = Registered(catalog, g, build[owner])
      PROVE  /\ Sound(catalog')
             /\ \A h \in Generation :
                  catalog'.state[h] = IF h = g THEN "inactive" ELSE catalog.state[h]
             /\ catalog'.current = catalog.current
             /\ catalog'.previous = catalog.previous
             /\ catalog'.activated = catalog.activated
             /\ catalog'.epoch = catalog.epoch
  BY <1>1, <1>2, <1>3, RegisteredSound
<1>4. CASE RegisterRecovered
  <2>1. subject \in Generation
    BY <1>1, <1>4 DEF RegisterRecovered, Others, VarsTyped, SubjectSound
  <2>2. CASE MayRegister(catalog, subject)
    BY <1>1, <1>3, <1>4, <2>1, <2>2, SoundFacts, GenerationAssumption, ModelsAssumption
    DEF RegisterRecovered, RegisterIfUnreferenced, Others, VarsTyped, Place, Step, Startup, Install, CheckpointKnown, StartIsLater, LockSound,
      SubjectSound, RecordedSound, WalkSound, NothingAstray, ReleaseSound, LeaseProtects,
      Kept, ProtectedKept, userVars, diskVars, lockVars, Release, GoTo, Walk, Visited, IsOrphan, Orphans, Move, StoreIsFree
  <2>3. CASE ~MayRegister(catalog, subject)
    BY <1>1, <1>4, <2>1, <2>3, SoundFacts, GenerationAssumption, ModelsAssumption
    DEF RegisterRecovered, RegisterIfUnreferenced, Others, VarsTyped, Place, Step, Startup, Install, CheckpointKnown, StartIsLater, LockSound,
      SubjectSound, RecordedSound, WalkSound, NothingAstray, ReleaseSound, LeaseProtects,
      Kept, ProtectedKept, userVars, diskVars, lockVars, Release, GoTo, Walk, Visited, IsOrphan, Orphans, Move, StoreIsFree
  <2>. QED  BY <2>2, <2>3
<1>5. ASSUME NEW g \in Generation, RecoverOrphan(g)
      PROVE  Sound(catalog') /\ Others'
  <2>1. MayRegister(catalog, g)
    BY <1>1, <1>5 DEF RecoverOrphan, Others, WalkSound, IsOrphan, MayRegister
  <2>2. CASE RegisterIfUnreferenced(g) /\ UNCHANGED place
    BY <1>1, <1>3, <1>5, <2>1, <2>2, SoundFacts, GenerationAssumption, ModelsAssumption
    DEF RecoverOrphan, RegisterIfUnreferenced, Orphans, IsOrphan, Others, VarsTyped, Place, Step, Startup, Install, CheckpointKnown, StartIsLater, LockSound,
      SubjectSound, RecordedSound, WalkSound, NothingAstray, ReleaseSound, LeaseProtects,
      Kept, ProtectedKept, userVars, diskVars, lockVars, Release, GoTo, Walk, Visited, IsOrphan, Orphans, Move, StoreIsFree
  <2>3. CASE Move(g, "quarantine") /\ UNCHANGED catalog
    BY <1>1, <1>5, <2>1, <2>3, SoundFacts, GenerationAssumption, ModelsAssumption
    DEF RecoverOrphan, Orphans, IsOrphan, Others, VarsTyped, Place, Step, Startup, Install, CheckpointKnown, StartIsLater, LockSound,
      SubjectSound, RecordedSound, WalkSound, NothingAstray, ReleaseSound, LeaseProtects,
      Kept, ProtectedKept, userVars, diskVars, lockVars, Release, GoTo, Walk, Visited, IsOrphan, Orphans, Move, StoreIsFree
  <2>. QED  BY <1>5, <2>2, <2>3 DEF RecoverOrphan
<1>6. CASE RegisterPromoted
  <2>1. subject \in Generation
    BY <1>1, <1>6 DEF RegisterPromoted, Others, VarsTyped, SubjectSound, Install
  <2>. QED
    BY <1>1, <1>3, <1>6, <2>1, SoundFacts, GenerationAssumption, ModelsAssumption
    DEF RegisterPromoted, Others, VarsTyped, Place, Step, Startup, Install, CheckpointKnown, StartIsLater, LockSound,
      SubjectSound, RecordedSound, WalkSound, NothingAstray, ReleaseSound, LeaseProtects,
      Kept, ProtectedKept, userVars, diskVars, lockVars, Release, GoTo, Walk, Visited, IsOrphan, Orphans, Move, StoreIsFree
<1>. QED  BY <1>4, <1>5, <1>6

LEMMA ActivateStep ==
  ASSUME ModelsInv, Activate
  PROVE  Sound(catalog') /\ Others'
<1>1. Sound(catalog) /\ Sound(checkpoint) /\ Others
  BY InvParts
<1>2. subject \in Generation /\ place[subject] = "generations"
  BY <1>1 DEF Activate, Others, VarsTyped, SubjectSound, Install
<1>3. /\ Sound(catalog')
      /\ SameKnown(catalog, catalog')
      /\ catalog'.current = subject
      /\ catalog'.previous = catalog.current
  BY <1>1, <1>2, ActivatedSound DEF Activate
<1>. QED
  BY <1>1, <1>2, <1>3, SoundFacts, GenerationAssumption, ModelsAssumption
  DEF Activate, SameKnown, Others, VarsTyped, Place, Step, Startup, Install, CheckpointKnown, StartIsLater, LockSound,
      SubjectSound, RecordedSound, WalkSound, NothingAstray, ReleaseSound, LeaseProtects,
      Kept, ProtectedKept, userVars, diskVars, lockVars, Release, GoTo, Walk, Visited, IsOrphan, Orphans, Move, StoreIsFree

LEMMA ValidateStep ==
  ASSUME ModelsInv, ValidateCurrent
  PROVE  Sound(catalog') /\ Others'
<1>1. Sound(catalog) /\ Sound(checkpoint) /\ Others
  BY InvParts
<1>2. /\ Sound(catalog')
      /\ SameKnown(catalog, catalog')
      /\ catalog'.current = catalog.current
      /\ catalog'.previous = catalog.previous
      /\ CurrentValidated(catalog')
  BY <1>1, ValidatedSound DEF ValidateCurrent
<1>3. catalog.current # None
  BY DEF ValidateCurrent, MayValidate
<1>4. catalog'.previous # None => MayRelease(catalog')
  BY <1>2, <1>3, SoundFacts DEF MayRelease
<1>. QED
  BY <1>1, <1>2, <1>4, SoundFacts, GenerationAssumption, ModelsAssumption
  DEF ValidateCurrent, ComeUp, SameKnown, Others, VarsTyped, Place, Step, Startup, Install, CheckpointKnown, StartIsLater, LockSound,
      SubjectSound, RecordedSound, WalkSound, NothingAstray, ReleaseSound, LeaseProtects,
      Kept, ProtectedKept, userVars, diskVars, lockVars, Release, GoTo, Walk, Visited, IsOrphan, Orphans, Move, StoreIsFree

LEMMA ReleaseStep ==
  ASSUME ModelsInv, ReleasePrevious
  PROVE  Sound(catalog') /\ Others'
<1>1. Sound(catalog) /\ Sound(checkpoint) /\ Others
  BY InvParts
<1>2. /\ Sound(catalog')
      /\ SameKnown(catalog, catalog')
      /\ catalog'.current = catalog.current
      /\ catalog'.previous = None
  BY <1>1, ReleasedSound DEF ReleasePrevious
<1>. QED
  BY <1>1, <1>2, SoundFacts, GenerationAssumption, ModelsAssumption
  DEF ReleasePrevious, ComeUp, SameKnown, Others, VarsTyped, Place, Step, Startup, Install, CheckpointKnown, StartIsLater, LockSound,
      SubjectSound, RecordedSound, WalkSound, NothingAstray, ReleaseSound, LeaseProtects,
      Kept, ProtectedKept, userVars, diskVars, lockVars, Release, GoTo, Walk, Visited, IsOrphan, Orphans, Move, StoreIsFree

(* The roll-back after an installation may fail to be written.             *)
LEMMA RollBackSplit ==
  ASSUME RollBackAtStartup \/ RollBackInstall
  PROVE  \/ \E verified \in BOOLEAN :
              MayRollBack(catalog) /\ catalog' = RolledBack(catalog, verified)
         \/ UNCHANGED catalog
<1>1. PreviousVerifies \in BOOLEAN
  BY DEF PreviousVerifies
<1>2. Verdicts(PreviousVerifies) \subseteq BOOLEAN
  BY <1>1 DEF Verdicts
<1>. QED  BY <1>2 DEF RollBackAtStartup, RollBackInstall, RollBack

LEMMA RollBackSteps ==
  ASSUME ModelsInv, RollBackAtStartup \/ RollBackInstall
  PROVE  Sound(catalog') /\ Others'
<1>1. Sound(catalog) /\ Sound(checkpoint) /\ Others
  BY InvParts
<1>2. /\ step \in {"judge", "confirm"}
      /\ owner' = None /\ step' = "idle" /\ subject' = None /\ listed' = {}
      /\ up' \in {up, up \union {owner}}
      /\ UNCHANGED <<checkpoint, diskVars, build, searchModel, loopModel>>
  BY DEF RollBackAtStartup, RollBackInstall, ComeUp, Release, userVars
<1>3. CASE UNCHANGED catalog
  BY <1>1, <1>2, <1>3, SoundFacts, GenerationAssumption, ModelsAssumption
  DEF Others, VarsTyped, Place, Step, Startup, Install, CheckpointKnown, StartIsLater, LockSound,
      SubjectSound, RecordedSound, WalkSound, NothingAstray, ReleaseSound, LeaseProtects,
      Kept, ProtectedKept, diskVars
<1>4. ASSUME NEW verified \in BOOLEAN, MayRollBack(catalog),
             catalog' = RolledBack(catalog, verified)
      PROVE  Sound(catalog') /\ Others'
  <2>1. /\ Sound(catalog')
        /\ SameKnown(catalog, catalog')
        /\ catalog'.current \in {None, catalog.previous}
        /\ catalog'.previous = None
    BY <1>1, <1>4, RolledBackSound
  <2>. QED
    BY <1>1, <1>2, <2>1, SoundFacts, GenerationAssumption, ModelsAssumption
    DEF SameKnown, Others, VarsTyped, Place, Step, Startup, Install, CheckpointKnown, StartIsLater, LockSound,
        SubjectSound, RecordedSound, WalkSound, NothingAstray, ReleaseSound, LeaseProtects,
        Kept, ProtectedKept, diskVars
<1>. QED  BY <1>1, <1>3, <1>4, RollBackSplit

LEMMA PowerLossStep ==
  ASSUME ModelsInv, PowerLoss
  PROVE  Sound(catalog') /\ Others'
<1>1. Sound(catalog) /\ Sound(checkpoint) /\ Others
  BY InvParts
<1>2. catalog' = checkpoint /\ checkpoint' = checkpoint
  BY DEF PowerLoss
<1>3. RecordedSound' /\ Kept'
  BY <1>1, <1>2, SoundFacts DEF PowerLoss, Others, CheckpointKnown, RecordedSound, Kept, ProtectedKept, diskVars
<1>. QED
  BY <1>1, <1>2, <1>3, SoundFacts, GenerationAssumption, ModelsAssumption
  DEF PowerLoss, Others, VarsTyped, Place, Step, Startup, Install, CheckpointKnown, StartIsLater, LockSound,
      SubjectSound, WalkSound, NothingAstray, ReleaseSound, LeaseProtects,
      userVars, diskVars, lockVars, Release, GoTo, Walk, Visited, IsOrphan, Orphans, Move, StoreIsFree

LEMMA NextInv == ModelsInv /\ [Next]_vars => ModelsInv'
<1> SUFFICES ASSUME ModelsInv, [Next]_vars PROVE ModelsInv'
  OBVIOUS
<1>1. Sound(catalog) /\ Sound(checkpoint) /\ Others
  BY InvParts
<1>2. Sound(catalog') /\ Others'
  <2>1. CASE Begin
    BY <1>1, <2>1, QuietSteps DEF Begin
  <2>2. CASE StartupStep
    BY <1>1, <2>2, QuietSteps, AdvanceStep, RegisterSteps, ValidateStep, ReleaseStep, RollBackSteps
    DEF StartupStep
  <2>3. CASE InstallStep
    BY <1>1, <2>3, QuietSteps, RegisterSteps, ActivateStep, RollBackSteps DEF InstallStep
  <2>4. CASE CleanupStep
    BY <1>1, <2>4, QuietSteps DEF CleanupStep
  <2>5. CASE Use
    BY <1>1, <2>5, QuietSteps DEF Use
  <2>6. CASE Mishap
    BY <1>1, <2>6, QuietSteps, PowerLossStep DEF Mishap
  <2>7. CASE UNCHANGED vars
    BY <1>1, <2>7
    DEF vars, Others, VarsTyped, Place, Step, Startup, Install, CheckpointKnown, StartIsLater, LockSound,
        SubjectSound, RecordedSound, WalkSound, NothingAstray, ReleaseSound, LeaseProtects,
        Kept, ProtectedKept, userVars, diskVars, lockVars, Release, GoTo, Walk, Visited, IsOrphan, Orphans, Move, StoreIsFree, MayRelease, Coherent, CurrentValidated
  <2>. QED
    BY <2>1, <2>2, <2>3, <2>4, <2>5, <2>6, <2>7 DEF Next, OwnerStep
<1>3. checkpoint' \in {checkpoint, catalog}
  BY DEF Next, vars, Begin, OwnerStep, StartupStep, InstallStep, CleanupStep, Use, Mishap,
         BeginStartup, BeginInstall, BeginCleanup, Advance, RegisterRecovered, StagingDone,
         OrphansDone, NoCurrent, ValidateCurrent, ReleasePrevious, RollBackAtStartup,
         RecoverStaged, RecoverOrphan, FilesStaged, StagingFails, Promote, RegisterPromoted,
         Activate, InstallGivesUp, ConfirmActive, RollBackInstall, EndCleanup,
         RemoveGeneration, ResolveForSearch, ResolveForLoop, Exit, Damage, Checkpoint, PowerLoss
<1>4. Sound(checkpoint')
  BY <1>1, <1>3
<1>. QED
  <2>1. ModelsInv' <=> Sound(catalog') /\ Sound(checkpoint') /\ Others'
    BY DEF ModelsInv, Sound, Others, TypeOK, VarsTyped, CatalogCoherent,
           PreviousSurvivedRestart, CheckpointSound, CheckpointKnown, EpochsSound,
           StartIsLater, Kept
  <2>. QED  BY <1>2, <1>4, <2>1

(* The inductive invariant holds in every reachable state. *)
THEOREM StoreInvariant == Spec => []ModelsInv
  BY InitInv, NextInv, PTL DEF Spec

(* The pointers, states and epochs of the catalog agree after every        *)
(* transaction and every loss of power, whichever processes died where.    *)
THEOREM CatalogStaysCoherent == Spec => []CatalogCoherent
<1>1. ModelsInv => CatalogCoherent
  BY DEF ModelsInv
<1>. QED  BY <1>1, StoreInvariant, PTL

(* The fallback generation has always survived a start of its own.         *)
THEOREM FallbackIsProven == Spec => []PreviousSurvivedRestart
<1>1. ModelsInv => PreviousSurvivedRestart
  BY DEF ModelsInv
<1>. QED  BY <1>1, StoreInvariant, PTL

(* Startup and installation never meet a transition that is refused.       *)
THEOREM TransitionsAccepted == Spec => []NeverRefused
<1>1. ModelsInv => NeverRefused
  <2> SUFFICES ASSUME ModelsInv PROVE NeverRefused
    OBVIOUS
  <2>1. Sound(catalog) /\ Others
    BY InvParts
  <2>2. step = "judge" /\ catalog.current # None => MayValidate(catalog)
    BY <2>1, SoundFacts DEF Others, StartIsLater, MayValidate
  <2>3. step = "register" => MayRegister(catalog, subject)
    BY <2>1 DEF Others, SubjectSound, MayRegister
  <2>4. step = "confirm" => MayRollBack(catalog) /\ catalog.current = subject
    BY <2>1, SoundFacts DEF Others, SubjectSound, Install, MayRollBack
  <2>. QED  BY <2>1, <2>2, <2>3, <2>4 DEF NeverRefused, Others, ReleaseSound
<1>. QED  BY <1>1, StoreInvariant, PTL

(* Startup judges the current generation only once the catalog and the     *)
(* disk are reconciled.                                                    *)
THEOREM StartupReconciles == Spec => []NothingAstray
<1>1. ModelsInv => NothingAstray
  BY DEF ModelsInv
<1>. QED  BY <1>1, StoreInvariant, PTL

(* A model search holds is of the generation that stays current.           *)
THEOREM LeaseIsKept == Spec => []LeaseProtects
<1>1. ModelsInv => LeaseProtects
  BY DEF ModelsInv
<1>. QED  BY <1>1, StoreInvariant, PTL

(* Cleanup, or a loss of power, but not the two together, leaves the       *)
(* directories of the current and the previous generation in place.        *)
THEOREM ProtectedDirectories ==
  ASSUME ~({"powerloss", "cleanup"} \subseteq Mishaps)
  PROVE  Spec => []ProtectedKept
<1>1. ModelsInv => ProtectedKept
  BY DEF ModelsInv
<1>. QED  BY <1>1, StoreInvariant, PTL
(* The steps that can change the catalog. *)
LEMMA CatalogSteps ==
  ASSUME [Next]_vars
  PROVE  \/ Advance \/ RegisterRecovered \/ RegisterPromoted \/ \E g \in Generation : RecoverOrphan(g)
         \/ ValidateCurrent \/ ReleasePrevious \/ RollBackAtStartup \/ RollBackInstall
         \/ Activate \/ PowerLoss \/ UNCHANGED catalog
  BY DEF Next, vars, Begin, OwnerStep, StartupStep, InstallStep, CleanupStep, Use, Mishap,
         BeginStartup, BeginInstall, BeginCleanup, StagingDone, OrphansDone, NoCurrent,
         RecoverStaged, FilesStaged, StagingFails, Promote, InstallGivesUp, ConfirmActive,
         EndCleanup, RemoveGeneration, ResolveForSearch, ResolveForLoop, Exit, Damage, Checkpoint

(* The transitions that move the pointers, seen from outside.  The others  *)
(* leave both alone.                                                       *)
PointersStay == catalog'.current = catalog.current /\ catalog'.previous = catalog.previous

LEMMA PointerSteps ==
  ASSUME ModelsInv, [Next]_vars
  PROVE  \/ PointersStay
         \/ MayActivate(catalog, subject) /\ catalog' = Activated(catalog, subject)
         \/ MayRelease(catalog) /\ catalog' = Released(catalog)
         \/ \E verified \in BOOLEAN :
              MayRollBack(catalog) /\ catalog' = RolledBack(catalog, verified)
         \/ catalog' = checkpoint
<1>1. Sound(catalog) /\ catalog \in Catalog
  BY InvParts DEF Sound
<1>2. CASE Advance
  BY <1>1, <1>2 DEF Advance, AdvanceEpoch, Advanced, Catalog, PointersStay
<1>3. CASE RegisterRecovered \/ RegisterPromoted \/ \E g \in Generation : RecoverOrphan(g)
  BY <1>1, <1>3
  DEF RegisterRecovered, RegisterPromoted, RecoverOrphan, RegisterIfUnreferenced, Registered,
      Catalog, PointersStay
<1>4. CASE ValidateCurrent
  BY <1>1, <1>4 DEF ValidateCurrent, Validated, Catalog, PointersStay
<1>5. CASE ReleasePrevious
  BY <1>5 DEF ReleasePrevious
<1>6. CASE RollBackAtStartup \/ RollBackInstall
  BY <1>6, RollBackSplit DEF PointersStay
<1>7. CASE Activate
  BY <1>7 DEF Activate
<1>8. CASE PowerLoss
  BY <1>8 DEF PowerLoss
<1>9. CASE UNCHANGED catalog
  BY <1>9 DEF PointersStay
<1>. QED
  BY <1>2, <1>3, <1>4, <1>5, <1>6, <1>7, <1>8, <1>9, CatalogSteps

(* A generation is replaced only by one it is the fallback of, and no      *)
(* fallback is given up before the current generation is validated, unless *)
(* what is given up was found invalid.                                     *)
THEOREM FallbackIsKept == Spec => FallbackKept
<1>1. ModelsInv /\ [Next]_vars => [FallbackStays]_vars
  <2> SUFFICES ASSUME ModelsInv, [Next]_vars, catalog' # checkpoint PROVE FallbackStays
    BY DEF FallbackStays
  <2>1. Sound(catalog) /\ catalog \in Catalog
    BY InvParts DEF Sound
  <2>2. catalog.previous # None => catalog.current # None
    BY <2>1, SoundFacts
  <2>3. CASE PointersStay
    BY <2>3 DEF PointersStay, FallbackStays
  <2>4. CASE MayActivate(catalog, subject) /\ catalog' = Activated(catalog, subject)
    <3>1. catalog'.previous = catalog.current
      BY <2>1, <2>4 DEF Activated, Catalog
    <3>2. catalog.current # None => catalog.validated[catalog.current] # NoEpoch
      BY <2>4 DEF MayActivate, CurrentValidated
    <3>. QED  BY <2>2, <3>1, <3>2 DEF FallbackStays
  <2>5. CASE MayRelease(catalog) /\ catalog' = Released(catalog)
    <3>1. catalog'.current = catalog.current
      BY <2>1, <2>5 DEF Released, Catalog
    <3>2. catalog.current # None /\ catalog.validated[catalog.current] # NoEpoch
      BY <2>5 DEF MayRelease, CurrentValidated
    <3>. QED  BY <3>1, <3>2 DEF FallbackStays
  <2>6. CASE \E verified \in BOOLEAN :
               MayRollBack(catalog) /\ catalog' = RolledBack(catalog, verified)
    <3>1. PICK verified \in BOOLEAN :
            MayRollBack(catalog) /\ catalog' = RolledBack(catalog, verified)
      BY <2>6
    <3>. QED  BY <2>1, <3>1, RolledBackSound DEF FallbackStays
  <2>. QED  BY <2>3, <2>4, <2>5, <2>6, PointerSteps
<1>2. Spec => [][FallbackStays]_vars
  BY <1>1, StoreInvariant, PTL DEF Spec
<1>. QED  BY <1>2 DEF FallbackKept

(* Whatever is done to a record but registering in it, it knows the same   *)
(* generations with the same manifests.                                    *)
LEMMA ManifestsStay ==
  ASSUME ModelsInv,
         \/ Advance \/ ValidateCurrent \/ ReleasePrevious \/ RollBackAtStartup
         \/ RollBackInstall \/ Activate
  PROVE  SameKnown(catalog, catalog') /\ catalog'.manifest = catalog.manifest
<1>1. Sound(catalog) /\ catalog \in Catalog
  BY InvParts DEF Sound
<1>2. CASE Advance
  BY <1>1, <1>2 DEF Advance, AdvanceEpoch, Advanced, Catalog, SameKnown
<1>3. CASE ValidateCurrent
  BY <1>1, <1>3 DEF ValidateCurrent, Validated, Catalog, SameKnown
<1>4. CASE ReleasePrevious
  BY <1>1, <1>4, ReleasedSound DEF ReleasePrevious, Released, Catalog
<1>5. CASE RollBackAtStartup \/ RollBackInstall
  <2>1. CASE UNCHANGED catalog
    BY <2>1 DEF SameKnown
  <2>2. ASSUME NEW verified \in BOOLEAN, MayRollBack(catalog),
               catalog' = RolledBack(catalog, verified)
        PROVE  SameKnown(catalog, catalog') /\ catalog'.manifest = catalog.manifest
    <3>1. catalog'.manifest = catalog.manifest
      BY <1>1, <2>2 DEF RolledBack, Catalog
    <3>. QED  BY <1>1, <2>2, <3>1, RolledBackSound
  <2>. QED  BY <1>5, <2>1, <2>2, RollBackSplit
<1>6. CASE Activate
  <2>1. subject \in Generation
    BY <1>6, InvParts DEF Activate, Others, VarsTyped, SubjectSound, Install
  <2>2. catalog'.manifest = catalog.manifest
    BY <1>1, <1>6 DEF Activate, Activated, Catalog
  <2>. QED  BY <1>1, <1>6, <2>1, <2>2, ActivatedSound DEF Activate
<1>. QED  BY <1>2, <1>3, <1>4, <1>5, <1>6

LEMMA CompleteNext == ModelsInv /\ CompleteInv /\ [Next]_vars => CompleteInv'
<1> SUFFICES ASSUME ModelsInv, CompleteInv, [Next]_vars PROVE CompleteInv'
  OBVIOUS
<1>1. /\ Sound(catalog) /\ catalog \in Catalog
      /\ Others
  BY InvParts DEF Sound
<1>2. CASE \/ Advance \/ ValidateCurrent \/ ReleasePrevious \/ RollBackAtStartup
           \/ RollBackInstall \/ Activate
  <2>1. SameKnown(catalog, catalog') /\ catalog'.manifest = catalog.manifest
    BY <1>2, ManifestsStay
  <2>2. UNCHANGED <<checkpoint, content>> /\ step' # "recovered"
    BY <1>2 DEF Advance, AdvanceEpoch, ValidateCurrent, ReleasePrevious, RollBackAtStartup,
       RollBackInstall, Activate, ComeUp, Release, GoTo, Walk, diskVars
  <2>. QED  BY <2>1, <2>2 DEF CompleteInv, FilesAs, SameKnown
<1>3. ASSUME NEW g \in Generation, MayRegister(catalog, g),
             catalog' = Registered(catalog, g, build[owner]),
             FilesAs(g, build[owner]),
             UNCHANGED <<checkpoint, content>>, step' # "recovered"
      PROVE  CompleteInv'
  <2>1. /\ catalog'.manifest = [catalog.manifest EXCEPT ![g] = build[owner]]
        /\ catalog'.state = [catalog.state EXCEPT ![g] = "inactive"]
    BY <1>1, <1>3 DEF Registered, Catalog
  <2>2. checkpoint.state[g] = "absent"
    BY <1>1, <1>3 DEF Others, CheckpointKnown, MayRegister
  <2>. QED  BY <1>1, <1>3, <2>1, <2>2 DEF CompleteInv, FilesAs, Catalog
<1>4. CASE RegisterRecovered \/ RegisterPromoted
  <2>1. subject \in Generation
    BY <1>1, <1>4 DEF RegisterRecovered, RegisterPromoted, Others, VarsTyped, SubjectSound, Install
  <2>2. UNCHANGED <<checkpoint, content>> /\ step' # "recovered"
    BY <1>4 DEF RegisterRecovered, RegisterPromoted, GoTo, diskVars
  <2>3. FilesAs(subject, build[owner])
    BY <1>4 DEF RegisterRecovered, RegisterPromoted, Verifies, FilesAs, CompleteInv
  <2>4. CASE MayRegister(catalog, subject)
    BY <1>3, <1>4, <2>1, <2>2, <2>3, <2>4
    DEF RegisterRecovered, RegisterPromoted, RegisterIfUnreferenced
  <2>5. CASE ~MayRegister(catalog, subject)
    BY <1>4, <2>2, <2>5
    DEF RegisterRecovered, RegisterPromoted, RegisterIfUnreferenced, CompleteInv, FilesAs
  <2>. QED  BY <2>4, <2>5
<1>5. ASSUME NEW g \in Generation, RecoverOrphan(g)
      PROVE  CompleteInv'
  <2>1. MayRegister(catalog, g)
    BY <1>1, <1>5 DEF RecoverOrphan, Others, WalkSound, IsOrphan, MayRegister
  <2>2. UNCHANGED <<checkpoint, content>> /\ step' # "recovered"
    BY <1>5 DEF RecoverOrphan
  <2>3. CASE Verifies(g) /\ RegisterIfUnreferenced(g)
    BY <1>3, <1>5, <2>1, <2>2, <2>3 DEF RegisterIfUnreferenced, Verifies, FilesAs
  <2>4. CASE UNCHANGED catalog
    BY <1>5, <2>2, <2>4 DEF CompleteInv, FilesAs
  <2>. QED  BY <1>5, <2>3, <2>4 DEF RecoverOrphan, Verdicts
<1>6. CASE PowerLoss
  BY <1>1, <1>6 DEF PowerLoss, Release, diskVars, CompleteInv, FilesAs, Others, CheckpointKnown
<1>7. CASE Checkpoint
  BY <1>7 DEF Checkpoint, diskVars, lockVars, userVars, CompleteInv, FilesAs
<1>8. CASE FilesStaged
  <2>1. subject \in Generation /\ catalog.state[subject] = "absent"
    BY <1>1, <1>8 DEF FilesStaged, Others, VarsTyped, SubjectSound, Install
  <2>2. \A g \in Generation \ {subject} : content'[g] = content[g]
    BY <1>1, <1>8 DEF FilesStaged, Others, VarsTyped
  <2>3. UNCHANGED <<catalog, checkpoint>> /\ step' # "recovered"
    BY <1>8 DEF FilesStaged, GoTo
  <2>. QED  BY <2>1, <2>2, <2>3 DEF CompleteInv, FilesAs
<1>9. ASSUME NEW d \in Generation, Damage(d)
      PROVE  CompleteInv'
  <2>1. \A g \in Generation : content'[g] = IF g = d THEN None ELSE content[g]
    BY <1>1, <1>9 DEF Damage, Others, VarsTyped
  <2>2. step = "recovered" => subject \in Generation
    BY <1>1 DEF Others, VarsTyped, SubjectSound
  <2>3. "damage" \in Mishaps /\ UNCHANGED <<catalog, checkpoint, step, subject, build, owner>>
    BY <1>9 DEF Damage, lockVars, userVars
  <2>. QED  BY <2>1, <2>2, <2>3 DEF CompleteInv, FilesAs
<1>10. CASE \E g \in Generation : RecoverStaged(g)
  BY <1>10 DEF RecoverStaged, Verdicts, Visited, userVars, Verifies, CompleteInv, FilesAs
<1>11. CASE \E p \in Process, m \in Manifest : BeginStartup(p, m)
  BY <1>11 DEF BeginStartup, diskVars, CompleteInv, FilesAs
<1>12. CASE \E p \in Process : Exit(p)
  BY <1>1, <1>12 DEF Exit, Release, lockVars, diskVars, CompleteInv, FilesAs, Others, VarsTyped
<1>13. CASE /\ UNCHANGED <<catalog, checkpoint, content>>
            /\ step' # "recovered" \/ UNCHANGED <<step, subject, owner, build>>
  BY <1>13 DEF CompleteInv, FilesAs
<1>. QED
  BY <1>2, <1>4, <1>5, <1>6, <1>7, <1>8, <1>9, <1>10, <1>11, <1>12, <1>13
  DEF Next, vars, Begin, OwnerStep, StartupStep, InstallStep, CleanupStep, Use, Mishap,
      BeginInstall, BeginCleanup, StagingDone, OrphansDone, NoCurrent, StagingFails, Promote,
      InstallGivesUp, ConfirmActive, EndCleanup, RemoveGeneration, ResolveForSearch,
      ResolveForLoop, ComeUp, Release, GoTo, Walk, diskVars, lockVars, userVars

(* No interrupted transfer is ever registered: a generation the catalog    *)
(* knows has the complete files of its manifest unless they were damaged   *)
(* later.                                                                  *)
THEOREM KnownIsComplete == Spec => []RegisteredIsComplete
<1>1. Init => CompleteInv
  BY DEF Init, EmptyCatalog, CompleteInv
<1>2. CompleteInv => RegisteredIsComplete
  BY DEF CompleteInv, FilesAs, RegisteredIsComplete
<1>. QED  BY <1>1, <1>2, CompleteNext, StoreInvariant, PTL DEF Spec
=============================================================================
