--------------------------- MODULE ModelGenerations ---------------------------
(***************************************************************************)
(* The catalog's record of the installed model generations of a profile,   *)
(* as a value and the transitions on it: models/src/generation.rs, which   *)
(* touches neither SQLite nor the disk.  A transition is two operators:    *)
(* when it is legal, and the record it leads to.  The revision number is   *)
(* left out: it only grows, and every change is made under one lock.       *)
(***************************************************************************)
EXTENDS Integers

CONSTANTS
  Generation,  \* the ids a generation can be given
  Manifest,    \* the trusted manifests an application build can carry
  MaxEpoch,    \* bound: starts of the application
  None         \* no generation, no process, no manifest

ASSUME GenerationAssumption ==
  /\ None \notin Generation
  /\ None \notin Manifest
  /\ MaxEpoch \in Nat

NoEpoch == -1
Epoch   == 0 .. MaxEpoch

(* ManagedGenerationState, with "absent" for an id that has no record. *)
Lifecycle == {"absent", "inactive", "current", "previous", "invalid"}

Catalog ==
  [epoch     : Epoch,
   current   : Generation \union {None},
   previous  : Generation \union {None},
   state     : [Generation -> Lifecycle],
   manifest  : [Generation -> Manifest \union {None}],
   activated : [Generation -> Epoch \union {NoEpoch}],
   validated : [Generation -> Epoch \union {NoEpoch}]]

EmptyCatalog ==
  [epoch     |-> 0,
   current   |-> None,
   previous  |-> None,
   state     |-> [g \in Generation |-> "absent"],
   manifest  |-> [g \in Generation |-> None],
   activated |-> [g \in Generation |-> NoEpoch],
   validated |-> [g \in Generation |-> NoEpoch]]

(* validate *)
Coherent(c) ==
  /\ c.previous # None => c.current \notin {None, c.previous}
  /\ \A g \in Generation :
       /\ c.state[g] = "current"  <=> c.current = g
       /\ c.state[g] = "previous" <=> c.previous = g
       /\ c.state[g] \in {"current", "previous"} => c.activated[g] # NoEpoch
       /\ c.validated[g] # NoEpoch =>
            c.activated[g] # NoEpoch /\ c.validated[g] > c.activated[g]

(* advance_startup_epoch *)
MayAdvance(c) == c.epoch < MaxEpoch
Advanced(c)   == [c EXCEPT !.epoch = @ + 1]

(* register_inactive *)
MayRegister(c, g)   == c.state[g] = "absent"
Registered(c, g, m) == [c EXCEPT !.state[g] = "inactive", !.manifest[g] = m]

(* What the previous generation has to have survived. *)
PreviousProven(c) == c.previous # None => c.validated[c.previous] # NoEpoch

(* The current generation has survived a start later than its activation. *)
CurrentValidated(c) == c.current # None => c.validated[c.current] # NoEpoch

(* Faulty variant: any inactive generation may replace the current one. *)
MayActivateUnproven(c, g) == Coherent(c) /\ c.state[g] = "inactive"

(* activate: the current generation becomes the previous one, and the      *)
(* previous one ordinary inactive data.                                    *)
MayActivate(c, g) ==
  /\ Coherent(c)
  /\ c.state[g] = "inactive"
  /\ CurrentValidated(c)

(* Faulty variant: the replaced generation is not kept. *)
ActivatedForgetting(c, g) ==
  [c EXCEPT !.state = [h \in Generation |-> CASE h = g -> "current"
                                              [] h = c.current -> "inactive"
                                              [] OTHER -> c.state[h]],
            !.current = g,
            !.activated[g] = c.epoch,
            !.validated[g] = NoEpoch]

(* Faulty variant: the generation before the replaced one keeps its label. *)
ActivatedLeavingPrevious(c, g) ==
  [c EXCEPT !.state = [h \in Generation |-> CASE h = g -> "current"
                                              [] h = c.current -> "previous"
                                              [] OTHER -> c.state[h]],
            !.current = g,
            !.previous = c.current,
            !.activated[g] = c.epoch,
            !.validated[g] = NoEpoch]

Activated(c, g) ==
  [c EXCEPT !.state = [h \in Generation |-> CASE h = g -> "current"
                                              [] h = c.current -> "previous"
                                              [] h = c.previous -> "inactive"
                                              [] OTHER -> c.state[h]],
            !.current = g,
            !.previous = c.current,
            !.activated[g] = c.epoch,
            !.validated[g] = NoEpoch]

(* validate_current_after_startup: only a start later than the activation  *)
(* proves anything.                                                        *)
MayValidate(c) ==
  /\ Coherent(c)
  /\ c.current # None
  /\ c.epoch > c.activated[c.current]

Validated(c) == [c EXCEPT !.validated[c.current] = c.epoch]

(* rollback_invalid_current: the previous generation takes over if it      *)
(* could be verified, and is as invalid as the current one if not.         *)
MayRollBack(c) == Coherent(c) /\ c.current # None

RolledBack(c, verified) ==
  [c EXCEPT !.state = [h \in Generation |->
                         CASE h = c.current -> "invalid"
                           [] h = c.previous -> IF verified THEN "current" ELSE "invalid"
                           [] OTHER -> c.state[h]],
            !.current = IF verified THEN c.previous ELSE None,
            !.previous = None]

(* release_previous_after_startup_validation *)
MayRelease(c) ==
  /\ Coherent(c)
  /\ c.current # None
  /\ CurrentValidated(c)
  /\ c.previous # None

Released(c) ==
  [c EXCEPT !.state[c.previous] = "inactive",
            !.previous = None]
=============================================================================
