--------------------------- MODULE MCSchedulerHost ---------------------------
(* Instances of SchedulerHost small enough for TLC. *)
EXTENDS SchedulerHost

(* Room for one job of a kind, so that a second one meets a full queue. *)
OneEach == [k \in Kind |-> 1]

AllObservations == BOOLEAN \X BOOLEAN
=============================================================================
