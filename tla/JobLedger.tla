------------------------------ MODULE JobLedger ------------------------------
(***************************************************************************)
(* What background preparation promises about each job, without queues,    *)
(* sessions or failures of the catalog: RFC-036 sections 11, 12 and 16.    *)
(***************************************************************************)
CONSTANT Job

VARIABLES
  entry,    \* what the ledger says of every job
  working   \* the job in progress, if any

Settled == {"succeeded", "failed"}

Init ==
  /\ entry = [j \in Job |-> "unborn"]
  /\ working = {}

Submit(j) ==
  /\ entry[j] = "unborn"
  /\ entry' = [entry EXCEPT ![j] = "pending"]
  /\ UNCHANGED working

(* Work begins on a pending job, and only when no other is in progress. *)
Begin(j) ==
  /\ entry[j] = "pending"
  /\ working = {}
  /\ working' = {j}
  /\ UNCHANGED entry

(* The outcome is entered once the work ends, unless the job was deleted   *)
(* meanwhile.                                                              *)
Settle(j) ==
  /\ working = {j}
  /\ working' = {}
  /\ \E outcome \in Settled :
       entry' = [entry EXCEPT ![j] = IF @ = "gone" THEN "gone" ELSE outcome]

(* Work ends with nothing to enter: to be tried again, or cut short. *)
GiveBack ==
  /\ working # {}
  /\ working' = {}
  /\ UNCHANGED entry

Delete(S) ==
  /\ \A j \in S : entry[j] # "unborn"
  /\ entry' = [j \in Job |-> IF j \in S THEN "gone" ELSE entry[j]]
  /\ UNCHANGED working

Next ==
  \/ \E j \in Job : Submit(j) \/ Begin(j) \/ Settle(j)
  \/ GiveBack
  \/ \E S \in SUBSET Job : Delete(S)

Spec == Init /\ [][Next]_<<entry, working>>
=============================================================================
