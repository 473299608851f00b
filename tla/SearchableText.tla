--------------------------- MODULE SearchableText ---------------------------
(***************************************************************************)
(* What search shows of one file, as FileIndex promises it: one generation *)
(* of chunks, cut from one extraction, and never an older one again.       *)
(***************************************************************************)
EXTENDS Naturals

VARIABLES
  shown,    \* the extraction whose chunks search finds, 0 for none
  latest    \* the newest extraction that was ever shown

vars == <<shown, latest>>

Init == shown = 0 /\ latest = 0

(* A newer extraction takes the place of what is shown. *)
Replace ==
  /\ latest' > latest
  /\ shown' = latest'

(* The file is missing: its chunks are kept. *)
Hide ==
  /\ shown # 0
  /\ shown' = 0
  /\ UNCHANGED latest

(* It is back. *)
Restore ==
  /\ shown = 0
  /\ latest # 0
  /\ shown' = latest
  /\ UNCHANGED latest

(* It is left out, or its folder removed. *)
Forget == shown' = 0 /\ latest' = 0

Next == Replace \/ Hide \/ Restore \/ Forget

Spec == Init /\ [][Next]_vars

=============================================================================
