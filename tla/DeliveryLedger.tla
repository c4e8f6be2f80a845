--------------------------- MODULE DeliveryLedger ---------------------------
(***************************************************************************)
(* What a send task promises about the report the operator reads: each     *)
(* entry of the snapshot is given one outcome, in the order of the         *)
(* snapshot and for good, and the task then gets an outcome that agrees    *)
(* with them.  Only a task that was stopped leaves an entry open, at most  *)
(* one, or else all of them, as a task whose inputs are refused does.      *)
(***************************************************************************)
EXTENDS Naturals, FiniteSets

CONSTANT Total   \* the number of entries

VARIABLES
  settled,  \* settled[e]: the outcome of entry e, or "open"
  outcome   \* the outcome of the task, or "none"

Entries == 1 .. Total
Stops == {"cancelled", "interrupted"}
Failures == {"failed_processing", "failed_transient", "failed_permanent", "failed_configuration"}
Outcomes == {"sent", "skipped_suppressed", "not_attempted_configuration"} \union Failures \union Stops

OpenBefore(e) == {f \in 1 .. e - 1 : settled[f] = "open"}
AllOpen == \A e \in Entries : settled[e] = "open"

Init ==
  /\ settled = [e \in Entries |-> "open"]
  /\ outcome = "none"

\* The entries are settled in order.  One may be passed over, if the task has
\* been stopped by then.
Settle(e, o) ==
  /\ outcome = "none"
  /\ settled[e] = "open"
  /\ OpenBefore(e) = {} \/ (Cardinality(OpenBefore(e)) = 1 /\ o \in Stops)
  /\ settled' = [settled EXCEPT ![e] = o]
  /\ UNCHANGED outcome

\* All entries are settled and the task says whether one failed.
Complete ==
  /\ outcome = "none"
  /\ OpenBefore(Total + 1) = {}
  /\ outcome' = IF \E e \in Entries : settled[e] \in Failures
                  THEN "completed_with_errors" ELSE "completed"
  /\ UNCHANGED settled

\* The inputs cannot be used: no entry is settled, and the task has an error.
Refuse ==
  /\ outcome = "none"
  /\ AllOpen
  /\ outcome' = "completed_with_errors"
  /\ UNCHANGED settled

\* The task has been stopped.
Abandon ==
  /\ outcome = "none"
  /\ AllOpen \/ Cardinality(OpenBefore(Total + 1)) <= 1
  /\ outcome' \in Stops
  /\ UNCHANGED settled

\* The next start of the application settles what a crash has left.
Reconcile ==
  /\ outcome = "none"
  /\ settled' = [e \in Entries |-> IF settled[e] = "open" THEN "interrupted" ELSE settled[e]]
  /\ outcome' = "interrupted"

Next ==
  \/ \E e \in Entries, o \in Outcomes : Settle(e, o)
  \/ Complete
  \/ Refuse
  \/ Abandon
  \/ Reconcile

Spec == Init /\ [][Next]_<<settled, outcome>>
=============================================================================
