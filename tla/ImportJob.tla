----------------------------- MODULE ImportJob -----------------------------
(***************************************************************************)
(* What a bulk import promises to the owner who polls it: the job and the  *)
(* outcome of each of its files, as the rows of "BulkImportJobs" and       *)
(* "BulkImportItems" show them through GetJobStatus and GetAllJobs.        *)
(* Nothing is said here about how a file is imported.                      *)
(***************************************************************************)
EXTENDS Naturals, Sequences

CONSTANT MaxFiles

VARIABLES
  status,    \* BulkImportJob.Status, "None" before the job is submitted
  outcome,   \* the Status of every BulkImportItem of the job
  requeued   \* whether the failed files have been put back once

vars == <<status, outcome, requeued>>

Final == {"Completed", "CompletedWithErrors", "Failed"}

Outcome == {"Pending", "Success", "Failed"}

All(o, v) == \A i \in DOMAIN o : o[i] = v

(***************************************************************************)
(* Files that are not decided in "o" may be decided in "p"; those that are *)
(* keep their outcome.                                                     *)
(***************************************************************************)
Extends(p, o) ==
  /\ p \in [DOMAIN o -> Outcome]
  /\ \A i \in DOMAIN o : o[i] # "Pending" => p[i] = o[i]

Decided(o) == \A i \in DOMAIN o : o[i] # "Pending"

Init == status = "None" /\ outcome = <<>> /\ requeued = FALSE

Submit ==
  /\ status = "None"
  /\ status' = "Pending"
  /\ UNCHANGED <<outcome, requeued>>

AddFiles ==
  /\ status = "Pending" /\ outcome = <<>>
  /\ \E n \in 1..MaxFiles : outcome' = [i \in 1..n |-> "Pending"]
  /\ UNCHANGED <<status, requeued>>

Begin ==
  /\ status = "Pending" /\ outcome # <<>>
  /\ status' = "Running"
  /\ UNCHANGED <<outcome, requeued>>

\* Some files are decided while the job goes on.
Progress ==
  /\ status = "Running" \/ (status = "RetryFails" /\ requeued)
  /\ Extends(outcome', outcome)
  /\ UNCHANGED <<status, requeued>>

\* The first run ends with both imported and failed files.
Retry ==
  /\ status = "Running"
  /\ Extends(outcome', outcome) /\ Decided(outcome')
  /\ ~ All(outcome', "Success") /\ ~ All(outcome', "Failed")
  /\ status' = "RetryFails"
  /\ UNCHANGED requeued

\* The failed files, and only they, are put back, once.
Requeue ==
  /\ status = "RetryFails" /\ ~ requeued
  /\ outcome' = [i \in DOMAIN outcome |->
                   IF outcome[i] = "Failed" THEN "Pending" ELSE outcome[i]]
  /\ requeued' = TRUE
  /\ UNCHANGED status

\* The job ends, with the status its files call for.
Finish ==
  /\ status = "Running" \/ (status = "RetryFails" /\ requeued)
  /\ Extends(outcome', outcome) /\ Decided(outcome')
  /\ status' = IF All(outcome', "Success") THEN "Completed"
               ELSE IF requeued THEN "CompletedWithErrors" ELSE "Failed"
  /\ status' = "Failed" => All(outcome', "Failed")
  /\ UNCHANGED requeued

Next ==
  Submit \/ AddFiles \/ Begin \/ Progress \/ Retry \/ Requeue \/ Finish

Spec == Init /\ [][Next]_vars
=============================================================================
