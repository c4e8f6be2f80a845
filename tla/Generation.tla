----------------------------- MODULE Generation -----------------------------
(***************************************************************************)
(* One execution of a document generation task, the ZIP archive it leaves, *)
(* and the requests that download it: ExecuteCampaignTask and              *)
(* executeGeneration of internal/app, GenerateCampaignArchive and          *)
(* PrepareBatch of internal/document, and the archives the campaign        *)
(* service keeps until they are taken or it closes.                        *)
(*                                                                         *)
(* Every statement on the database is a step.  One that is given the task's*)
(* context may fail; one that is given the background context succeeds     *)
(* (CampaignSend has those failures).  Names and sizes of files are left   *)
(* out: whether an entry still fits the archive is a choice.               *)
(***************************************************************************)
EXTENDS Naturals, Sequences, FiniteSets

CONSTANT Total  \* the number of address entries in the snapshot

ASSUME GenerationAssumption == Total \in Nat \ {0}

VARIABLES
  task,        \* the row of tasks: its status, and of its counters the failures,
               \* which decide how the task ends
  rows,        \* rows[e]: the statuses of the message_deliveries rows of entry e
  pc,          \* the step the execution has come to
  cause,       \* how its context has ended, "live" while it has not, "over"
               \* with the execution
  processed,   \* processedEntries: entries whose row has been read back
  verdict,     \* the outcome about to be recorded
  full,        \* archiveLimitReached
  file,        \* the archive: "absent", "open" while it is written, "complete"
  registered,  \* does service.archives hold the archive?
  serving,     \* how many requests are serving the archive
  taken,       \* was it ever taken?
  stopping,    \* Server.Shutdown has begun
  unmarked     \* a change was committed that MarkChanged was not told of yet

runVars == <<task, rows, pc, cause, processed, verdict, full>>
archiveVars == <<file, registered, serving, taken>>
genVars == <<runVars, archiveVars, stopping, unmarked>>

Entries == 1 .. Total
Terminal == {"completed", "completed_with_errors", "cancelled", "interrupted"}

Live == cause = "live"

\* termination: without the operator's cancellation it is an interruption.
Termination == IF cause = "cancelled" THEN "cancelled" ELSE "interrupted"

GenInit ==
  /\ task = [status |-> "preparing", failed |-> 0]
  /\ rows = [e \in Entries |-> <<>>]
  /\ pc = "load" /\ cause = "live" /\ processed = 0 /\ verdict = "none" /\ full = FALSE
  /\ file = "absent" /\ registered = FALSE /\ serving = 0 /\ taken = FALSE
  /\ stopping = FALSE /\ unmarked = FALSE

-----------------------------------------------------------------------------
(* The execution: it goes on only after it has told the hub of its changes *)

GoTo(from, to) == pc = from /\ ~unmarked /\ pc' = to

Stay == UNCHANGED <<task, rows, processed, unmarked>>

\* Give the entries that are left one outcome and finish the task.
Rest(outcome) == pc' = "rest" /\ verdict' = outcome

\* The end of the execution; the task gets its status, or keeps the one it has.
Leaves == pc' = "done" /\ cause' = "over" /\ verdict' = "none" /\ full' = FALSE

Ends(status) ==
  /\ task' = [task EXCEPT !.status = status]
  /\ unmarked' = TRUE
  /\ UNCHANGED <<rows, processed>>

\* ExecuteCampaignTask: the snapshot is loaded and validated; or it is not what
\* was confirmed, an attachment is missing, or the run was stopped meanwhile;
\* or GetTask fails, and the execution is given up without a word.
Loads ==
  /\ pc = "load"
  /\ \/ pc' = "begin" /\ UNCHANGED <<verdict, cause, full>>
     \/ Rest(IF Live THEN "failed_processing" ELSE Termination) /\ UNCHANGED <<cause, full>>
     \/ Leaves
  /\ Stay /\ UNCHANGED file

\* The snapshot cannot be read, or prepareCampaign or the validation refuses it:
\* finishPreparationFailure is given no entries and records none.
Refuses ==
  /\ pc = "load"
  /\ Leaves /\ Ends(IF Live THEN "completed_with_errors" ELSE Termination)
  /\ UNCHANGED file

\* beginExecution: a run that was stopped before it began, a converter that
\* cannot be found, or a run.
Begins ==
  /\ pc = "begin"
  /\ \/ ~Live /\ Rest(Termination) /\ Stay
     \/ /\ Live
        /\ \/ pc' = "shared" /\ UNCHANGED verdict
           \/ Rest("failed_processing")
        /\ task' = [task EXCEPT !.status = "running"] /\ unmarked' = TRUE
        /\ UNCHANGED <<rows, processed>>
  /\ UNCHANGED <<cause, full, file>>

\* prepareSharedAttachments: the documents every entry gets.
SharesDocuments ==
  /\ pc = "shared" /\ ~unmarked
  /\ \/ pc' = "open" /\ UNCHANGED verdict
     \/ Rest(IF Live THEN "failed_processing" ELSE Termination)
  /\ Stay /\ UNCHANGED <<cause, full, file>>

\* Every failure of GenerateCampaignArchive removes the file.
Abandons == pc' = "failed" /\ file' = "absent" /\ UNCHANGED <<verdict, full>>

\* The archive is created; nobody else may own a file of that name.
OpensArchive ==
  /\ pc = "open"
  /\ \/ pc' = "entry" /\ file' = "open" /\ UNCHANGED <<verdict, full>>
     \/ Abandons
  /\ Stay /\ UNCHANGED cause

\* PrepareBatch stages the documents of an entry, has those converted that need
\* it, which may be impossible, and has all of them written, unless they do not fit
\* the archive any more; a write can fail.  An ended context stops it.
Batches == IF Live THEN {"written", "unwritten", "too_big", "unusable"} ELSE {"ended"}

\* The next entry.  What cannot be converted fails the entry, what cannot be
\* written, or an ended context, fails the archive; after an entry that does
\* not fit all the others fail like it.
PreparesEntry ==
  /\ pc = "entry" /\ ~unmarked /\ processed < Total
  /\ \E batch \in IF full /\ Live THEN {"too_big"} ELSE Batches :
       \/ batch = "written" /\ pc' = "record" /\ verdict' = "generated" /\ UNCHANGED <<full, file>>
       \/ batch \in {"unusable", "too_big"} /\ pc' = "record" /\ verdict' = "failed_processing"
          /\ full' = (full \/ batch = "too_big") /\ UNCHANGED file
       \/ batch \in {"unwritten", "ended"} /\ Abandons
  /\ Stay /\ UNCHANGED cause

\* onResult: CreateDelivery inserts the row of the entry ...
RecordsEntry ==
  /\ pc = "record"
  /\ \/ /\ pc' = "read"
        /\ rows' = [rows EXCEPT ![processed + 1] = Append(@, verdict)]
        /\ UNCHANGED <<task, processed, unmarked, verdict, full, file>>
     \/ Abandons /\ Stay
  /\ UNCHANGED cause

\* ... and reads it back.  If that fails the row stays, and is not counted as
\* processed.
ReadsEntry ==
  /\ pc = "read"
  /\ \/ /\ pc' = "count" /\ processed' = processed + 1
        /\ UNCHANGED <<task, rows, unmarked, verdict, full, file>>
     \/ Abandons /\ Stay
  /\ UNCHANGED cause

\* Then the counter of the task.
Increments ==
  /\ task' = [task EXCEPT !.failed = @ + (IF verdict = "failed_processing" THEN 1 ELSE 0)]
  /\ unmarked' = TRUE
  /\ UNCHANGED <<rows, processed>>

CountsEntry ==
  /\ pc = "count"
  /\ \/ pc' = "entry" /\ Increments /\ UNCHANGED <<verdict, full, file>>
     \/ Abandons /\ Stay
  /\ UNCHANGED cause

\* The manifest is written and the archive is closed; a context that ends
\* after the last entry is not looked at again.
ClosesArchive ==
  /\ pc = "entry" /\ ~unmarked /\ processed = Total
  /\ \/ /\ pc' = "register" /\ file' = "complete" /\ verdict' = "generated" /\ UNCHANGED full
     \/ Abandons
  /\ Stay /\ UNCHANGED cause

Fails ==
  /\ pc = "failed" /\ ~unmarked
  /\ Rest(IF Live THEN "failed_processing" ELSE Termination)
  /\ Stay /\ UNCHANGED <<cause, full, file>>

\* recordRemaining: the row of an entry, then the counter of the task.
RecordsRest ==
  /\ pc = "rest" /\ ~unmarked /\ processed < Total
  /\ pc' = "tally"
  /\ rows' = [rows EXCEPT ![processed + 1] = Append(@, verdict)]
  /\ processed' = processed + 1
  /\ UNCHANGED <<task, unmarked, cause, verdict, full, file>>

TalliesRest ==
  /\ GoTo("tally", "rest") /\ Increments /\ UNCHANGED <<cause, verdict, full, file>>

\* finishCompleted or finishTerminated.
FinishTask ==
  Ends(IF verdict \in Terminal THEN verdict
       ELSE IF task.failed > 0 THEN "completed_with_errors" ELSE "completed")

Finishes ==
  /\ pc = "finish" \/ (pc = "rest" /\ processed = Total)
  /\ ~unmarked
  /\ Leaves /\ FinishTask /\ UNCHANGED file

Running ==
  /\ \/ Loads \/ Refuses \/ Begins \/ SharesDocuments \/ OpensArchive \/ PreparesEntry
     \/ RecordsEntry \/ ReadsEntry \/ CountsEntry \/ ClosesArchive \/ Fails
     \/ RecordsRest \/ TalliesRest \/ Finishes
  /\ UNCHANGED <<registered, serving, taken, stopping>>

\* Mutant: the task is finished before its archive is registered.
FinishesUnregistered ==
  /\ pc = "register" /\ Leaves /\ FinishTask
  /\ UNCHANGED <<file, registered, serving, taken,
                 stopping>>

\* The archive is put into the map before the task is finished.
Registers ==
  /\ GoTo("register", "finish") /\ registered' = TRUE
  /\ Stay /\ UNCHANGED <<cause, verdict, full, file, serving, taken, stopping>>

-----------------------------------------------------------------------------
(* Around the execution *)

\* CancelTask ends the context of a task that is not over.
Cancels ==
  /\ Live /\ cause' = "cancelled"
  /\ UNCHANGED <<task, rows, pc, processed, verdict, full, archiveVars, stopping, unmarked>>

\* Server.Shutdown stops the queue, and with it the context of the execution.
ShutsDown ==
  /\ ~stopping /\ stopping' = TRUE
  /\ cause' = IF Live THEN "interrupted" ELSE cause
  /\ UNCHANGED <<task, rows, pc, processed, verdict, full, archiveVars, unmarked>>

\* CampaignService.Close removes what is registered: after the queue and the
\* listener have stopped, or when the time they get is over.  It runs at most
\* twice; what is registered later is left to the end of the process.
ServiceCloses ==
  /\ stopping /\ registered
  /\ registered' = FALSE /\ file' = "absent"
  /\ UNCHANGED <<runVars, serving, taken, stopping, unmarked>>

Ready == task.status \in {"completed", "completed_with_errors"}

\* Mutant: taking the archive leaves it in the map.
TakesCopy ==
  /\ Ready /\ registered
  /\ serving' = serving + 1 /\ taken' = TRUE
  /\ UNCHANGED <<runVars, file, registered, stopping, unmarked>>

\* TakeGeneratedArchive: an ended task stays ended, so that the check of its
\* status and the removal from the map are one step.  A request that finds no
\* archive changes nothing.
Takes ==
  /\ Ready /\ registered
  /\ registered' = FALSE /\ serving' = serving + 1 /\ taken' = TRUE
  /\ UNCHANGED <<runVars, file, stopping, unmarked>>

\* The request removes the file, whether it could serve it or not.
Served ==
  /\ serving > 0 /\ serving' = serving - 1
  /\ file' = "absent"
  /\ UNCHANGED <<runVars, registered, taken, stopping, unmarked>>

\* Where prepareSharedAttachments may be waiting for the attachment budget, which
\* need not end while the task is live.
AtBudget == Live /\ pc = "shared" /\ ~unmarked

Surroundings == Cancels \/ ServiceCloses \/ Takes \/ Served

-----------------------------------------------------------------------------
(* Properties *)

\* What the rows of a task that has ended say: every entry has an outcome, and
\* exactly one if the task completed.  One entry may have two, if the row that was
\* inserted for it could not be read back; the second says that it failed or was
\* stopped.  Or the task was refused, and no entry has any.
Accounted ==
  LET Twice(e) == Len(rows[e]) = 2
  IN  IF \A e \in Entries : rows[e] = <<>>
      THEN task.status # "completed"
      ELSE /\ \A e \in Entries : Len(rows[e]) = 1 \/ Twice(e)
           /\ \A e \in Entries :
                Twice(e) => /\ task.status # "completed" /\ rows[e][2] # "generated"
                            /\ \A f \in Entries : Twice(f) => f = e

\* The file of an archive is there, whole, from its registration until the one
\* request that has taken it has served it, whatever the other requests, the
\* execution and the shutdown do; and a file nobody has is removed.
ArchiveKept ==
  /\ registered \/ serving > 0 => file = "complete"
  /\ serving <= 1
  /\ pc = "done" /\ ~registered /\ serving = 0 => file = "absent"
=============================================================================
