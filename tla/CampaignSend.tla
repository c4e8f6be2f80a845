---------------------------- MODULE CampaignSend ----------------------------
(***************************************************************************)
(* One execution of a send task: ExecuteCampaignTask and executeSend of    *)
(* internal/app, the outcome statements of internal/store, the provider    *)
(* that accepts messages, a cancellation or a crash at any step, and the   *)
(* recovery of the next start.                                             *)
(*                                                                         *)
(* Address entries are numbered in the order of the snapshot; their emails *)
(* are unique in a list, so rows[e] holds the message_deliveries rows of   *)
(* one email in the order of insertion.  Every store call is one statement *)
(* and one step.  A call that is given the task's context fails once the   *)
(* context has ended; a call that is given the background context does not.*)
(* The producer of prepared items is left to AttachmentPipeline: here an   *)
(* item arrives prepared or with an error.                                 *)
(***************************************************************************)
EXTENDS Naturals, Sequences, FiniteSets

CONSTANTS
  Total,        \* the number of address entries in the snapshot
  MaxAttempts,  \* maxDeliveryAttempts
  Ambiguous,    \* may the reply to an accepted message be lost?
  DbFails       \* may a statement fail, or a file of the input be unreadable?

ASSUME TotalAssumption == Total \in Nat \ {0}
ASSUME MaxAttemptsAssumption == MaxAttempts \in Nat \ {0}
ASSUME FlagsAssumption == Ambiguous \in BOOLEAN /\ DbFails \in BOOLEAN

VARIABLES
  \* Durable: the row of tasks and its rows of message_deliveries.
  status,      \* tasks.status
  tally,       \* tasks.sent, failed and skipped
  rows,        \* rows[e]: the statuses of the rows of entry e
  \* The execution.
  pc,          \* the step it has come to
  cause,       \* how its context has ended, "live" while it has not
  next,        \* the entry it is working on
  attempt,     \* the attempt of sendWithRetry
  verdict,     \* the outcome about to be recorded
  \* The outside world.
  suppressed,  \* the entries on the suppression list
  mailed       \* mailed[e]: how many messages for e the provider accepted

vars == <<status, tally, rows, pc, cause, next, attempt, verdict, suppressed, mailed>>

Entries == 1 .. Total
Started == {"preparing", "running"}
Stops == {"cancelled", "interrupted"}
Terminal == {"completed", "completed_with_errors"} \union Stops
Kinds == {"transient", "permanent", "configuration"}
FailedKind == [transient |-> "failed_transient", permanent |-> "failed_permanent",
               configuration |-> "failed_configuration"]
Failures == {"failed_processing", "failed_transient", "failed_permanent", "failed_configuration"}
Skips == {"skipped_suppressed", "not_attempted_configuration"} \union Stops
Open == {"attempted", "retrying"}
RowStatuses == Open \union {"sent"} \union Failures \union Skips

Live == cause = "live"

Init ==
  /\ status = "preparing"
  /\ tally = [sent |-> 0, failed |-> 0, skipped |-> 0]
  /\ rows = [e \in Entries |-> <<>>]
  /\ pc = "load"
  /\ cause = "live"
  /\ next = 1
  /\ attempt = 1
  /\ verdict = "none"
  /\ suppressed \in SUBSET Entries
  /\ mailed = [e \in Entries |-> 0]
-----------------------------------------------------------------------------
(* Steps of the execution *)

durable == <<status, tally, rows>>
world == <<cause, suppressed, mailed>>

GoTo(from, to) == pc = from /\ pc' = to

\* Go on with an outcome to record.
Conclude(outcome) ==
  /\ verdict' = outcome
  /\ pc' = "update"
  /\ UNCHANGED <<durable, next, attempt, world>>

\* Give every entry that is left the same outcome and finish the task.
ConcludeRest(outcome) ==
  /\ verdict' = outcome
  /\ pc' = "rest"
  /\ UNCHANGED <<durable, next, attempt, world>>

\* termination: a context that was not cancelled by the operator, or not at
\* all, makes the outcome "interrupted".
Termination == IF cause = "cancelled" THEN "cancelled" ELSE "interrupted"

Proceed(from, to) ==
  /\ GoTo(from, to)
  /\ UNCHANGED <<durable, next, attempt, verdict, world>>

\* ExecuteCampaignTask reads the snapshot, the profile and the attachments.
LoadSnapshot == Proceed("load", "sender")

\* LoadPayload failed, because the context ended while it ran or because the
\* database did: the entries are not known and no outcome is recorded.  If it
\* was GetTask that failed, the execution gives up without a word.
LoadFailed ==
  /\ ~Live \/ DbFails
  /\ GoTo("load", "done")
  /\ status' \in {status, IF Live THEN "completed_with_errors" ELSE Termination}
  /\ UNCHANGED <<tally, rows, next, attempt, verdict, world>>

\* prepareCampaign or the validation refuses the snapshot: it is given back empty,
\* and no outcome of its entries is recorded.
SnapshotRefused ==
  /\ GoTo("load", "done")
  /\ status' \in {IF Live THEN "completed_with_errors" ELSE Termination}
                \union (IF DbFails THEN {status} ELSE {})
  /\ UNCHANGED <<tally, rows, next, attempt, verdict, world>>

\* The context ended between two attachments, or before the sender is built.
LoadStopped ==
  /\ pc \in {"load", "sender"} /\ ~Live
  /\ ConcludeRest(Termination)

SenderReady == Proceed("sender", "begin")

\* The snapshot is not what the operator confirmed, an attachment is missing, or
\* SenderForProfile finds no credentials or cannot refresh the token.
PreparationFailed ==
  /\ pc \in {"load", "sender"}
  /\ ConcludeRest(IF Live THEN "unprepared" ELSE Termination)

BeginExecution ==
  /\ Live
  /\ GoTo("begin", "shared")
  /\ status' \in {"running"} \union (IF DbFails THEN {status} ELSE {})
  /\ UNCHANGED <<tally, rows, next, attempt, verdict, world>>

BeginStopped ==
  /\ pc = "begin" /\ ~Live
  /\ ConcludeRest(Termination)

\* beginExecution finds no LibreOffice; the context is not looked at.
ConverterMissing ==
  /\ pc = "shared"
  /\ ConcludeRest("failed_processing")

SharedReady == Proceed("shared", "next")

SharedFailed ==
  /\ pc = "shared"
  /\ ConcludeRest(IF Live THEN "failed_processing" ELSE Termination)

\* The top of the loop over the prepared items.
TakeItem ==
  /\ next <= Total /\ Live
  /\ Proceed("next", "insert")

\* The context ended before this entry was touched, or after the last one.
StopAtItem ==
  /\ pc = "next" /\ ~Live
  /\ ConcludeRest(Termination)

AllProcessed ==
  /\ next > Total /\ Live
  /\ Proceed("next", "finish")
-----------------------------------------------------------------------------
(* One entry *)

\* CreateDelivery puts the attempt on record before anything is sent ...
InsertDelivery ==
  /\ Live
  /\ GoTo("insert", "read")
  /\ rows' = [rows EXCEPT ![next] = Append(@, "attempted")]
  /\ UNCHANGED <<status, tally, next, attempt, verdict, world>>

\* ... and reads the row back.
ReadDelivery ==
  /\ Live
  /\ Proceed("read", "prepared")

\* CreateDelivery failed.  Its row may be there, but nobody knows its id.
CreateStopped ==
  /\ pc \in {"insert", "read"} /\ ~Live
  /\ ConcludeRest(Termination)

CreateFailed ==
  /\ DbFails
  /\ pc \in {"insert", "read"} /\ Live
  /\ pc' = "count"
  /\ verdict' = "failed_processing"
  /\ UNCHANGED <<durable, next, attempt, world>>

ItemReady == Proceed("prepared", "check")

\* The item arrived with an error, or its attachments, which were not prepared
\* because it was suppressed then, cannot be prepared now.
ItemFailed ==
  /\ pc \in {"prepared", "compose"}
  /\ Conclude(IF Live THEN "failed_processing" ELSE Termination)

\* withSignature fails; the context is not looked at.
SignatureFailed ==
  /\ pc = "compose"
  /\ Conclude("failed_processing")

\* Mutant: only the producer looks at the suppression list.
CheckSuppressedNever ==
  /\ pc = "check"
  /\ Live /\ Proceed("check", "compose")

\* IsSuppressed is asked again for each item.
CheckSuppressed ==
  /\ pc = "check"
  /\ \/ ~Live /\ Conclude(Termination)
     \/ Live /\ next \in suppressed /\ Conclude("skipped_suppressed")
     \/ Live /\ next \notin suppressed /\ Proceed("check", "compose")
     \/ Live /\ DbFails /\ Conclude("failed_processing")

ItemComposed ==
  /\ GoTo("compose", "pace")
  /\ attempt' = 1
  /\ UNCHANGED <<durable, next, verdict, world>>

\* The pacer has waited, or had nothing to wait for.  It may be given an ended
\* context, and so may the sender, whose open connection is closed at leisure.
StartAttempt == Proceed("pace", "sending")

\* The wait of the pacer or of the backoff is cut short.
AttemptStopped ==
  /\ pc \in {"pace", "backoff"} /\ ~Live
  /\ Conclude(Termination)

\* The provider takes the message; the execution does not know yet.
ProviderAccepts ==
  /\ GoTo("sending", "accepted")
  /\ mailed' = [mailed EXCEPT ![next] = @ + 1]
  /\ UNCHANGED <<durable, next, attempt, verdict, cause, suppressed>>

SendSucceeded ==
  /\ pc = "accepted"
  /\ Conclude("sent")

\* Mutant: one attempt too many.
RetryableOnceMore(kind) == kind = "transient" /\ attempt <= MaxAttempts

Retryable(kind) == kind = "transient" /\ attempt < MaxAttempts

\* The send failed, or timed out, which is a transient failure.  A message
\* the provider has accepted may be reported as failed.
SendFailed ==
  /\ \/ pc = "sending"
     \/ pc = "accepted" /\ Ambiguous
  /\ \/ ~Live /\ Conclude(Termination)
     \/ Live /\ \E kind \in IF pc = "sending" THEN Kinds ELSE {"transient"} :
          IF Retryable(kind)
            THEN Proceed(pc, "backoff")
            ELSE Conclude(FailedKind[kind])

\* Mutant: the attempts are not counted.
RetrySameAttempt ==
  /\ GoTo("backoff", "pace")
  /\ rows' = [rows EXCEPT ![next][Len(rows[next])] = "retrying"]
  /\ UNCHANGED <<status, tally, next, attempt, verdict, world>>

\* After the backoff, which may end together with the context, the row says
\* retrying.
Retry ==
  /\ GoTo("backoff", "pace")
  /\ attempt' = attempt + 1
  /\ rows' \in {[rows EXCEPT ![next][Len(rows[next])] = "retrying"]}
               \union (IF DbFails \/ ~Live THEN {rows} ELSE {})
  /\ UNCHANGED <<status, tally, next, verdict, world>>
-----------------------------------------------------------------------------
(* Recording outcomes *)

\* The outcomes that are written with the context of the task.
ContextBound == {"sent", "skipped_suppressed"}

MayFail == DbFails \/ (verdict \in ContextBound /\ ~Live)
MustFail == verdict \in ContextBound /\ ~Live

\* UpdateDeliveryStatus; its error is ignored.
UpdateDelivery ==
  /\ GoTo("update", "count")
  /\ \/ ~MustFail /\ rows' = [rows EXCEPT ![next][Len(rows[next])] = verdict]
     \/ MayFail /\ UNCHANGED rows
  /\ UNCHANGED <<status, tally, next, attempt, verdict, world>>

RowStatus(outcome) == IF outcome = "unprepared" THEN "failed_processing" ELSE outcome

Field(outcome) ==
  CASE outcome = "sent" -> "sent"
    [] outcome \in Failures -> "failed"
    [] OTHER -> "skipped"

Increment == tally' = [tally EXCEPT ![Field(RowStatus(verdict))] = @ + 1]

\* Mutant: the entry that failed is among the ones not attempted.
CountDeliverySameEntry ==
  /\ pc = "count"
  /\ \/ ~MustFail /\ Increment
     \/ MayFail /\ UNCHANGED tally
  /\ next' = IF verdict = "failed_configuration" THEN next ELSE next + 1
  /\ \/ /\ verdict \in Stops
        /\ pc' = "rest" /\ UNCHANGED verdict
     \/ /\ verdict = "failed_configuration"
        /\ pc' = "rest" /\ verdict' = "not_attempted_configuration"
     \/ /\ verdict \notin Stops \union {"failed_configuration"}
        /\ pc' = "next" /\ UNCHANGED verdict
  /\ UNCHANGED <<status, rows, attempt, world>>

\* IncrementTask...; then the next entry, or the end of the campaign after a
\* termination or a configuration failure.
CountDelivery ==
  /\ pc = "count"
  /\ \/ ~MustFail /\ Increment
     \/ MayFail /\ UNCHANGED tally
  /\ next' = next + 1
  /\ \/ /\ verdict \in Stops
        /\ pc' = "rest" /\ UNCHANGED verdict
     \/ /\ verdict = "failed_configuration"
        /\ pc' = "rest" /\ verdict' = "not_attempted_configuration"
     \/ /\ verdict \notin Stops \union {"failed_configuration"}
        /\ pc' = "next" /\ UNCHANGED verdict
  /\ UNCHANGED <<status, rows, attempt, world>>

\* recordRemaining: a row and an increment for each entry that is left.  An
\* entry whose row cannot be written is passed over.
RecordRemaining ==
  /\ next <= Total
  /\ GoTo("rest", "restcount")
  /\ rows' = [rows EXCEPT ![next] = Append(@, RowStatus(verdict))]
  /\ UNCHANGED <<status, tally, next, attempt, verdict, world>>

RecordFailed ==
  /\ DbFails
  /\ next <= Total
  /\ pc = "rest"
  /\ next' = next + 1
  /\ UNCHANGED <<durable, pc, attempt, verdict, world>>

\* Mutant: what the remaining entries failed of is not counted as a failure.
CountRemainingSkipped ==
  /\ GoTo("restcount", "rest")
  /\ tally' = [tally EXCEPT !.skipped = @ + 1]
  /\ next' = next + 1
  /\ UNCHANGED <<status, rows, attempt, verdict, world>>

CountRemaining ==
  /\ GoTo("restcount", "rest")
  /\ \/ Increment
     \/ DbFails /\ UNCHANGED tally
  /\ next' = next + 1
  /\ UNCHANGED <<status, rows, attempt, verdict, world>>

\* Mutant: the last entry is forgotten.
RemainingRecordedEarly == next >= Total /\ Proceed("rest", "finish")

RemainingRecorded == next > Total /\ Proceed("rest", "finish")

\* finishTerminated, finishPreparationFailure and finishCompleted.
Finish ==
  /\ GoTo("finish", "done")
  /\ \/ status' = IF verdict \in Stops THEN verdict
                  ELSE IF verdict = "unprepared" \/ tally.failed > 0 THEN "completed_with_errors"
                  ELSE "completed"
     \/ DbFails /\ UNCHANGED status
  /\ UNCHANGED <<tally, rows, next, attempt, verdict, world>>
-----------------------------------------------------------------------------
(* The operator, the process and the suppression list *)

\* Runner.Cancel or Runner.Shutdown ends the context of an active task.
Stop ==
  /\ pc \notin {"done", "down", "forgotten"} /\ Live
  /\ cause' \in Stops
  /\ UNCHANGED <<durable, pc, next, attempt, verdict, suppressed, mailed>>

\* The process ends.  The input of a task whose execution had returned may
\* have been released; a file of it may be unreadable.
Crash ==
  /\ pc \notin {"down", "forgotten"}
  /\ pc' \in IF pc = "done" \/ DbFails THEN {"down", "forgotten"} ELSE {"down"}
  /\ cause' = "live"
  /\ UNCHANGED <<durable, next, attempt, verdict, suppressed, mailed>>

Rows(statuses) ==
  UNION {{e} \X {i \in DOMAIN rows[e] : rows[e][i] \in statuses} : e \in Entries}

\* The tally finalizeTaskStatus computes from the rows.
Recount ==
  [sent |-> Cardinality(Rows({"sent"})), failed |-> Cardinality(Rows(Failures)),
   skipped |-> Cardinality(Rows(Skips))]

SettledRow(row) == IF row \in Open THEN "interrupted" ELSE row

\* Mutant: the entries without a row are left without one.
RecoveredRowsKnown ==
  [e \in Entries |-> [i \in DOMAIN rows[e] |-> SettledRow(rows[e][i])]]

\* FinalizeInterruptedTask: the open rows are settled, and an entry of the
\* snapshot that has no row gets one, if the snapshot is still there.
RecoveredRows ==
  [e \in Entries |->
     IF rows[e] = <<>> /\ pc # "forgotten"
       THEN <<"interrupted">>
       ELSE [i \in DOMAIN rows[e] |-> SettledRow(rows[e][i])]]

\* Mutant: recovery does not ask which tasks were started.
RecoverAny ==
  /\ pc \in {"down", "forgotten"}
  /\ rows' = RecoveredRows
  /\ tally' = Recount'
  /\ status' = "interrupted"
  /\ UNCHANGED <<pc, next, attempt, verdict, world>>

Recover ==
  /\ pc \in {"down", "forgotten"}
  /\ status \in Started
  /\ rows' = RecoveredRows
  /\ tally' = Recount'
  /\ status' = "interrupted"
  /\ UNCHANGED <<pc, next, attempt, verdict, world>>

\* WriteSuppressions and DeleteSuppression, while the campaign runs.
ChangeSuppression(e) ==
  /\ pc \notin {"done", "down", "forgotten"}
  /\ suppressed' \in {suppressed \union {e}, suppressed \ {e}}
  /\ UNCHANGED <<durable, pc, cause, next, attempt, verdict, mailed>>
-----------------------------------------------------------------------------
Load ==
  \/ LoadSnapshot
  \/ LoadFailed
  \/ SnapshotRefused
  \/ LoadStopped
  \/ SenderReady
  \/ PreparationFailed

Prepare ==
  BeginExecution \/ BeginStopped \/ ConverterMissing \/ SharedReady \/ SharedFailed

ProcessItem ==
  \/ TakeItem
  \/ StopAtItem
  \/ AllProcessed
  \/ InsertDelivery
  \/ ReadDelivery
  \/ CreateStopped
  \/ CreateFailed
  \/ ItemReady
  \/ ItemFailed
  \/ SignatureFailed
  \/ CheckSuppressed
  \/ ItemComposed

Send ==
  StartAttempt \/ AttemptStopped \/ ProviderAccepts \/ SendSucceeded \/ SendFailed \/ Retry

Record ==
  \/ UpdateDelivery
  \/ CountDelivery
  \/ RecordRemaining
  \/ RecordFailed
  \/ CountRemaining
  \/ RemainingRecorded
  \/ Finish

Execute == Load \/ Prepare \/ ProcessItem \/ Send \/ Record

Next ==
  \/ Execute
  \/ Stop
  \/ Crash
  \/ Recover
  \/ \E e \in Entries : ChangeSuppression(e)

Spec == Init /\ [][Next]_vars

\* Where acquire may be waiting for the attachment budget, which need not end while
\* the task is live: in the shared attachments, in the producer the loop waits for,
\* or in the attachments of an item that was suppressed when it was prepared.
AtBudget ==
  Live /\ (pc \in {"shared", "compose"} \/ (pc = "next" /\ next <= Total))

\* The goroutine of the worker goes on everywhere else: sends, conversions, pacing
\* and statements end.
FairSpec == Spec /\ WF_vars(Execute /\ ~AtBudget)
-----------------------------------------------------------------------------
(* Types *)

\* Every variable stays in its type.
TypeOK ==
  /\ status \in Started \union Terminal
  /\ tally \in [{"sent", "failed", "skipped"} -> Nat]
  /\ rows \in [Entries -> Seq(RowStatuses)]
  /\ pc \in {"load", "sender", "begin", "shared", "next", "insert", "read",
             "prepared", "check", "compose", "pace", "sending", "accepted",
             "backoff", "update", "count", "rest", "restcount", "finish",
             "done", "down", "forgotten"}
  /\ cause \in {"live"} \union Stops
  /\ next \in 1 .. Total + 1
  /\ attempt \in 1 .. MaxAttempts
  /\ verdict \in {"none", "unprepared", "sent"} \union Failures \union Skips
  /\ suppressed \subseteq Entries
  /\ mailed \in [Entries -> Nat]
-----------------------------------------------------------------------------
(* Safety *)

\* The ledger never says more than happened: a row that says sent, and no row
\* that says the entry was not tried, belongs to an entry whose message was
\* accepted, and no message leaves before it has a row.
LedgerHonest ==
  \A e \in Entries :
    /\ mailed[e] > 0 => rows[e] # <<>>
    /\ \A i \in DOMAIN rows[e] :
         /\ rows[e][i] = "sent" => mailed[e] > 0
         /\ rows[e][i] \in {"skipped_suppressed", "not_attempted_configuration"}
              => mailed[e] = 0

\* Nobody gets a message twice, over all restarts, unless the reply to an
\* accepted message was lost, and then no more often than maxDeliveryAttempts.
MailedOnce ==
  \A e \in Entries : mailed[e] <= IF Ambiguous THEN MaxAttempts ELSE 1

NothingDone == \A e \in Entries : rows[e] = <<>> /\ mailed[e] = 0

\* The tally of a task that has ended accounts for its entries, if no statement
\* failed: a task that completed has counted exactly its rows and every entry
\* once, and says completed only if none of them failed.  A task that was stopped
\* misses at most the entry in flight and counts no more sent than were mailed.
\* A task whose inputs were refused, or that was stopped before its entries were
\* known, counts nothing and is not completed.  An entry is counted twice
\* only by a recovery that finds two rows of it, left by an execution that was
\* stopped between the insertion and the reading of a row and then crashed.
TallyClosed ==
  LET counted == tally.sent + tally.failed + tally.skipped
  IN  /\ status \in Terminal /\ NothingDone => counted = 0 /\ status # "completed"
      /\ status \in Terminal \ Stops /\ ~NothingDone =>
           /\ counted = Total
           /\ tally = Recount
           /\ status = "completed" <=> tally.failed = 0
      /\ status \in Stops /\ ~NothingDone =>
           /\ counted \in Total - 1 .. Total + Cardinality({e \in Entries : Len(rows[e]) > 1})
           /\ counted > Total => pc = "down"
           /\ tally.sent <= Cardinality({e \in Entries : mailed[e] > 0})

\* An outcome is final: once the task has one, nothing is sent, no row and no
\* count changes, whatever restarts follow.
OutcomeFinal ==
  [][(status \in Terminal) => UNCHANGED <<durable, mailed>>]_vars

\* Recovery repairs whatever a crash or failed statements have left: no row
\* stays open, the tally is the count of the rows, and every entry has a row,
\* unless the execution had ended and its input was gone.
RecoveryExact ==
  [][status' # status /\ pc \in {"down", "forgotten"} =>
       /\ Rows(Open)' = {}
       /\ tally' = Recount'
       /\ pc = "down" => (\A e \in Entries : Len(rows'[e]) > 0)]_vars

\* The report offers every row that is not sent for a second campaign, as
\* "failed / unsent": nobody who was mailed by a task that was not cut off by
\* the end of the process may be there.
\* The update to sent is made with the context of the task, and is lost when
\* the task is cancelled after the provider has accepted the message.
UnsentNotMailed ==
  pc = "done" /\ status \in Terminal =>
    \A e \in Entries :
      (\E i \in DOMAIN rows[e] : rows[e][i] # "sent") => mailed[e] = 0
-----------------------------------------------------------------------------
(* Liveness *)

\* An execution ends with an outcome, wherever it is stopped and however often it
\* retries, unless the process dies first; it may give up without one only
\* before it has touched an entry.  One that does not end is waiting for the
\* attachment budget for ever, and nobody has stopped it.
ExecutionEnds ==
  \/ <>(status \in Terminal \/ pc \in {"down", "forgotten"} \/ (pc = "done" /\ NothingDone))
  \/ <>[]AtBudget

\* An address that is suppressed before its turn, and stays so, gets nothing,
\* even if it was not suppressed when its attachments were prepared.
SuppressionHonoured ==
  \A e \in Entries :
    [](rows[e] = <<>> /\ [](e \in suppressed) => [](mailed[e] = 0))
-----------------------------------------------------------------------------
(* Refinement *)

\* What the last row of an entry says of it.
Settled(e) ==
  IF rows[e] = <<>> \/ rows[e][Len(rows[e])] \in Open THEN "open" ELSE rows[e][Len(rows[e])]

Ledger ==
  INSTANCE DeliveryLedger
    WITH settled <- [e \in Entries |-> Settled(e)],
         outcome <- IF status \in Terminal THEN status ELSE "none"

\* Without failing statements, an execution is an implementation of the ledger
\* it shows to the operator, stopped or crashed wherever it may be.
ImplementsLedger == Ledger!Spec
=============================================================================
