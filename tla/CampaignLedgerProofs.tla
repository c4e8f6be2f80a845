------------------------ MODULE CampaignLedgerProofs ------------------------
(***************************************************************************)
(* What the operator can rely on in a send task, proved for any number of  *)
(* entries and attempts: an address suppressed before its turn gets        *)
(* nothing, and an execution implements DeliveryLedger.                    *)
(***************************************************************************)
EXTENDS CampaignSendProofs
-----------------------------------------------------------------------------
(* Suppression *)

\* Entry e has got nothing and is not on its way to the provider.
Spared(e) ==
  /\ mailed[e] = 0
  /\ pc \in {"compose", "accepted"} \union Sending => next # e

\* The suppression list is asked between the row of an entry and its message.
LEMMA SparedBefore ==
  ASSUME IInv, NEW e \in Entries, rows[e] = <<>>
  PROVE  Spared(e)
  BY DEF Spared, IInv, TypeOK, LedgerHonest, CurrentEntry, Composing, Sending

LEMMA SparedStep ==
  ASSUME IInv, NEW e \in Entries, e \in suppressed, Spared(e), [Next]_vars
  PROVE  Spared(e)'
<1> USE DEF Spared, IInv, TypeOK, Sending, durable, world, GoTo, Proceed, Conclude, ConcludeRest
<1>1. CASE Load
  BY <1>1 DEF Load, LoadSnapshot, LoadFailed, SnapshotRefused, LoadStopped, SenderReady, PreparationFailed
<1>2. CASE Prepare
  BY <1>2 DEF Prepare, BeginExecution, BeginStopped, ConverterMissing, SharedReady, SharedFailed
<1>3. CASE ProcessItem
  BY <1>3
  DEF ProcessItem, TakeItem, StopAtItem, AllProcessed, InsertDelivery, ReadDelivery,
      CreateStopped, CreateFailed, ItemReady, ItemFailed, SignatureFailed, CheckSuppressed,
      ItemComposed
<1>4. CASE Send
  BY <1>4
  DEF Send, StartAttempt, AttemptStopped, ProviderAccepts, SendSucceeded, SendFailed, Retry
<1>5. CASE Record
  BY <1>5
  DEF Record, UpdateDelivery, CountDelivery, RecordRemaining, RecordFailed, CountRemaining,
      RemainingRecorded, Finish
<1>6. CASE Stop \/ Crash \/ Recover \/ \E d \in Entries : ChangeSuppression(d)
  BY <1>6 DEF Stop, Crash, Recover, ChangeSuppression
<1>7. CASE UNCHANGED vars
  BY <1>7 DEF vars
<1> QED
  BY <1>1, <1>2, <1>3, <1>4, <1>5, <1>6, <1>7 DEF Next, Execute

\* executeSend asks IsSuppressed again for each item: an address that is on the
\* list before its row is written, and stays there, gets no message, however the
\* execution is stopped, crashed, recovered or hit by failing statements.
THEOREM SuppressionIsHonoured == Spec => SuppressionHonoured
<1> SUFFICES ASSUME NEW e \in Entries
             PROVE  Spec => [](rows[e] = <<>> /\ [](e \in suppressed) => [](mailed[e] = 0))
  BY DEF SuppressionHonoured
<1>1. IInv /\ rows[e] = <<>> => Spared(e)
  BY SparedBefore
<1>2. IInv /\ e \in suppressed /\ Spared(e) /\ [Next]_vars => Spared(e)'
  BY SparedStep
<1>3. Spared(e) => mailed[e] = 0
  BY DEF Spared
<1> QED
  BY <1>1, <1>2, <1>3, Invariance, PTL DEF Spec
-----------------------------------------------------------------------------
(* What the rows say of the entries *)

\* The report the operator reads: the outcome of each entry.
Report == [e \in Entries |-> Settled(e)]

LEMMA ReportKept ==
  ASSUME UNCHANGED rows
  PROVE  Report' = Report
  BY DEF Report, Settled

\* The last row of an entry is the one that was written last.
LEMMA LastRowInserted ==
  ASSUME NEW r \in [Entries -> Seq(RowStatuses)], NEW e \in Entries, NEW x \in RowStatuses,
         NEW q, q = [r EXCEPT ![e] = Append(@, x)]
  PROVE  q[e] # <<>> /\ q[e][Len(q[e])] = x /\ \A d \in Entries : d # e => q[d] = r[d]
<1>1. q[e] = Append(r[e], x) /\ r[e] \in Seq(RowStatuses)
  OBVIOUS
<1>2. Len(q[e]) = Len(r[e]) + 1 /\ q[e][Len(r[e]) + 1] = x
  BY <1>1
<1> QED
  BY <1>2, AppendRow

LEMMA LastRowSet ==
  ASSUME NEW r \in [Entries -> Seq(RowStatuses)], NEW e \in Entries, NEW x \in RowStatuses,
         r[e] # <<>>, NEW q, q = [r EXCEPT ![e][Len(r[e])] = x]
  PROVE  q[e] # <<>> /\ q[e][Len(q[e])] = x /\ \A d \in Entries : d # e => q[d] = r[d]
<1>1. q[e] = [r[e] EXCEPT ![Len(r[e])] = x] /\ r[e] \in Seq(RowStatuses)
  OBVIOUS
<1>2. Len(r[e]) \in DOMAIN r[e]
  BY <1>1
<1>3. Len(q[e]) = Len(r[e]) /\ q[e][Len(r[e])] = x
  BY <1>1, <1>2
<1> QED
  BY <1>3, SetLastRow

\* A row that is open does not change what the report says of an open entry.
LEMMA OpenRowsUnreported ==
  ASSUME IInv, InsertDelivery \/ Retry
  PROVE  Report' = Report
<1>1. rows \in [Entries -> Seq(RowStatuses)]
  BY DEF IInv, TypeOK
<1>2. CASE InsertDelivery
  <2>1. next \in Entries /\ rows[next] = <<>>
    BY <1>2 DEF InsertDelivery, GoTo, IInv, CurrentEntry, Untouched
  <2>2. "attempted" \in RowStatuses \intersect Open
    BY DEF RowStatuses, Open
  <2>3. rows' = [rows EXCEPT ![next] = Append(@, "attempted")]
    BY <1>2 DEF InsertDelivery
  <2>4. rows'[next][Len(rows'[next])] = "attempted" /\ \A d \in Entries : d # next => rows'[d] = rows[d]
    BY <1>1, <2>1, <2>2, <2>3, LastRowInserted
  <2> QED
    BY <2>1, <2>2, <2>4 DEF Report, Settled
<1>3. CASE Retry
  <2>1. /\ next \in Entries /\ rows[next] # <<>>
        /\ \A i \in DOMAIN rows[next] : rows[next][i] \in Open
    BY <1>3 DEF Retry, GoTo, IInv, CurrentEntry, Sending
  <2>2. "retrying" \in RowStatuses \intersect Open
    BY DEF RowStatuses, Open
  <2>3. rows' = [rows EXCEPT ![next][Len(rows[next])] = "retrying"] \/ rows' = rows
    BY <1>3 DEF Retry
  <2>4. CASE rows' = rows
    BY <2>4, ReportKept
  <2>5. CASE rows' = [rows EXCEPT ![next][Len(rows[next])] = "retrying"]
    <3>1. rows'[next][Len(rows'[next])] = "retrying" /\ \A d \in Entries : d # next => rows'[d] = rows[d]
      BY <1>1, <2>1, <2>2, <2>5, LastRowSet
    <3>2. Len(rows[next]) \in DOMAIN rows[next]
      BY <1>1, <2>1
    <3> QED
      BY <2>1, <2>2, <3>1, <3>2 DEF Report, Settled
  <2> QED
    BY <2>3, <2>4, <2>5
<1> QED
  BY <1>2, <1>3

LEMMA VerdictReported ==
  ASSUME IInv, UpdateDelivery
  PROVE  /\ next \in Entries /\ Report[next] = "open"
         /\ verdict \in EntryOutcomes
         /\ \/ MayFail /\ Report' = Report
            \/ Report' = [Report EXCEPT ![next] = verdict]
<1>1. rows \in [Entries -> Seq(RowStatuses)]
  BY DEF IInv, TypeOK
<1>2. /\ next \in Entries /\ rows[next] # <<>>
      /\ \A i \in DOMAIN rows[next] : rows[next][i] \in Open
      /\ verdict \in EntryOutcomes
  BY DEF UpdateDelivery, GoTo, IInv, CurrentEntry, VerdictConsistent
<1>3. verdict \in RowStatuses \ Open
  BY <1>2 DEF EntryOutcomes, RowStatuses, Open, Failures, Skips, Stops
<1>4. Report[next] = "open"
  <2>1. Len(rows[next]) \in DOMAIN rows[next]
    BY <1>1, <1>2
  <2> QED
    BY <1>2, <2>1 DEF Report, Settled
<1>5. CASE UNCHANGED rows /\ MayFail
  BY <1>2, <1>4, <1>5, ReportKept
<1>6. CASE rows' = [rows EXCEPT ![next][Len(rows[next])] = verdict]
  <2>1. /\ rows'[next] # <<>> /\ rows'[next][Len(rows'[next])] = verdict
        /\ \A d \in Entries : d # next => rows'[d] = rows[d]
    BY <1>1, <1>2, <1>3, <1>6, LastRowSet
  <2>2. Report' = [Report EXCEPT ![next] = verdict]
    BY <1>2, <1>3, <2>1 DEF Report, Settled
  <2> QED
    BY <1>2, <1>4, <2>2
<1> QED
  BY <1>5, <1>6 DEF UpdateDelivery

LEMMA RemainingReported ==
  ASSUME IInv, RecordRemaining
  PROVE  /\ next \in Entries /\ verdict \in RestOutcomes
         /\ Report' = [Report EXCEPT ![next] = RowStatus(verdict)]
<1>1. rows \in [Entries -> Seq(RowStatuses)]
  BY DEF IInv, TypeOK
<1>2. next \in Entries /\ verdict \in RestOutcomes
  BY DEF RecordRemaining, GoTo, IInv, TypeOK, Entries, VerdictConsistent, Resting
<1>3. RowStatus(verdict) \in RowStatuses \ Open
  BY <1>2 DEF RowStatus, RestOutcomes, RowStatuses, Open, Failures, Skips, Stops
<1>4. PICK x \in RowStatuses : x = RowStatus(verdict) /\ x \notin Open
  BY <1>3
<1>5. rows' = [rows EXCEPT ![next] = Append(@, x)]
  BY <1>4 DEF RecordRemaining
<1>6. \A d \in Entries : d # next => rows'[d] = rows[d]
  BY <1>1, <1>2, <1>5
<1>7. rows'[next] # <<>> /\ rows'[next][Len(rows'[next])] = x
  <2>1. rows'[next] # <<>>
    BY <1>1, <1>2, <1>5, LastRowInserted
  <2>2. rows'[next][Len(rows'[next])] = x
    BY <1>1, <1>2, <1>5, LastRowInserted
  <2> QED
    BY <2>1, <2>2
<1>8. Report' = [Report EXCEPT ![next] = x]
  BY <1>2, <1>4, <1>6, <1>7 DEF Report, Settled
<1> QED
  BY <1>2, <1>4, <1>8

\* Recovery settles what is open, but cannot name the entries of an input that
\* is gone.
LEMMA RecoveryReported ==
  ASSUME IInv, Recover, NEW e \in Entries
  PROVE  Report'[e] = IF Report[e] # "open" THEN Report[e]
                      ELSE IF rows[e] = <<>> /\ pc = "forgotten" THEN "open" ELSE "interrupted"
<1>1. rows \in [Entries -> Seq(RowStatuses)] /\ rows' = RecoveredRows
  BY DEF IInv, TypeOK, Recover
<1>2. rows[e] \in Seq(RowStatuses) /\ DOMAIN rows[e] = 1 .. Len(rows[e]) /\ Len(rows[e]) \in Nat
  BY <1>1
<1>3. Report[e] = Settled(e) /\ Report'[e] = Settled(e)'
  BY DEF Report
<1>4. CASE rows[e] = <<>> /\ pc # "forgotten"
  <2>1. rows'[e] = <<"interrupted">>
    BY <1>1, <1>4 DEF RecoveredRows
  <2> QED
    BY <1>3, <1>4, <2>1 DEF Settled, Open
<1>5. CASE ~(rows[e] = <<>> /\ pc # "forgotten")
  <2>1. rows'[e] = [i \in 1 .. Len(rows[e]) |-> SettledRow(rows[e][i])]
    BY <1>1, <1>2, <1>5 DEF RecoveredRows
  <2>2. Len(rows'[e]) = Len(rows[e]) /\ (rows'[e] = <<>> <=> rows[e] = <<>>)
    <3>1. \A i \in 1 .. Len(rows[e]) : SettledRow(rows[e][i]) \in RowStatuses
      BY <1>2 DEF SettledRow, RowStatuses, Skips, Stops
    <3>2. rows'[e] \in Seq(RowStatuses) /\ Len(rows'[e]) = Len(rows[e])
      BY <1>2, <2>1, <3>1
    <3> QED
      BY <1>2, <3>2
  <2>3. rows[e] # <<>> => rows'[e][Len(rows'[e])] = SettledRow(rows[e][Len(rows[e])])
    BY <1>2, <2>1, <2>2
  <2>4. rows[e] # <<>> => rows[e][Len(rows[e])] # "open"
    BY <1>2 DEF RowStatuses, Open, Failures, Skips, Stops
  <2> QED
    BY <1>3, <1>5, <2>2, <2>3, <2>4 DEF Settled, SettledRow, Open
<1> QED
  BY <1>4, <1>5
-----------------------------------------------------------------------------
(* How far the report has come *)

Starting == {"load", "sender", "begin", "shared"}

\* An entry is passed over only when the outcome of its message cannot be
\* written, because the task has been stopped: there is at most one.
Behind ==
  /\ \A e \in Entries : e < next /\ Report[e] = "open" =>
       ~Live /\ pc \in {"next", "rest", "restcount", "finish"} /\ (pc # "next" => verdict \in Stops)
  /\ \A d, e \in Entries : d < next /\ e < next /\ Report[d] = "open" /\ Report[e] = "open" => d = e

\* Nothing is reported of an entry before its turn.
Ahead ==
  /\ pc \in Starting => next = 1
  /\ pc = "finish" => next = Total + 1
  /\ \A e \in Entries : e >= next /\ Report[e] # "open" => e = next /\ pc \in {"count", "restcount"}
  /\ pc = "count" => \/ Report[next] = verdict
                     \/ Report[next] = "open" /\ verdict \in ContextBound /\ ~Live
  /\ pc = "restcount" => Report[next] = RowStatus(verdict)

\* The task is stopped, or unprepared, only by an outcome of the step before.
VerdictsInTurn ==
  /\ pc \in Starting \union {"next"} => verdict \notin Stops \union {"unprepared"}
  /\ verdict = "unprepared" /\ pc \in {"rest", "restcount", "finish"} =>
       next = 1 \/ Report[1] = "failed_processing"

FailuresCounted ==
  tally.failed > 0 <=> \E e \in Entries : e < next /\ Report[e] \in Failures

\* An execution that returns without an outcome has written nothing.
GaveUp == status \in Started /\ pc \in {"done", "forgotten"} => \A e \in Entries : rows[e] = <<>>

\* What the mapping needs, when no statement fails.
LedgerInv ==
  /\ GaveUp
  /\ pc \notin Gone \union {"done"} => Behind /\ Ahead /\ VerdictsInTurn /\ FailuresCounted

LEMMA InitLedgerInv == Init => LedgerInv
<1> SUFFICES ASSUME Init
             PROVE  LedgerInv
  OBVIOUS
<1>1. \A e \in Entries : Report[e] = "open"
  BY DEF Init, Report, Settled
<1> QED
  BY <1>1
  DEF Init, LedgerInv, GaveUp, Behind, Ahead, VerdictsInTurn, FailuresCounted, Failures, Starting,
      Started, Stops, Gone, Entries

LEMMA LoadLedgerInv ==
  ASSUME ~DbFails, IInv, LedgerInv, Load
  PROVE  LedgerInv'
<1> USE TotalAssumption
    DEF IInv, TypeOK, LedgerInv, GaveUp, Behind, Ahead, VerdictsInTurn, FailuresCounted, Over, InTurn,
        CurrentEntry, VerdictConsistent, Started, Stops, Terminal, Live, Gone, Starting,
        Untouched, Composing, Sending, Resting, durable, world, GoTo, Proceed, Conclude,
        ConcludeRest, Termination
<1>1. Report' = Report /\ rows' = rows
  BY ReportKept DEF Load, LoadSnapshot, LoadFailed, SnapshotRefused, LoadStopped, SenderReady, PreparationFailed
<1>2. CASE LoadFailed
  <2>1. \A e \in Entries : rows[e] = <<>>
    BY <1>2 DEF LoadFailed, Entries
  <2> QED
    BY <1>1, <1>2, <2>1 DEF LoadFailed
<1>3. CASE SnapshotRefused
  BY <1>1, <1>3 DEF SnapshotRefused
<1>4. CASE LoadSnapshot \/ LoadStopped \/ SenderReady \/ PreparationFailed
  BY <1>1, <1>4 DEF LoadSnapshot, LoadStopped, SenderReady, PreparationFailed
<1> QED
  BY <1>2, <1>3, <1>4 DEF Load

LEMMA PrepareLedgerInv ==
  ASSUME ~DbFails, IInv, LedgerInv, Prepare
  PROVE  LedgerInv'
<1> USE TotalAssumption
    DEF IInv, TypeOK, LedgerInv, GaveUp, Behind, Ahead, VerdictsInTurn, FailuresCounted, Over, InTurn,
        CurrentEntry, VerdictConsistent, Started, Stops, Terminal, Live, Gone, Starting,
        Untouched, Composing, Sending, Resting, durable, world, GoTo, Proceed, Conclude,
        ConcludeRest, Termination
<1>1. Report' = Report
  BY ReportKept
  DEF Prepare, BeginExecution, BeginStopped, ConverterMissing, SharedReady, SharedFailed
<1> QED
  BY <1>1 DEF Prepare, BeginExecution, BeginStopped, ConverterMissing, SharedReady, SharedFailed

LEMMA ProcessItemLedgerInv ==
  ASSUME ~DbFails, IInv, LedgerInv, ProcessItem
  PROVE  LedgerInv'
<1> USE TotalAssumption
    DEF IInv, TypeOK, LedgerInv, GaveUp, Behind, Ahead, VerdictsInTurn, FailuresCounted, Over, InTurn,
        CurrentEntry, VerdictConsistent, Started, Stops, Terminal, Live, Gone, Starting,
        Untouched, Composing, Sending, Resting, durable, world, GoTo, Proceed, Conclude,
        ConcludeRest, Termination
<1>1. Report' = Report
  BY ReportKept, OpenRowsUnreported
  DEF ProcessItem, TakeItem, StopAtItem, AllProcessed, ReadDelivery,
      CreateStopped, CreateFailed, ItemReady, ItemFailed, SignatureFailed, CheckSuppressed,
      ItemComposed
<1>2. CASE InsertDelivery
  BY <1>1, <1>2 DEF InsertDelivery
<1>3. CASE TakeItem \/ StopAtItem \/ AllProcessed
  BY <1>1, <1>3 DEF TakeItem, StopAtItem, AllProcessed
<1>4. CASE ReadDelivery \/ CreateStopped \/ CreateFailed
  BY <1>1, <1>4 DEF ReadDelivery, CreateStopped, CreateFailed
<1>5. CASE ItemReady \/ ItemFailed \/ SignatureFailed \/ CheckSuppressed \/ ItemComposed
  BY <1>1, <1>5 DEF ItemReady, ItemFailed, SignatureFailed, CheckSuppressed, ItemComposed
<1> QED
  BY <1>2, <1>3, <1>4, <1>5 DEF ProcessItem

LEMMA SendLedgerInv ==
  ASSUME ~DbFails, IInv, LedgerInv, Send
  PROVE  LedgerInv'
<1> USE TotalAssumption
    DEF IInv, TypeOK, LedgerInv, GaveUp, Behind, Ahead, VerdictsInTurn, FailuresCounted, Over, InTurn,
        CurrentEntry, VerdictConsistent, Started, Stops, Terminal, Live, Gone, Starting,
        Untouched, Composing, Sending, Resting, durable, world, GoTo, Proceed, Conclude,
        ConcludeRest, Termination
<1>1. Report' = Report
  BY ReportKept, OpenRowsUnreported
  DEF Send, StartAttempt, AttemptStopped, ProviderAccepts, SendSucceeded, SendFailed
<1>2. CASE StartAttempt \/ AttemptStopped \/ ProviderAccepts \/ SendSucceeded
  BY <1>1, <1>2 DEF StartAttempt, AttemptStopped, ProviderAccepts, SendSucceeded
<1>3. CASE SendFailed
  BY <1>1, <1>3 DEF SendFailed
<1>4. CASE Retry
  BY <1>1, <1>4 DEF Retry
<1> QED
  BY <1>2, <1>3, <1>4 DEF Send

\* What a count adds to the failures.
LEMMA FailuresIncremented ==
  ASSUME TypeOK, Increment, verdict # "none"
  PROVE  tally'.failed = IF RowStatus(verdict) \in Failures THEN tally.failed + 1 ELSE tally.failed
<1>1. Field(RowStatus(verdict)) = "failed" <=> RowStatus(verdict) \in Failures
  BY DEF Field, Failures
<1> QED
  BY <1>1, IncrementTyped DEF Increment, TypeOK, Field

LEMMA RecordLedgerInv ==
  ASSUME ~DbFails, IInv, LedgerInv, Record
  PROVE  LedgerInv'
<1> USE TotalAssumption
    DEF IInv, TypeOK, LedgerInv, GaveUp, Behind, Ahead, VerdictsInTurn, FailuresCounted, Over, InTurn,
        CurrentEntry, VerdictConsistent, Started, Stops, Terminal, Live, Gone, Starting,
        Untouched, Composing, Sending, Resting, durable, world, GoTo, Proceed, Conclude,
        ConcludeRest, Termination
<1>1. CASE UpdateDelivery
  <2>1. /\ next \in Entries /\ Report[next] = "open" /\ verdict \in EntryOutcomes
        /\ next' = next /\ pc = "update" /\ pc' = "count"
        /\ UNCHANGED <<status, tally, verdict, cause>>
    BY <1>1, VerdictReported DEF UpdateDelivery
  <2>2. \/ MayFail /\ Report' = Report
        \/ Report' = [Report EXCEPT ![next] = verdict]
    BY <1>1, VerdictReported
  <2>3. /\ \A e \in Entries : e # next => Report'[e] = Report[e]
        /\ Report'[next] = verdict \/ (MayFail /\ Report'[next] = "open")
    BY <2>1, <2>2 DEF Report
  <2>4. Ahead'
    BY <2>1, <2>3 DEF MayFail, ContextBound
  <2>5. Behind' /\ FailuresCounted' /\ VerdictsInTurn' /\ GaveUp'
    BY <2>1, <2>3
  <2> QED
    BY <2>4, <2>5
<1>2. CASE CountDelivery
  <2>1. Report' = Report /\ next \in Entries /\ verdict \in EntryOutcomes
    BY <1>2, ReportKept DEF CountDelivery
  <2>2. next' = next + 1 /\ next \in Nat /\ status' = status /\ cause' = cause /\ pc = "count"
    BY <1>2, <2>1 DEF CountDelivery
  <2>3. tally'.failed = IF Report[next] \in Failures THEN tally.failed + 1 ELSE tally.failed
    <3>1. verdict \notin Failures => UNCHANGED tally \/ (Increment /\ RowStatus(verdict) \notin Failures)
      BY <1>2, <2>1 DEF CountDelivery, EntryOutcomes, RowStatus
    <3>2. verdict \in Failures => Increment /\ RowStatus(verdict) \in Failures
      BY <1>2 DEF CountDelivery, MayFail, MustFail, ContextBound, Failures, RowStatus
    <3>3. Report[next] \in Failures <=> verdict \in Failures
      BY <2>2 DEF Failures, ContextBound
    <3>4. verdict # "none"
      BY <2>1 DEF EntryOutcomes, Failures
    <3> QED
      BY <3>1, <3>2, <3>3, <3>4, FailuresIncremented
  <2>4. FailuresCounted'
    BY <2>1, <2>2, <2>3 DEF Entries
  <2>5. Behind'
    BY <1>2, <2>1, <2>2 DEF CountDelivery, ContextBound, EntryOutcomes, Failures
  <2>6. Ahead'
    BY <1>2, <2>1, <2>2 DEF CountDelivery
  <2>7. VerdictsInTurn'
    BY <1>2, <2>1, <2>2 DEF CountDelivery, EntryOutcomes, Failures
  <2>8. GaveUp'
    BY <1>2 DEF CountDelivery
  <2> QED
    BY <2>4, <2>5, <2>6, <2>7, <2>8
<1>3. CASE RecordRemaining
  <2>1. /\ next \in Entries /\ verdict \in RestOutcomes
        /\ Report' = [Report EXCEPT ![next] = RowStatus(verdict)]
    BY <1>3, RemainingReported
  <2>2. /\ next' = next /\ pc = "rest" /\ pc' = "restcount"
        /\ UNCHANGED <<status, tally, verdict, cause>>
    BY <1>3 DEF RecordRemaining
  <2>3. /\ \A e \in Entries : e # next => Report'[e] = Report[e]
        /\ Report'[next] = RowStatus(verdict)
    BY <2>1 DEF Report
  <2>4. Behind' /\ FailuresCounted' /\ GaveUp'
    BY <2>1, <2>2, <2>3
  <2>5. Ahead'
    BY <2>1, <2>2, <2>3 DEF RowStatus
  <2>6. VerdictsInTurn'
    BY <2>1, <2>2, <2>3 DEF RowStatus
  <2> QED
    BY <2>4, <2>5, <2>6
<1>4. CASE CountRemaining
  <2>1. Report' = Report /\ next \in Entries /\ verdict \in RestOutcomes /\ Increment
    BY <1>4, ReportKept DEF CountRemaining
  <2>2. tally'.failed = IF Report[next] \in Failures THEN tally.failed + 1 ELSE tally.failed
    BY <1>4, <2>1, FailuresIncremented DEF CountRemaining, RestOutcomes
  <2>3. next' = next + 1 /\ next \in Nat /\ status' = status /\ cause' = cause /\ pc = "restcount"
    BY <1>4, <2>1 DEF CountRemaining
  <2>4. Report[next] # "open"
    BY <2>1, <2>3 DEF RestOutcomes, RowStatus
  <2>5. FailuresCounted'
    BY <2>1, <2>2, <2>3 DEF Entries
  <2>6. Behind'
    <3>1. \A e \in Entries : e < next' /\ Report'[e] = "open" => e < next /\ Report[e] = "open"
      BY <2>1, <2>3, <2>4 DEF Entries
    <3>2. pc' = "rest" /\ verdict' = verdict
      BY <1>4 DEF CountRemaining
    <3> QED
      BY <2>3, <3>1, <3>2
  <2>7. Ahead'
    BY <1>4, <2>1, <2>3 DEF CountRemaining
  <2>8. VerdictsInTurn'
    BY <1>4, <2>1, <2>3 DEF CountRemaining, RowStatus
  <2>9. GaveUp'
    BY <1>4 DEF CountRemaining
  <2> QED
    BY <2>5, <2>6, <2>7, <2>8, <2>9
<1>5. CASE RemainingRecorded
  BY <1>5, ReportKept DEF RemainingRecorded
<1>6. CASE Finish
  <2>1. status' \notin Started /\ pc' = "done"
    <3>1. CASE verdict \in Stops
      BY <1>6, <3>1 DEF Finish
    <3>2. CASE verdict \notin Stops /\ (verdict = "unprepared" \/ tally.failed > 0)
      BY <1>6, <3>2 DEF Finish
    <3>3. CASE verdict \notin Stops /\ ~(verdict = "unprepared" \/ tally.failed > 0)
      BY <1>6, <3>3 DEF Finish
    <3> QED
      BY <3>1, <3>2, <3>3
  <2> QED
    BY <2>1
<1> QED
  BY <1>1, <1>2, <1>3, <1>4, <1>5, <1>6 DEF Record, RecordFailed

LEMMA NextLedgerInv ==
  ASSUME ~DbFails, IInv, LedgerInv, [Next]_vars
  PROVE  LedgerInv'
<1> USE TotalAssumption
    DEF IInv, TypeOK, LedgerInv, GaveUp, Behind, Ahead, VerdictsInTurn, FailuresCounted, Over, InTurn,
        CurrentEntry, VerdictConsistent, Started, Stops, Terminal, Live, Gone, Starting,
        Untouched, Composing, Sending, Resting, durable, world, GoTo, Proceed, Conclude,
        ConcludeRest, Termination
<1>1. CASE Execute
  BY <1>1, LoadLedgerInv, PrepareLedgerInv, ProcessItemLedgerInv, SendLedgerInv, RecordLedgerInv
  DEF Execute
<1>2. CASE Stop
  BY <1>2, ReportKept DEF Stop
<1>3. CASE Crash
  BY <1>3 DEF Crash
<1>4. CASE Recover
  BY <1>4 DEF Recover
<1>5. CASE \E e \in Entries : ChangeSuppression(e)
  BY <1>5, ReportKept DEF ChangeSuppression
<1>6. CASE UNCHANGED vars
  BY <1>6, ReportKept DEF vars
<1> QED
  BY <1>1, <1>2, <1>3, <1>4, <1>5, <1>6 DEF Next
-----------------------------------------------------------------------------
(* Refinement *)

Outcome == IF status \in Terminal THEN status ELSE "none"

LedgerStep == [Ledger!Next]_<<Report, Outcome>>

\* The instance has its own copy of the library's operator.
LEMMA SameLedgerCardinality ==
  ASSUME NEW S
  PROVE  Ledger!Cardinality(S) = Cardinality(S)
  BY DEF Ledger!Cardinality, Cardinality

LEMMA SameSets ==
  /\ Ledger!Entries = Entries /\ Ledger!Stops = Stops /\ Ledger!Failures = Failures
  /\ EntryOutcomes \subseteq Ledger!Outcomes
  /\ \A v \in RestOutcomes : RowStatus(v) \in Ledger!Outcomes
  BY DEF Ledger!Entries, Entries, Ledger!Stops, Stops, Ledger!Failures, Failures,
     EntryOutcomes, Ledger!Outcomes, RestOutcomes, RowStatus

\* At most one entry is open behind the one in turn, and none unless the task
\* has been stopped.
LEMMA OpenBehind ==
  ASSUME IInv, LedgerInv, pc \notin Gone \union {"done"}
  PROVE  /\ pc = "update" => Ledger!OpenBefore(next) = {}
         /\ pc \in {"rest", "finish"} =>
              \/ Ledger!OpenBefore(next) = {}
              \/ Ledger!Cardinality(Ledger!OpenBefore(next)) = 1 /\ verdict \in Stops
<1> DEFINE B == Ledger!OpenBefore(next)
<1>1. next \in 1 .. Total + 1 /\ Behind
  BY DEF IInv, TypeOK, LedgerInv
<1>2. \A e \in B : e \in Entries /\ e < next /\ Report[e] = "open"
  BY <1>1, TotalAssumption DEF Ledger!OpenBefore, Entries, Report
<1>3. \A e \in B : pc \in {"next", "rest", "restcount", "finish"} /\ (pc # "next" => verdict \in Stops)
  BY <1>1, <1>2 DEF Behind
<1>4. \A d, e \in B : d = e
  BY <1>1, <1>2 DEF Behind
<1> HIDE DEF B
<1>5. CASE B = {}
  BY <1>5 DEF B
<1>6. CASE B # {}
  <2>1. PICK b \in B : TRUE
    BY <1>6
  <2>2. B = {b}
    BY <1>4, <2>1
  <2>3. Cardinality(B) = 1
    BY <2>2, FS_Singleton
  <2> QED
    BY <1>3, <2>1, <2>3, SameLedgerCardinality DEF B
<1> QED
  BY <1>5, <1>6

LEMMA RefinesInit == Init => Ledger!Init
<1> SUFFICES ASSUME Init
             PROVE  Ledger!Init
  OBVIOUS
<1>1. \A e \in Entries : Settled(e) = "open"
  BY DEF Init, Settled
<1> QED
  BY <1>1 DEF Init, Ledger!Init, Ledger!Entries, Entries, Terminal, Stops

\* Both ways to record an outcome settle the entry in turn.
LEMMA RefinesSettle ==
  ASSUME ~DbFails, IInv, LedgerInv, UpdateDelivery \/ RecordRemaining
  PROVE  LedgerStep
<1>1. status \notin Terminal /\ status' = status
  BY DEF UpdateDelivery, RecordRemaining, GoTo, IInv, Over, Gone
<1>2. CASE UpdateDelivery
  <2>1. /\ next \in Entries /\ Report[next] = "open" /\ verdict \in EntryOutcomes
        /\ Report' = Report \/ Report' = [Report EXCEPT ![next] = verdict]
    BY <1>2, VerdictReported
  <2>2. Ledger!OpenBefore(next) = {}
    BY <1>2, OpenBehind DEF UpdateDelivery, GoTo, Gone
  <2>3. CASE Report' = [Report EXCEPT ![next] = verdict]
    <3>1. Ledger!Settle(next, verdict)
      BY <1>1, <2>1, <2>2, <2>3 DEF Ledger!Settle, Report
    <3> QED
      BY <2>1, <3>1, SameSets DEF LedgerStep, Ledger!Next
  <2> QED
    BY <1>1, <2>1, <2>3 DEF LedgerStep, Outcome
<1>3. CASE RecordRemaining
  <2>1. /\ next \in Entries /\ verdict \in RestOutcomes
        /\ Report' = [Report EXCEPT ![next] = RowStatus(verdict)]
    BY <1>3, RemainingReported
  <2>2. Report[next] = "open"
    BY <1>3, <2>1 DEF RecordRemaining, GoTo, LedgerInv, Ahead, Gone, Entries
  <2>3. \/ Ledger!OpenBefore(next) = {}
        \/ Ledger!Cardinality(Ledger!OpenBefore(next)) = 1 /\ RowStatus(verdict) \in Stops
    BY <1>3, OpenBehind DEF RecordRemaining, GoTo, Gone, RowStatus, Stops
  <2>4. Ledger!Settle(next, RowStatus(verdict))
    BY <1>1, <2>1, <2>2, <2>3, SameSets DEF Ledger!Settle, Report
  <2> QED
    BY <2>1, <2>4, SameSets DEF LedgerStep, Ledger!Next
<1> QED
  BY <1>2, <1>3

LEMMA RefinesFinish ==
  ASSUME ~DbFails, IInv, LedgerInv, Finish
  PROVE  LedgerStep
<1>1. /\ pc = "finish" /\ UNCHANGED rows
      /\ status' = IF verdict \in Stops THEN verdict
                   ELSE IF verdict = "unprepared" \/ tally.failed > 0 THEN "completed_with_errors"
                   ELSE "completed"
  BY DEF Finish, GoTo
<1>2. Outcome = "none" /\ Report' = Report
  BY <1>1, ReportKept DEF Outcome, IInv, Over, Gone
<1>3. /\ next = Total + 1 /\ VerdictsInTurn /\ FailuresCounted
      /\ \/ Ledger!OpenBefore(next) = {}
         \/ Ledger!Cardinality(Ledger!OpenBefore(next)) = 1 /\ verdict \in Stops
  BY <1>1, OpenBehind DEF LedgerInv, Ahead, Gone
<1>4. CASE verdict \in Stops
  <2>1. Outcome' = verdict
    <3>1. status' = verdict
      BY <1>1, <1>4
    <3> QED
      BY <1>4, <3>1 DEF Outcome, Terminal
  <2>2. Ledger!Cardinality(Ledger!OpenBefore(Total + 1)) <= 1
    <3>1. Ledger!Cardinality({}) = 0
      BY SameLedgerCardinality, FS_EmptySet
    <3> QED
      BY <1>3, <3>1
  <2>3. Ledger!Abandon
    BY <1>2, <1>4, <2>1, <2>2, SameSets DEF Ledger!Abandon, Outcome, Report
  <2> QED
    BY <2>3 DEF LedgerStep, Ledger!Next
<1>5. CASE verdict \notin Stops
  <2>1. Ledger!OpenBefore(Total + 1) = {}
    BY <1>3, <1>5
  <2>2. (\E e \in Entries : Report[e] \in Failures) <=> verdict = "unprepared" \/ tally.failed > 0
    <3>1. verdict = "unprepared" => Report[1] \in Failures /\ 1 \in Entries
      BY <1>1, <1>3, TotalAssumption DEF VerdictsInTurn, Failures, Entries
    <3>2. \A e \in Entries : e < next
      BY <1>3, TotalAssumption DEF Entries
    <3> QED
      BY <1>3, <3>1, <3>2 DEF FailuresCounted
  <2>3. Outcome' = IF \E e \in Entries : Report[e] \in Failures THEN "completed_with_errors" ELSE "completed"
    <3>1. CASE verdict = "unprepared" \/ tally.failed > 0
      BY <1>1, <1>5, <2>2, <3>1 DEF Outcome, Terminal
    <3>2. CASE ~(verdict = "unprepared" \/ tally.failed > 0)
      <4>1. status' = "completed"
        BY <1>1, <1>5, <3>2
      <4> QED
        BY <2>2, <3>2, <4>1 DEF Outcome, Terminal
    <3> QED
      BY <3>1, <3>2
  <2>4. Ledger!Complete
    BY <1>2, <2>1, <2>3, SameSets DEF Ledger!Complete, Outcome, Report
  <2> QED
    BY <2>4 DEF LedgerStep, Ledger!Next
<1> QED
  BY <1>4, <1>5

LEMMA RefinesLoadFailed ==
  ASSUME ~DbFails, IInv, LedgerInv, LoadFailed
  PROVE  LedgerStep
<1>1. /\ pc = "load" /\ UNCHANGED rows /\ ~Live
      /\ status' \in {status, Termination}
  BY DEF LoadFailed, GoTo
<1>2. Outcome = "none" /\ Report' = Report
  BY <1>1, ReportKept DEF Outcome, IInv, Over, Gone
<1>3. \A e \in Entries : Report[e] = "open"
  BY <1>1 DEF LedgerInv, Ahead, Starting, Gone, Entries
<1>4. CASE status' = Termination
  <2>1. Outcome' \in Stops
    BY <1>4 DEF Outcome, Terminal, Termination, Stops
  <2>2. Ledger!Abandon
    BY <1>2, <1>3, <2>1, SameSets DEF Ledger!Abandon, Ledger!AllOpen, Outcome, Report
  <2> QED
    BY <2>2 DEF LedgerStep, Ledger!Next
<1>5. CASE status' = status
  BY <1>2, <1>5 DEF LedgerStep, Outcome
<1> QED
  BY <1>1, <1>4, <1>5

\* A live task whose inputs are refused has an error, a stopped one its stop, and
\* neither has an outcome of any entry.
LEMMA RefinesRefused ==
  ASSUME ~DbFails, IInv, LedgerInv, SnapshotRefused
  PROVE  LedgerStep
<1>1. /\ pc = "load" /\ UNCHANGED rows
      /\ status' = IF Live THEN "completed_with_errors" ELSE Termination
  BY DEF SnapshotRefused, GoTo
<1>2. Outcome = "none" /\ Report' = Report
  BY <1>1, ReportKept DEF Outcome, IInv, Over, Gone
<1>3. \A e \in Entries : Report[e] = "open"
  BY <1>1 DEF LedgerInv, Ahead, Starting, Gone, Entries
<1>4. CASE Live
  <2>1. Outcome' = "completed_with_errors"
    BY <1>1, <1>4 DEF Outcome, Terminal
  <2>2. Ledger!Refuse
    BY <1>2, <1>3, <2>1, SameSets DEF Ledger!Refuse, Ledger!AllOpen, Outcome, Report
  <2> QED
    BY <2>2 DEF LedgerStep, Ledger!Next
<1>5. CASE ~Live
  <2>1. Outcome' \in Stops
    BY <1>1, <1>5 DEF Outcome, Terminal, Termination, Stops
  <2>2. Ledger!Abandon
    BY <1>2, <1>3, <2>1, SameSets DEF Ledger!Abandon, Ledger!AllOpen, Outcome, Report
  <2> QED
    BY <2>2 DEF LedgerStep, Ledger!Next
<1> QED
  BY <1>4, <1>5

LEMMA RefinesRecover ==
  ASSUME ~DbFails, IInv, LedgerInv, Recover
  PROVE  LedgerStep
<1>1. Outcome = "none" /\ Outcome' = "interrupted"
  BY DEF Recover, Outcome, Started, Terminal, Stops
<1>2. CASE pc = "down"
  <2>1. Report' = [e \in Entries |-> IF Report[e] = "open" THEN "interrupted" ELSE Report[e]]
    <3>1. \A e \in Entries :
            Report'[e] = IF Report[e] = "open" THEN "interrupted" ELSE Report[e]
      BY <1>2, RecoveryReported
    <3> QED
      BY <3>1 DEF Report
  <2>2. Ledger!Reconcile
    BY <1>1, <2>1, SameSets DEF Ledger!Reconcile, Outcome, Report
  <2> QED
    BY <2>2 DEF LedgerStep, Ledger!Next
<1>3. CASE pc = "forgotten"
  <2>1. \A e \in Entries : rows[e] = <<>>
    BY <1>3 DEF Recover, LedgerInv, GaveUp
  <2>2. \A e \in Entries : Report[e] = "open"
    BY <2>1 DEF Report, Settled
  <2>3. Report' = Report
    <3>1. \A e \in Entries : Report'[e] = "open"
      BY <1>3, <2>1, <2>2, RecoveryReported
    <3> QED
      BY <2>2, <3>1 DEF Report
  <2>4. Ledger!Abandon
    BY <1>1, <2>2, <2>3, SameSets DEF Ledger!Abandon, Ledger!AllOpen, Outcome, Report, Stops
  <2> QED
    BY <2>4 DEF LedgerStep, Ledger!Next
<1> QED
  BY <1>2, <1>3 DEF Recover

\* Every other step is invisible in the report.
LEMMA Unreported ==
  ASSUME IInv, [Next]_vars,
         ~(UpdateDelivery \/ RecordRemaining \/ Finish \/ LoadFailed \/ SnapshotRefused \/ Recover)
  PROVE  LedgerStep
<1>1. UNCHANGED <<Report, Outcome>>
  <2> USE DEF durable, world, Proceed, Conclude, ConcludeRest
  <2>1. CASE InsertDelivery \/ Retry
    BY <2>1, OpenRowsUnreported DEF InsertDelivery, Retry, Outcome
  <2>2. CASE BeginExecution
    BY <2>2, ReportKept
    DEF BeginExecution, GoTo, Outcome, IInv, TypeOK, Over, Gone, Started, Terminal, Stops
  <2>3. CASE UNCHANGED vars
    BY <2>3, ReportKept DEF vars, Outcome
  <2>4. CASE Next /\ ~(InsertDelivery \/ Retry \/ BeginExecution)
    <3>1. UNCHANGED <<rows, status>>
      BY <2>4
      DEF Next, Execute, Load, LoadSnapshot, LoadStopped, SenderReady, PreparationFailed,
          Prepare, BeginStopped, ConverterMissing, SharedReady, SharedFailed, ProcessItem,
          TakeItem, StopAtItem, AllProcessed, ReadDelivery, CreateStopped, CreateFailed,
          ItemReady, ItemFailed, SignatureFailed, CheckSuppressed, ItemComposed, Send,
          StartAttempt, AttemptStopped, ProviderAccepts, SendSucceeded, SendFailed, Record,
          CountDelivery, RecordFailed, CountRemaining, RemainingRecorded, Stop, Crash,
          ChangeSuppression
    <3> QED
      BY <3>1, ReportKept DEF Outcome
  <2> QED
    BY <2>1, <2>2, <2>3, <2>4
<1> QED
  BY <1>1 DEF LedgerStep

\* As long as no statement fails, a send task keeps the promises of
\* DeliveryLedger about its report, whatever is cancelled, crashes or is lost:
\* the entries are settled in the order of the snapshot and for good, at most one
\* is passed over, and only by a task that was stopped, or all are left open, by a
\* task whose inputs were refused or that was stopped before they were known, and
\* the outcome of the task agrees with theirs.
THEOREM SendImplementsLedger ==
  ASSUME ~DbFails
  PROVE  Spec => ImplementsLedger
<1>1. IInv /\ LedgerInv /\ [Next]_vars => LedgerStep
  BY RefinesSettle, RefinesFinish, RefinesLoadFailed, RefinesRefused, RefinesRecover,
     Unreported
<1>2. LedgerStep => [Ledger!Next]_<<[e \in Entries |-> Settled(e)], IF status \in Terminal THEN status ELSE "none">>
  BY DEF LedgerStep, Report, Outcome
<1>3. IInv /\ LedgerInv /\ [Next]_vars => LedgerInv'
  BY NextLedgerInv
<1> QED
  BY <1>1, <1>2, <1>3, RefinesInit, InitLedgerInv, Invariance, PTL
  DEF Spec, ImplementsLedger, Ledger!Spec
-----------------------------------------------------------------------------
(* Counting rows *)

\* The entries before n that have an outcome in S.
Given(R, n, S) == {e \in Entries : e < n /\ R[e] \in S}
Count(R, n, S) == Cardinality(Given(R, n, S))

RowsOf(r, S) == UNION {{e} \X {i \in DOMAIN r[e] : r[e][i] \in S} : e \in Entries}

LEMMA CountedFinite ==
  ASSUME NEW R, NEW n, NEW S
  PROVE  IsFiniteSet(Given(R, n, S)) /\ Count(R, n, S) \in Nat
<1>1. Given(R, n, S) \in SUBSET Entries
  BY DEF Given
<1>2. IsFiniteSet(Given(R, n, S))
  BY <1>1, EntriesFinite, FS_Subset
<1> QED
  BY <1>2, FS_CardinalityType DEF Count

LEMMA CountNext ==
  ASSUME NEW R, NEW n \in Entries, NEW S
  PROVE  Count(R, n + 1, S) = IF R[n] \in S THEN Count(R, n, S) + 1 ELSE Count(R, n, S)
<1>1. Given(R, n + 1, S) = IF R[n] \in S THEN Given(R, n, S) \cup {n} ELSE Given(R, n, S)
  BY DEF Entries, Given
<1>2. n \notin Given(R, n, S)
  BY DEF Entries, Given
<1> QED
  BY <1>1, <1>2, CountedFinite, FS_AddElement DEF Count

LEMMA CountSame ==
  ASSUME NEW R, NEW Q, NEW n, NEW S, \A e \in Entries : e < n => R[e] = Q[e]
  PROVE  Count(R, n, S) = Count(Q, n, S)
<1>1. Given(R, n, S) = Given(Q, n, S)
  BY DEF Given
<1> QED
  BY <1>1 DEF Count

LEMMA DisjointUnion ==
  ASSUME NEW S, NEW T, IsFiniteSet(S), IsFiniteSet(T), S \cap T = {}
  PROVE  Cardinality(S \cup T) = Cardinality(S) + Cardinality(T)
<1>1. Cardinality(S) \in Nat /\ Cardinality(T) \in Nat
  BY FS_CardinalityType
<1>2. Cardinality(S \cup T) = Cardinality(S) + Cardinality(T) - Cardinality(S \cap T)
  BY FS_Union
<1> QED
  BY <1>1, <1>2, FS_EmptySet

LEMMA RowsMember ==
  ASSUME NEW r, NEW S, NEW p
  PROVE  p \in RowsOf(r, S) <=>
           \E e \in Entries : \E i \in DOMAIN r[e] : r[e][i] \in S /\ p = <<e, i>>
  BY DEF RowsOf

LEMMA RowsFinite ==
  ASSUME NEW r \in [Entries -> Seq(RowStatuses)], NEW S
  PROVE  IsFiniteSet(RowsOf(r, S)) /\ Cardinality(RowsOf(r, S)) \in Nat
  BY CountInNat DEF RowsOf

\* If every entry has one row, the rows and the entries are counted alike.
LEMMA SingleRows ==
  ASSUME rows \in [Entries -> Seq(RowStatuses)], \A e \in Entries : Len(rows[e]) = 1,
         NEW S, \A x \in S : x \notin Open \union {"open"}
  PROVE  Cardinality(RowsOf(rows, S)) = Count(Report, Total + 1, S)
<1> DEFINE G == Given(Report, Total + 1, S)
           f == [e \in G |-> <<e, 1>>]
<1>1. \A e \in Entries : rows[e] # <<>> /\ DOMAIN rows[e] = {1}
  OBVIOUS
<1>2. \A e \in Entries : Report[e] = IF rows[e][1] \in Open THEN "open" ELSE rows[e][1]
  BY <1>1 DEF Report, Settled
<1>3. \A e \in Entries : e < Total + 1
  BY TotalAssumption DEF Entries
<1>4. \A e \in Entries : e \in G <=> rows[e][1] \in S
  BY <1>2, <1>3 DEF Given
<1>5. \A p : p \in RowsOf(rows, S) <=> \E e \in G : p = <<e, 1>>
  BY <1>1, <1>4, RowsMember DEF Given
<1>6. IsFiniteSet(G)
  BY CountedFinite
<1>7. Count(Report, Total + 1, S) = Cardinality(G)
  BY DEF Count
<1> HIDE DEF G
<1>8. f \in Bijection(G, RowsOf(rows, S))
  <2>1. f \in [G -> RowsOf(rows, S)]
    BY <1>5
  <2>2. \A a, b \in G : f[a] = f[b] => a = b
    OBVIOUS
  <2>3. \A p \in RowsOf(rows, S) : \E a \in G : f[a] = p
    BY <1>5
  <2> HIDE DEF f
  <2> QED
    BY <2>1, <2>2, <2>3 DEF Bijection, Injection, IsInjective, Surjection
<1> HIDE DEF f
<1> QED
  BY <1>6, <1>7, <1>8, FS_Bijection DEF ExistsBijection

\* Without open rows, the three counts of the tally count every row, and an
\* entry has a second row if its execution was stopped between inserting and
\* reading the first.
LEMMA AllRowsCounted ==
  ASSUME NEW r \in [Entries -> Seq(RowStatuses)],
         \A e \in Entries : Len(r[e]) \in {1, 2},
         \A e \in Entries : \A i \in DOMAIN r[e] : r[e][i] \notin Open
  PROVE  Cardinality(RowsOf(r, {"sent"})) + Cardinality(RowsOf(r, Failures)) + Cardinality(RowsOf(r, Skips))
           = Total + Cardinality({e \in Entries : Len(r[e]) > 1})
<1> DEFINE A == RowsOf(r, {"sent"})
           B == RowsOf(r, Failures)
           C == RowsOf(r, Skips)
           Two == {e \in Entries : Len(r[e]) > 1}
           F == {<<e, 1>> : e \in Entries}
           G == {<<e, 2>> : e \in Two}
<1>1. IsFiniteSet(A) /\ IsFiniteSet(B) /\ IsFiniteSet(C) /\ IsFiniteSet(A \cup B)
  BY RowsFinite, FS_Union
<1>2. A \cap B = {} /\ (A \cup B) \cap C = {}
  BY RowsMember DEF Failures, Skips, Stops
<1>3. \A e \in Entries : DOMAIN r[e] = IF Len(r[e]) > 1 THEN {1, 2} ELSE {1}
  <2> SUFFICES ASSUME NEW e \in Entries
               PROVE  DOMAIN r[e] = IF Len(r[e]) > 1 THEN {1, 2} ELSE {1}
    OBVIOUS
  <2>1. DOMAIN r[e] = 1 .. Len(r[e]) /\ Len(r[e]) \in {1, 2}
    OBVIOUS
  <2>2. CASE Len(r[e]) = 1
    BY <2>1, <2>2
  <2>3. CASE Len(r[e]) = 2
    <3>1. 1 .. 2 = {1, 2}
      OBVIOUS
    <3> QED
      BY <2>1, <2>3, <3>1
  <2> QED
    BY <2>1, <2>2, <2>3
<1>4. (A \cup B) \cup C = F \cup G
  <2>1. \A e \in Entries : \A i \in DOMAIN r[e] : r[e][i] \in {"sent"} \cup Failures \cup Skips
    BY DEF RowStatuses
  <2>2. \A p : p \in (A \cup B) \cup C <=> \E e \in Entries : \E i \in DOMAIN r[e] : p = <<e, i>>
    BY <2>1, RowsMember
  <2>3. \A p : p \in F \cup G <=> \E e \in Entries : \E i \in DOMAIN r[e] : p = <<e, i>>
    BY <1>3
  <2> HIDE DEF A, B, C, F, G
  <2> QED
    BY <2>2, <2>3
<1>5. F \cap G = {}
  OBVIOUS
<1>6. IsFiniteSet(Two)
  BY EntriesFinite, FS_Subset
<1>7. IsFiniteSet(F) /\ Cardinality(F) = Total
  <2> DEFINE f == [e \in Entries |-> <<e, 1>>]
  <2>1. f \in Bijection(Entries, F)
    BY DEF Bijection, Injection, IsInjective, Surjection
  <2> HIDE DEF f, F
  <2> QED
    BY <2>1, EntriesFinite, FS_Bijection, FS_Interval, TotalAssumption DEF ExistsBijection, Entries
<1>8. IsFiniteSet(G) /\ Cardinality(G) = Cardinality(Two)
  <2> DEFINE f == [e \in Two |-> <<e, 2>>]
  <2> HIDE DEF Two
  <2>1. f \in Bijection(Two, G)
    BY DEF Bijection, Injection, IsInjective, Surjection
  <2> HIDE DEF f, G
  <2> QED
    BY <1>6, <2>1, FS_Bijection DEF ExistsBijection
<1> HIDE DEF A, B, C, F, G, Two
<1>9. Cardinality(A \cup B) = Cardinality(A) + Cardinality(B)
  BY <1>1, <1>2, DisjointUnion
<1>10. Cardinality((A \cup B) \cup C) = Cardinality(A \cup B) + Cardinality(C)
  BY <1>1, <1>2, DisjointUnion
<1>11. Cardinality(F \cup G) = Cardinality(F) + Cardinality(G)
  BY <1>5, <1>7, <1>8, DisjointUnion
<1>12. Cardinality(A) + Cardinality(B) + Cardinality(C) = Total + Cardinality(Two)
  BY <1>4, <1>7, <1>8, <1>9, <1>10, <1>11
<1> QED
  BY <1>12 DEF A, B, C, Two
-----------------------------------------------------------------------------
(* The tally *)

Counted == tally.sent + tally.failed + tally.skipped

\* Each entry behind the one in turn has been counted under its outcome.  The
\* count of at most one, whose outcome could not be written with the context of
\* the task, is missing.
Tallied ==
  /\ tally.failed = Count(Report, next, Failures)
  /\ tally.sent <= Count(Report, next, {"sent"})
  /\ \/ /\ tally.sent = Count(Report, next, {"sent"})
        /\ tally.skipped = Count(Report, next, Skips)
        /\ Counted = next - 1
     \/ /\ ~Live /\ pc \in {"next", "rest", "restcount", "finish"}
        /\ pc # "next" => verdict \in Stops
        /\ Counted = next - 2

\* An entry has a second row only if the task was stopped between the insertion
\* and the reading of the first.
RowShape ==
  \A e \in Entries :
    \/ Len(rows[e]) \in {0, 1}
    \/ Len(rows[e]) = 2 /\ rows[e][1] = "attempted" /\ rows[e][2] \in Stops

Processing == Composing \union Sending \union {"accepted", "update", "count"}

RowsInTurn ==
  /\ \A e \in Entries : e < next =>
       \/ Len(rows[e]) = 1
       \/ Len(rows[e]) = 2 /\ pc \in {"rest", "restcount", "finish"} /\ verdict \in Stops
  /\ pc \in Processing => Len(rows[next]) = 1
  /\ pc = "read" => rows[next][1] = "attempted"
  /\ pc = "rest" /\ next \in Entries =>
       \/ Len(rows[next]) = 0
       \/ Len(rows[next]) = 1 /\ rows[next][1] = "attempted" /\ verdict \in Stops
  /\ pc = "restcount" => Len(rows[next]) = 1 \/ (Len(rows[next]) = 2 /\ verdict \in Stops)

TallyInv ==
  /\ TallyClosed
  /\ status \in Started => RowShape
  /\ pc \notin Gone \union {"done"} => Tallied /\ RowsInTurn

LEMMA InitTallyInv == Init => TallyInv
<1> SUFFICES ASSUME Init
             PROVE  TallyInv
  OBVIOUS
<1>1. \A S : Count(Report, 1, S) = 0
  <2>1. \A S : Given(Report, 1, S) = {}
    BY DEF Given, Entries
  <2> QED
    BY <2>1, FS_EmptySet DEF Count
<1>2. TallyClosed
  BY DEF Init, TallyClosed, Terminal, Stops
<1>3. RowShape /\ RowsInTurn
  BY DEF Init, RowShape, RowsInTurn, Entries, Processing, Composing, Sending
<1>4. Tallied
  BY <1>1 DEF Init, Tallied, Counted
<1> QED
  BY <1>2, <1>3, <1>4 DEF TallyInv

LEMMA NothingYet ==
  ASSUME IInv, LedgerInv, pc \in Starting
  PROVE  next = 1 /\ \A e \in Entries : rows[e] = <<>> /\ mailed[e] = 0
<1>1. next = 1
  BY DEF LedgerInv, Ahead, Starting, Gone
<1>2. \A e \in Entries : e = 1 \/ e > 1
  BY DEF Entries
<1> QED
  BY <1>1, <1>2 DEF IInv, InTurn, CurrentEntry, Starting, Untouched, Gone

LEMMA LoadTallyInv ==
  ASSUME ~DbFails, IInv, LedgerInv, TallyInv, Load
  PROVE  TallyInv'
<1> USE TotalAssumption
    DEF Tallied, Counted, RowsInTurn, Processing, Started, Stops, Live, Gone, Starting, Untouched,
        Composing, Sending, durable, world, GoTo, Proceed, Conclude, ConcludeRest, Termination
<1> USE DEF IInv, TypeOK, TallyInv, Over, CurrentEntry
<1>1. UNCHANGED <<tally, rows, next, mailed>> /\ Report' = Report
  BY ReportKept DEF Load, LoadSnapshot, LoadFailed, SnapshotRefused, LoadStopped, SenderReady, PreparationFailed
<1>2. pc \in Starting /\ status \notin Terminal
  BY DEF Load, LoadSnapshot, LoadFailed, SnapshotRefused, LoadStopped, SenderReady, PreparationFailed
<1>3. next = 1 /\ \A e \in Entries : rows[e] = <<>> /\ mailed[e] = 0
  BY <1>2, NothingYet
<1>4. TallyClosed'
  <2>1. NothingDone'
    BY <1>1, <1>3 DEF NothingDone
  <2>2. status' # "completed"
    BY <1>2
    DEF Load, LoadSnapshot, LoadFailed, SnapshotRefused, LoadStopped, SenderReady,
        PreparationFailed, Terminal
  <2>3. Counted' = 0
    <3>1. Counted = 0
      BY <1>2, <1>3
    <3> QED
      BY <1>1, <3>1
  <2> QED
    BY <2>1, <2>2, <2>3 DEF TallyClosed, Counted
<1>5. RowShape'
  BY <1>1, <1>3 DEF RowShape
<1>6. pc' \notin Gone \union {"done"} => Tallied' /\ RowsInTurn'
  BY <1>1, <1>3 DEF Load, LoadSnapshot, LoadFailed, SnapshotRefused, LoadStopped, SenderReady, PreparationFailed
<1> QED
  BY <1>4, <1>5, <1>6

\* A task that has no outcome yet has nothing to close.
LEMMA NotClosed ==
  ASSUME status' \notin Terminal
  PROVE  TallyClosed'
  BY DEF TallyClosed, Terminal

LEMMA PrepareTallyInv ==
  ASSUME ~DbFails, IInv, LedgerInv, TallyInv, Prepare
  PROVE  TallyInv'
<1> USE TotalAssumption
    DEF Tallied, Counted, RowsInTurn, Processing, Started, Stops, Live, Gone, Starting, Untouched,
        Composing, Sending, durable, world, GoTo, Proceed, Conclude, ConcludeRest, Termination
<1> USE DEF IInv, TypeOK, TallyInv, Over, CurrentEntry
<1> USE DEF Prepare, BeginExecution, BeginStopped, ConverterMissing, SharedReady, SharedFailed
<1>1. UNCHANGED <<tally, rows, next, mailed>> /\ Report' = Report
  BY ReportKept
<1>2. pc \in Starting /\ status' \notin Terminal
  BY DEF Terminal
<1>3. next = 1 /\ \A e \in Entries : rows[e] = <<>>
  BY <1>2, NothingYet
<1>4. RowShape'
  BY <1>1, <1>3 DEF RowShape
<1>5. Tallied' /\ RowsInTurn'
  BY <1>1, <1>3
<1> QED
  BY <1>2, <1>4, <1>5, NotClosed

LEMMA ProcessItemTallyInv ==
  ASSUME ~DbFails, IInv, LedgerInv, TallyInv, ProcessItem
  PROVE  TallyInv'
<1> USE TotalAssumption
    DEF Tallied, Counted, RowsInTurn, Processing, Started, Stops, Live, Gone, Starting, Untouched,
        Composing, Sending, durable, world, GoTo, Proceed, Conclude, ConcludeRest, Termination
<1> USE DEF IInv, TypeOK, TallyInv, Over, CurrentEntry
<1>1. UNCHANGED <<tally, status, next, cause>> /\ Report' = Report /\ status \in Started
  BY ReportKept, OpenRowsUnreported
  DEF ProcessItem, TakeItem, StopAtItem, AllProcessed, InsertDelivery, ReadDelivery,
      CreateStopped, CreateFailed, ItemReady, ItemFailed, SignatureFailed, CheckSuppressed,
      ItemComposed
<1>2. TallyClosed'
  BY <1>1, NotClosed DEF Terminal
<1>3. CASE InsertDelivery
  <2>1. /\ next \in Entries /\ Len(rows'[next]) = 1 /\ rows'[next][1] = "attempted"
        /\ \A d \in Entries : d # next => rows'[d] = rows[d]
    BY <1>3, InsertedRow DEF InsertDelivery
  <2>2. RowShape'
    BY <1>1, <2>1 DEF RowShape
  <2>3. RowsInTurn'
    BY <1>1, <1>3, <2>1 DEF InsertDelivery
  <2>4. Tallied'
    BY <1>1, <1>3 DEF InsertDelivery
  <2> QED
    BY <1>2, <2>2, <2>3, <2>4
<1>4. CASE ~InsertDelivery
  <2>1. rows' = rows
    BY <1>4
    DEF ProcessItem, TakeItem, StopAtItem, AllProcessed, ReadDelivery, CreateStopped,
        CreateFailed, ItemReady, ItemFailed, SignatureFailed, CheckSuppressed, ItemComposed
  <2>2. RowShape'
    BY <1>1, <2>1 DEF RowShape
  <2>3. Tallied'
    BY <1>1, <1>4
    DEF ProcessItem, TakeItem, StopAtItem, AllProcessed, ReadDelivery, CreateStopped,
        CreateFailed, ItemReady, ItemFailed, SignatureFailed, CheckSuppressed, ItemComposed
  <2>4. RowsInTurn'
    BY <1>1, <1>4, <2>1
    DEF ProcessItem, TakeItem, StopAtItem, AllProcessed, ReadDelivery, CreateStopped,
        CreateFailed, ItemReady, ItemFailed, SignatureFailed, CheckSuppressed, ItemComposed
  <2> QED
    BY <1>2, <2>2, <2>3, <2>4
<1> QED
  BY <1>3, <1>4

LEMMA SendTallyInv ==
  ASSUME ~DbFails, IInv, LedgerInv, TallyInv, Send
  PROVE  TallyInv'
<1> USE TotalAssumption
    DEF Tallied, Counted, RowsInTurn, Processing, Started, Stops, Live, Gone, Starting, Untouched,
        Composing, Sending, durable, world, GoTo, Proceed, Conclude, ConcludeRest, Termination
<1> USE DEF IInv, TypeOK, TallyInv, Over, CurrentEntry
<1>1. UNCHANGED <<tally, status, next, cause>> /\ Report' = Report /\ status \in Started
  BY ReportKept, OpenRowsUnreported
  DEF Send, StartAttempt, AttemptStopped, ProviderAccepts, SendSucceeded, SendFailed, Retry
<1>2. TallyClosed'
  BY <1>1, NotClosed DEF Terminal
<1>3. pc \in Sending \union {"accepted"} /\ pc' \in Sending \union {"accepted", "update"}
  BY DEF Send, StartAttempt, AttemptStopped, ProviderAccepts, SendSucceeded, SendFailed, Retry
<1>4. /\ \A d \in Entries : d # next => rows'[d] = rows[d]
      /\ next \in Entries /\ Len(rows'[next]) = 1
  <2>1. CASE Retry
    <3>1. /\ \A d \in Entries : d # next => rows'[d] = rows[d]
          /\ DOMAIN rows'[next] = DOMAIN rows[next] /\ rows'[next] \in Seq(RowStatuses)
      BY <1>3, <2>1, RetriedRow
    <3> QED
      BY <1>3, <3>1
  <2>2. CASE ~Retry
    BY <1>3, <2>2
    DEF Send, StartAttempt, AttemptStopped, ProviderAccepts, SendSucceeded, SendFailed
  <2> QED
    BY <2>1, <2>2
<1>5. RowShape'
  BY <1>1, <1>4 DEF RowShape
<1>6. Tallied'
  BY <1>1, <1>3
<1>7. RowsInTurn'
  BY <1>1, <1>3, <1>4
<1> QED
  BY <1>2, <1>5, <1>6, <1>7

\* A count adds one to the field of its outcome and to no other.
LEMMA IncrementedTally ==
  ASSUME TypeOK, Increment, RowStatus(verdict) \in {"sent"} \union Failures \union Skips
  PROVE  /\ tally' \in [{"sent", "failed", "skipped"} -> Nat]
         /\ tally'.sent = IF RowStatus(verdict) \in {"sent"} THEN tally.sent + 1 ELSE tally.sent
         /\ tally'.failed = IF RowStatus(verdict) \in Failures THEN tally.failed + 1 ELSE tally.failed
         /\ tally'.skipped = IF RowStatus(verdict) \in Skips THEN tally.skipped + 1 ELSE tally.skipped
         /\ Counted' = Counted + 1
<1>1. tally \in [{"sent", "failed", "skipped"} -> Nat]
  BY DEF TypeOK
<1>2. tally' = [tally EXCEPT ![Field(RowStatus(verdict))] = @ + 1]
  BY DEF Increment
<1>3. CASE RowStatus(verdict) = "sent"
  <2>1. Field(RowStatus(verdict)) = "sent" /\ RowStatus(verdict) \notin Failures \union Skips
    BY <1>3 DEF Field, Failures, Skips, Stops
  <2> QED
    BY <1>1, <1>2, <1>3, <2>1 DEF Counted
<1>4. CASE RowStatus(verdict) \in Failures
  <2>1. Field(RowStatus(verdict)) = "failed" /\ RowStatus(verdict) \notin {"sent"} \union Skips
    BY <1>4 DEF Field, Failures, Skips, Stops
  <2> QED
    BY <1>1, <1>2, <1>4, <2>1 DEF Counted
<1>5. CASE RowStatus(verdict) \in Skips
  <2>1. Field(RowStatus(verdict)) = "skipped" /\ RowStatus(verdict) \notin {"sent"} \union Failures
    BY <1>5 DEF Field, Failures, Skips, Stops
  <2> QED
    BY <1>1, <1>2, <1>5, <2>1 DEF Counted
<1> QED
  BY <1>3, <1>4, <1>5

LEMMA UpdateTallyInv ==
  ASSUME ~DbFails, IInv, LedgerInv, TallyInv, UpdateDelivery
  PROVE  TallyInv'
<1> USE TotalAssumption
    DEF Tallied, Counted, RowsInTurn, Processing, Started, Stops, Live, Gone, Starting, Untouched,
        Composing, Sending, durable, world, GoTo, Proceed, Conclude, ConcludeRest, Termination
<1> USE DEF IInv, TypeOK, TallyInv, Over, CurrentEntry
<1>1. /\ next \in Entries /\ pc = "update" /\ pc' = "count" /\ status \in Started
      /\ UNCHANGED <<status, tally, next, verdict, cause>>
      /\ Report' = Report \/ Report' = [Report EXCEPT ![next] = verdict]
  BY VerdictReported DEF UpdateDelivery
<1>2. TallyClosed'
  BY <1>1, NotClosed DEF Terminal
<1>3. \A S : Count(Report', next, S) = Count(Report, next, S)
  <2>1. \A e \in Entries : e < next => Report'[e] = Report[e]
    <3>1. \A e \in Entries : e # next => Report'[e] = Report[e]
      BY <1>1 DEF Report
    <3>2. \A e \in Entries : e < next => e # next
      BY <1>1 DEF Entries
    <3> QED
      BY <3>1, <3>2
  <2> QED
    BY <2>1, CountSame
<1>4. Tallied'
  BY <1>1, <1>3
<1>5. /\ \A d \in Entries : d # next => rows'[d] = rows[d]
      /\ Len(rows'[next]) = 1
  <2>1. /\ rows' \in [Entries -> Seq(RowStatuses)]
        /\ \A d \in Entries : d # next => rows'[d] = rows[d]
        /\ DOMAIN rows'[next] = DOMAIN rows[next]
    BY <1>1, UpdatedRow DEF RowStatuses, VerdictConsistent, EntryOutcomes, Skips
  <2>2. Len(rows[next]) = 1
    BY <1>1
  <2> QED
    BY <1>1, <2>1, <2>2
<1>6. RowShape'
  BY <1>1, <1>5 DEF RowShape
<1>7. RowsInTurn'
  BY <1>1, <1>5
<1> QED
  BY <1>2, <1>4, <1>6, <1>7

LEMMA CountDeliveryTallyInv ==
  ASSUME ~DbFails, IInv, LedgerInv, TallyInv, CountDelivery
  PROVE  TallyInv'
<1> USE TotalAssumption
    DEF Tallied, Counted, RowsInTurn, Processing, Started, Stops, Live, Gone, Starting, Untouched,
        Composing, Sending, durable, world, GoTo, Proceed, Conclude, ConcludeRest, Termination
<1> USE DEF IInv, TypeOK, TallyInv, Over, CurrentEntry
<1>1. /\ next \in Entries /\ pc = "count" /\ status \in Started /\ next' = next + 1
      /\ UNCHANGED <<status, rows, cause>> /\ Report' = Report
      /\ verdict \in EntryOutcomes
  BY ReportKept DEF CountDelivery, VerdictConsistent
<1>2. TallyClosed'
  BY <1>1, NotClosed DEF Terminal
<1>3. RowShape'
  BY <1>1 DEF RowShape
<1>4. RowsInTurn'
  <2>1. next + 1 \in Entries => rows[next + 1] = <<>>
    BY <1>1 DEF InTurn, Entries
  <2>2. pc' \in {"next", "rest"}
    BY DEF CountDelivery
  <2>3. \A e \in Entries : e < next + 1 => Len(rows[e]) = 1
    <3>1. \A e \in Entries : e < next + 1 => e < next \/ e = next
      BY <1>1 DEF Entries
    <3> QED
      BY <1>1, <3>1
  <2> QED
    BY <1>1, <2>1, <2>2, <2>3
<1>5. Report[next] = verdict \/ (Report[next] = "open" /\ verdict \in ContextBound /\ ~Live)
  BY <1>1 DEF LedgerInv, Ahead
<1>6. /\ tally.failed = Count(Report, next, Failures)
      /\ tally.sent = Count(Report, next, {"sent"})
      /\ tally.skipped = Count(Report, next, Skips)
      /\ Counted = next - 1
  BY <1>1
<1>7. CASE Increment /\ ~MustFail
  <2>1. RowStatus(verdict) = verdict /\ verdict \in {"sent"} \union Failures \union Skips
    BY <1>1 DEF RowStatus, EntryOutcomes, Failures, Skips
  <2>2. Report[next] = RowStatus(verdict)
    BY <1>5, <1>7, <2>1 DEF MustFail
  <2>3. \A S : Count(Report', next', S) =
          IF RowStatus(verdict) \in S THEN Count(Report, next, S) + 1 ELSE Count(Report, next, S)
    BY <1>1, <2>2, CountNext
  <2>4. /\ tally'.failed = Count(Report', next', Failures)
        /\ tally'.sent = Count(Report', next', {"sent"})
        /\ tally'.skipped = Count(Report', next', Skips)
        /\ Counted' = Counted + 1
    BY <1>6, <1>7, <2>1, <2>3, IncrementedTally
  <2>5. Counted' = next' - 1 /\ Count(Report', next', {"sent"}) \in Nat
    BY <1>1, <1>6, <2>4, CountedFinite DEF Entries
  <2>6. Tallied'
    BY <2>4, <2>5 DEF Tallied
  <2> QED
    BY <1>2, <1>3, <1>4, <2>6
<1>8. CASE UNCHANGED tally /\ MayFail
  <2>1. verdict \in ContextBound /\ ~Live
    BY <1>8 DEF MayFail
  <2>2. Report[next] \notin Failures
    BY <1>5, <2>1 DEF ContextBound, Failures
  <2>3. /\ Count(Report', next', Failures) = Count(Report, next, Failures)
        /\ Count(Report, next, {"sent"}) <= Count(Report', next', {"sent"})
    <3>1. \A S : Count(Report, next, S) \in Nat
      BY CountedFinite
    <3>2. \A S : Count(Report', next', S) =
            IF Report[next] \in S THEN Count(Report, next, S) + 1 ELSE Count(Report, next, S)
      BY <1>1, CountNext
    <3>3. Count(Report', next', Failures) = Count(Report, next, Failures)
      BY <2>2, <3>2
    <3>4. Count(Report', next', {"sent"}) \in {Count(Report, next, {"sent"}), Count(Report, next, {"sent"}) + 1}
      BY <3>2
    <3> QED
      BY <3>1, <3>3, <3>4
  <2>4. pc' = "next"
    BY <2>1 DEF CountDelivery, ContextBound
  <2>5. Counted' = next' - 2
    BY <1>1, <1>6, <1>8 DEF Entries
  <2>6. Tallied'
    BY <1>1, <1>6, <1>8, <2>1, <2>3, <2>4, <2>5
  <2> QED
    BY <1>2, <1>3, <1>4, <2>6
<1> QED
  BY <1>7, <1>8 DEF CountDelivery

LEMMA Appended ==
  ASSUME NEW S, NEW s \in Seq(S), NEW x \in S
  PROVE  /\ Len(Append(s, x)) = Len(s) + 1
         /\ Append(s, x)[Len(s) + 1] = x
         /\ \A i \in 1 .. Len(s) : Append(s, x)[i] = s[i]
  OBVIOUS

LEMMA SecondRow ==
  ASSUME NEW s \in Seq(RowStatuses), Len(s) = 1, NEW x \in RowStatuses
  PROVE  Len(Append(s, x)) = 2 /\ Append(s, x)[1] = s[1] /\ Append(s, x)[2] = x
<1>1. /\ Len(Append(s, x)) = Len(s) + 1
      /\ Append(s, x)[Len(s) + 1] = x
      /\ \A i \in 1 .. Len(s) : Append(s, x)[i] = s[i]
  BY Appended
<1> QED
  BY <1>1

LEMMA RecordRemainingTallyInv ==
  ASSUME ~DbFails, IInv, LedgerInv, TallyInv, RecordRemaining
  PROVE  TallyInv'
<1> USE TotalAssumption
    DEF Tallied, Counted, RowsInTurn, Processing, Started, Stops, Live, Gone, Starting, Untouched,
        Composing, Sending, durable, world, GoTo, Proceed, Conclude, ConcludeRest, Termination
<1> USE DEF IInv, TypeOK, TallyInv, Over, CurrentEntry
<1>1. /\ next \in Entries /\ pc = "rest" /\ pc' = "restcount" /\ status \in Started
      /\ UNCHANGED <<status, tally, next, verdict, cause>>
      /\ verdict \in RestOutcomes
      /\ Report' = [Report EXCEPT ![next] = RowStatus(verdict)]
  BY RemainingReported DEF RecordRemaining
<1>2. TallyClosed'
  BY <1>1, NotClosed DEF Terminal
<1>3. \A S : Count(Report', next, S) = Count(Report, next, S)
  <2>1. \A e \in Entries : e < next => Report'[e] = Report[e]
    <3>1. \A e \in Entries : e # next => Report'[e] = Report[e]
      BY <1>1 DEF Report
    <3>2. \A e \in Entries : e < next => e # next
      BY <1>1 DEF Entries
    <3> QED
      BY <3>1, <3>2
  <2> QED
    BY <2>1, CountSame
<1>4. Tallied'
  BY <1>1, <1>3
<1>5. PICK x \in RowStatuses : x = RowStatus(verdict) /\ (verdict \in Stops => x \in Stops)
  BY <1>1 DEF RowStatus, RestOutcomes, RowStatuses, Skips, Failures
<1>6. rows' = [rows EXCEPT ![next] = Append(@, x)]
  BY <1>5 DEF RecordRemaining
<1>7. /\ \A d \in Entries : d # next => rows'[d] = rows[d]
      /\ rows'[next] = Append(rows[next], x) /\ rows[next] \in Seq(RowStatuses)
  BY <1>1, <1>6
<1>8. \/ Len(rows'[next]) = 1
      \/ Len(rows'[next]) = 2 /\ rows'[next][1] = "attempted" /\ rows'[next][2] = x /\ verdict \in Stops
  <2>1. CASE Len(rows[next]) = 0
    BY <1>7, <2>1
  <2>2. CASE Len(rows[next]) = 1 /\ rows[next][1] = "attempted" /\ verdict \in Stops
    BY <1>7, <2>2, SecondRow
  <2> QED
    BY <1>1, <2>1, <2>2
<1>9. RowShape'
  BY <1>1, <1>5, <1>7, <1>8 DEF RowShape
<1>10. RowsInTurn'
  BY <1>1, <1>7, <1>8
<1> QED
  BY <1>2, <1>4, <1>9, <1>10

LEMMA CountRemainingTallyInv ==
  ASSUME ~DbFails, IInv, LedgerInv, TallyInv, CountRemaining
  PROVE  TallyInv'
<1> USE TotalAssumption
    DEF Tallied, Counted, RowsInTurn, Processing, Started, Stops, Live, Gone, Starting, Untouched,
        Composing, Sending, durable, world, GoTo, Proceed, Conclude, ConcludeRest, Termination
<1> USE DEF IInv, TypeOK, TallyInv, Over, CurrentEntry
<1>1. /\ next \in Entries /\ pc = "restcount" /\ pc' = "rest" /\ status \in Started /\ next' = next + 1
      /\ UNCHANGED <<status, rows, cause, verdict>> /\ Report' = Report
      /\ verdict \in RestOutcomes /\ Increment
  BY ReportKept DEF CountRemaining, VerdictConsistent, Resting
<1>2. TallyClosed'
  BY <1>1, NotClosed DEF Terminal
<1>3. RowShape'
  BY <1>1 DEF RowShape
<1>4. RowsInTurn'
  <2>1. next + 1 \in Entries => rows[next + 1] = <<>>
    BY <1>1 DEF InTurn, Entries
  <2>2. \A e \in Entries : e < next + 1 => Len(rows[e]) = 1 \/ (Len(rows[e]) = 2 /\ verdict \in Stops)
    BY <1>1 DEF Entries
  <2> QED
    BY <1>1, <2>1, <2>2
<1>5. /\ Report[next] = RowStatus(verdict) /\ RowStatus(verdict) # "sent"
      /\ RowStatus(verdict) \in Failures \union Skips
  BY <1>1 DEF LedgerInv, Ahead, RowStatus, RestOutcomes, Failures, Skips
<1>6. \A S : Count(Report', next', S) =
        IF RowStatus(verdict) \in S THEN Count(Report, next, S) + 1 ELSE Count(Report, next, S)
  BY <1>1, <1>5, CountNext
<1>7. /\ tally'.failed = IF RowStatus(verdict) \in Failures THEN tally.failed + 1 ELSE tally.failed
      /\ tally'.sent = tally.sent
      /\ tally'.skipped = IF RowStatus(verdict) \in Skips THEN tally.skipped + 1 ELSE tally.skipped
      /\ Counted' = Counted + 1
  BY <1>1, <1>5, IncrementedTally
<1>8. Tallied'
  <2>1. tally'.failed = Count(Report', next', Failures)
    BY <1>1, <1>6, <1>7
  <2>2. tally'.sent <= Count(Report', next', {"sent"}) /\ Count(Report', next', {"sent"}) = Count(Report, next, {"sent"})
    BY <1>1, <1>5, <1>6, <1>7
  <2>3. next \in Nat /\ tally.sent \in Nat /\ tally.failed \in Nat /\ tally.skipped \in Nat
    BY <1>1 DEF Entries
  <2>4. CASE /\ tally.sent = Count(Report, next, {"sent"})
             /\ tally.skipped = Count(Report, next, Skips)
             /\ Counted = next - 1
    BY <1>1, <1>6, <1>7, <2>1, <2>2, <2>3, <2>4
  <2>5. CASE ~Live /\ verdict \in Stops /\ Counted = next - 2
    BY <1>1, <1>7, <2>1, <2>2, <2>3, <2>5
  <2> QED
    BY <1>1, <2>4, <2>5
<1> QED
  BY <1>2, <1>3, <1>4, <1>8

\* Whoever is reported as sent has been mailed.
LEMMA SentWereMailed ==
  ASSUME IInv, NEW n
  PROVE  Count(Report, n, {"sent"}) <= Cardinality({e \in Entries : mailed[e] > 0})
<1> DEFINE M == {e \in Entries : mailed[e] > 0}
<1>1. \A e \in Entries : Report[e] = "sent" => e \in M
  <2>1. \A e \in Entries : rows[e] # <<>> => Len(rows[e]) \in DOMAIN rows[e]
    BY DEF IInv, TypeOK
  <2> QED
    BY <2>1 DEF Report, Settled, IInv, LedgerHonest
<1>2. M \in SUBSET Entries
  OBVIOUS
<1>3. Given(Report, n, {"sent"}) \in SUBSET M
  BY <1>1 DEF Given
<1> HIDE DEF M
<1>4. IsFiniteSet(M)
  BY <1>2, EntriesFinite, FS_Subset
<1>5. Cardinality(Given(Report, n, {"sent"})) <= Cardinality(M)
  BY <1>3, <1>4, FS_Subset
<1> QED
  BY <1>5 DEF Count, M

LEMMA FinishTallyInv ==
  ASSUME ~DbFails, IInv, LedgerInv, TallyInv, Finish
  PROVE  TallyInv'
<1>1. /\ pc = "finish" /\ pc' = "done" /\ UNCHANGED <<tally, rows, next, mailed>>
      /\ next = Total + 1 /\ Tallied /\ RowsInTurn /\ VerdictsInTurn /\ FailuresCounted
      /\ status' = IF verdict \in Stops THEN verdict
                   ELSE IF verdict = "unprepared" \/ tally.failed > 0 THEN "completed_with_errors"
                   ELSE "completed"
  BY DEF Finish, GoTo, LedgerInv, TallyInv, Ahead, Gone, world
<1>2. status' \in Terminal /\ status' \notin Started
  BY <1>1 DEF Terminal, Stops, Started
<1>3. tally \in [{"sent", "failed", "skipped"} -> Nat] /\ Total \in Nat
  BY TotalAssumption DEF IInv, TypeOK
<1>a. ~NothingDone'
  <2>1. 1 \in Entries /\ 1 < next
    BY <1>1, TotalAssumption DEF Entries
  <2>2. Len(rows[1]) # 0
    BY <1>1, <2>1 DEF RowsInTurn
  <2> QED
    BY <1>1, <2>1, <2>2 DEF NothingDone
<1>4. CASE verdict \in Stops
  <2>1. Counted \in {Total, Total - 1}
    BY <1>1, <1>3 DEF Tallied, Counted
  <2>2. tally.sent <= Cardinality({e \in Entries : mailed[e] > 0})
    <3> DEFINE c == Count(Report, next, {"sent"})
               m == Cardinality({e \in Entries : mailed[e] > 0})
    <3>1. tally.sent <= c /\ c \in Nat /\ c <= m /\ tally.sent \in Nat
      BY <1>1, <1>3, SentWereMailed, CountedFinite DEF Tallied
    <3>2. IsFiniteSet({e \in Entries : mailed[e] > 0})
      BY EntriesFinite, FS_Subset
    <3>3. m \in Nat
      BY <3>2, FS_CardinalityType
    <3> HIDE DEF c, m
    <3>4. tally.sent <= m
      BY <3>1, <3>3
    <3> QED
      BY <3>4 DEF m
  <2>3. Cardinality({e \in Entries : Len(rows[e]) > 1}) \in Nat
    <3>1. IsFiniteSet({e \in Entries : Len(rows[e]) > 1})
      BY EntriesFinite, FS_Subset
    <3> QED
      BY <3>1, FS_CardinalityType
  <2>4. status' \in Stops
    BY <1>1, <1>4
  <2>5. TallyClosed'
    BY <1>1, <1>3, <1>a, <2>1, <2>2, <2>3, <2>4 DEF TallyClosed, Counted
  <2> QED
    BY <1>1, <1>2, <2>5 DEF TallyInv, Gone
<1>5. CASE verdict \notin Stops
  <2>1. /\ tally.failed = Count(Report, Total + 1, Failures)
        /\ tally.sent = Count(Report, Total + 1, {"sent"})
        /\ tally.skipped = Count(Report, Total + 1, Skips)
        /\ Counted = Total
    BY <1>1, <1>3, <1>5 DEF Tallied
  <2>2. \A e \in Entries : Len(rows[e]) = 1
    BY <1>1, <1>3, <1>5 DEF RowsInTurn, Entries
  <2>3. /\ \A x \in {"sent"} : x \notin Open \union {"open"}
        /\ \A x \in Failures : x \notin Open \union {"open"}
        /\ \A x \in Skips : x \notin Open \union {"open"}
    BY DEF Open, Failures, Skips, Stops
  <2>4. /\ Cardinality(RowsOf(rows, {"sent"})) = tally.sent
        /\ Cardinality(RowsOf(rows, Failures)) = tally.failed
        /\ Cardinality(RowsOf(rows, Skips)) = tally.skipped
    BY <2>1, <2>2, <2>3, SingleRows DEF IInv, TypeOK
  <2>5. tally = Recount
    BY <1>3, <2>4 DEF Recount, Rows, RowsOf
  <2>6. tally.failed > 0 \/ verdict # "unprepared"
    <3>1. verdict = "unprepared" => Report[1] = "failed_processing" /\ 1 \in Entries /\ 1 < next
      BY <1>1, TotalAssumption DEF VerdictsInTurn, Entries
    <3> QED
      BY <1>1, <3>1 DEF FailuresCounted, Failures
  <2>7. status' \in Terminal \ Stops /\ (status' = "completed" <=> tally.failed = 0)
    BY <1>1, <1>3, <1>5, <2>6 DEF Terminal, Stops
  <2>8. Recount' = Recount
    BY <1>1 DEF Recount, Rows
  <2>9. TallyClosed'
    BY <1>1, <1>a, <2>1, <2>5, <2>7, <2>8 DEF TallyClosed, Counted
  <2> QED
    BY <1>1, <1>2, <2>9 DEF TallyInv, Gone
<1> QED
  BY <1>4, <1>5

LEMMA RestTallyInv ==
  ASSUME ~DbFails, IInv, LedgerInv, TallyInv, RemainingRecorded
  PROVE  TallyInv'
<1>1. /\ pc = "rest" /\ pc' = "finish" /\ UNCHANGED <<status, tally, rows, next, verdict, cause>>
      /\ Report' = Report
  BY ReportKept DEF RemainingRecorded, Proceed, GoTo, durable, world
<1>2. status' \notin Terminal
  BY <1>1 DEF IInv, Over, Gone
<1>3. Tallied' /\ RowsInTurn' /\ (status' \in Started => RowShape')
  BY <1>1 DEF TallyInv, Tallied, Counted, RowsInTurn, RowShape, Live, Gone, Processing, Composing, Sending
<1> QED
  BY <1>2, <1>3, NotClosed DEF TallyInv

\* Recovery leaves one or two rows for each entry of the snapshot, and says sent
\* of an entry at most once.
LEMMA RecoveredShape ==
  ASSUME IInv, RowShape, Recover, pc = "down", NEW e \in Entries
  PROVE  /\ Len(rows'[e]) \in {1, 2}
         /\ Len(rows'[e]) = 2 => rows'[e][1] # "sent" /\ rows'[e][2] # "sent"
<1>1. rows[e] \in Seq(RowStatuses) /\ DOMAIN rows[e] = 1 .. Len(rows[e])
  BY DEF IInv, TypeOK
<1>2. CASE Len(rows[e]) = 0
  <2>1. rows'[e] = <<"interrupted">>
    BY <1>1, <1>2 DEF Recover, RecoveredRows
  <2> QED
    BY <2>1
<1>3. CASE Len(rows[e]) \in {1, 2}
  <2>1. rows'[e] = [i \in 1 .. Len(rows[e]) |-> SettledRow(rows[e][i])]
    BY <1>1, <1>3 DEF Recover, RecoveredRows
  <2>2. Len(rows'[e]) = Len(rows[e])
    BY <1>3, <2>1
  <2>3. CASE Len(rows[e]) = 1
    BY <2>2, <2>3
  <2>4. CASE Len(rows[e]) = 2
    <3>1. rows[e][1] = "attempted" /\ rows[e][2] \in Stops
      BY <2>4 DEF RowShape
    <3>2. rows'[e][1] = SettledRow(rows[e][1]) /\ rows'[e][2] = SettledRow(rows[e][2])
      BY <2>1, <2>4
    <3> QED
      BY <2>2, <2>4, <3>1, <3>2 DEF SettledRow, Open, Stops
  <2> QED
    BY <1>3, <2>3, <2>4
<1> QED
  BY <1>2, <1>3 DEF RowShape

LEMMA RecoverTallyInv ==
  ASSUME ~DbFails, IInv, LedgerInv, TallyInv, Recover
  PROVE  TallyInv'
<1>1. /\ rows' = RecoveredRows /\ tally' = Recount' /\ status' = "interrupted"
      /\ UNCHANGED <<pc, mailed>> /\ pc \in Gone /\ status \in Started /\ RowShape
  BY DEF Recover, world, Gone, TallyInv
<1>2. IInv' /\ rows' \in [Entries -> Seq(RowStatuses)]
  BY RecoverInv DEF IInv, TypeOK
<1>3. TallyClosed'
  <2>1. CASE pc = "forgotten"
    <3>1. \A e \in Entries : rows[e] = <<>> /\ mailed[e] = 0
      BY <1>1, <2>1 DEF LedgerInv, GaveUp, IInv, LedgerHonest, TypeOK
    <3>2. \A e \in Entries : rows'[e] = <<>>
      <4>1. \A e \in Entries : rows'[e] = [i \in DOMAIN rows[e] |-> SettledRow(rows[e][i])]
        BY <1>1, <2>1 DEF RecoveredRows
      <4>2. \A e \in Entries : DOMAIN rows'[e] = {} /\ rows'[e] \in Seq(RowStatuses)
        BY <1>2, <3>1, <4>1
      <4>3. \A s \in Seq(RowStatuses) : DOMAIN s = {} => s = <<>>
        OBVIOUS
      <4> QED
        BY <4>2, <4>3
    <3>3. NothingDone'
      BY <1>1, <3>1, <3>2 DEF NothingDone
    <3>4. \A S : Cardinality(Rows(S)') = 0
      <4>1. \A S : Rows(S)' = {}
        BY <3>2 DEF Rows
      <4> QED
        BY <4>1, FS_EmptySet
    <3>5. tally'.sent = 0 /\ tally'.failed = 0 /\ tally'.skipped = 0
      BY <1>1, <3>4 DEF Recount, Failures, Skips, Stops
    <3> QED
      BY <1>1, <3>3, <3>5 DEF TallyClosed, Stops
  <2>2. CASE pc = "down"
    <3> DEFINE M == {e \in Entries : mailed[e] > 0}
               Two == {e \in Entries : Len(rows'[e]) > 1}
               f == [p \in RowsOf(rows', {"sent"}) |-> p[1]]
    <3>1. /\ tally'.sent = Cardinality(RowsOf(rows', {"sent"}))
          /\ tally'.failed = Cardinality(RowsOf(rows', Failures))
          /\ tally'.skipped = Cardinality(RowsOf(rows', Skips))
      BY <1>1 DEF Recount, Rows, RowsOf, Failures, Skips, Stops
    <3>2. \A e \in Entries : Len(rows'[e]) \in {1, 2}
      BY <1>1, <2>2, RecoveredShape
    <3>3. \A e \in Entries : \A i \in DOMAIN rows'[e] : rows'[e][i] \notin Open
      BY <1>1, RecoveredRowsTyped DEF IInv, TypeOK
    <3>4. Counted' = Total + Cardinality(Two)
      <4>1. Counted' = tally'.sent + tally'.failed + tally'.skipped
        BY DEF Counted
      <4>2. Cardinality(RowsOf(rows', {"sent"})) + Cardinality(RowsOf(rows', Failures)) + Cardinality(RowsOf(rows', Skips))
              = Total + Cardinality(Two)
        BY <1>2, <3>2, <3>3, AllRowsCounted
      <4> HIDE DEF Two
      <4> QED
        BY <3>1, <4>1, <4>2
    <3>5. f \in Injection(RowsOf(rows', {"sent"}), M)
      <4>1. \A p \in RowsOf(rows', {"sent"}) :
              \E e \in Entries : \E i \in DOMAIN rows'[e] : rows'[e][i] = "sent" /\ p = <<e, i>>
        BY RowsMember
      <4>2. \A e \in Entries : \A i \in DOMAIN rows'[e] : rows'[e][i] = "sent" => e \in M
        BY <1>1, <1>2 DEF IInv, LedgerHonest
      <4>3. \A e \in Entries : \A i \in DOMAIN rows'[e] : rows'[e][i] = "sent" => i = 1
        <5> SUFFICES ASSUME NEW e \in Entries, NEW i \in DOMAIN rows'[e], rows'[e][i] = "sent"
                     PROVE  i = 1
          OBVIOUS
        <5>1. DOMAIN rows'[e] = 1 .. Len(rows'[e]) /\ Len(rows'[e]) \in {1, 2}
          BY <1>2, <3>2
        <5>2. Len(rows'[e]) = 2 => rows'[e][1] # "sent" /\ rows'[e][2] # "sent"
          BY <1>1, <2>2, RecoveredShape
        <5> QED
          BY <5>1, <5>2
      <4> HIDE DEF M
      <4>4. f \in [RowsOf(rows', {"sent"}) -> M]
        BY <4>1, <4>2
      <4>5. \A p, q \in RowsOf(rows', {"sent"}) : f[p] = f[q] => p = q
        BY <4>1, <4>3
      <4> HIDE DEF f
      <4> QED
        BY <4>4, <4>5 DEF Injection, IsInjective
    <3>6. IsFiniteSet(M) /\ IsFiniteSet(Two)
      BY EntriesFinite, FS_Subset
    <3>7. Cardinality(Two) \in Nat
      BY <3>6, FS_CardinalityType
    <3>8. tally'.sent <= Cardinality(M)
      <4> HIDE DEF f, M
      <4> QED
        BY <3>1, <3>5, <3>6, FS_Injection
    <3>9. Counted' \in Total - 1 .. Total + Cardinality(Two)
      <4> HIDE DEF Two
      <4> QED
        BY <3>4, <3>7, TotalAssumption
    <3>10. ~NothingDone'
      <4>1. 1 \in Entries
        BY TotalAssumption DEF Entries
      <4>2. Len(rows'[1]) # 0
        BY <3>2, <4>1
      <4> QED
        BY <4>1, <4>2 DEF NothingDone
    <3> QED
      BY <1>1, <2>2, <3>8, <3>9, <3>10 DEF TallyClosed, Counted, Stops
  <2> QED
    BY <1>1, <2>1, <2>2 DEF Gone
<1> QED
  BY <1>1, <1>3 DEF TallyInv, Started, Gone

LEMMA NextTallyInv ==
  ASSUME ~DbFails, IInv, LedgerInv, TallyInv, [Next]_vars
  PROVE  TallyInv'
<1>1. CASE status \in Terminal /\ Next
  <2>1. /\ pc \in {"done"} \union Gone /\ ~Execute /\ ~Recover
        /\ UNCHANGED <<status, tally, rows, mailed>>
    BY <1>1, OutcomeKept DEF durable
  <2>2. pc' \in {"done"} \union Gone /\ (pc = "down" => pc' = "down")
    BY <1>1, <2>1 DEF Next, Stop, Crash, ChangeSuppression, Gone
  <2>3. Recount' = Recount /\ NothingDone' = NothingDone
    BY <2>1 DEF Recount, Rows, NothingDone
  <2>4. TallyClosed'
    BY <2>1, <2>2, <2>3 DEF TallyInv, TallyClosed
  <2>5. status' \notin Started
    BY <1>1, <2>1 DEF Started, Terminal, Stops
  <2> QED
    BY <2>2, <2>4, <2>5 DEF TallyInv
<1>2. CASE status \notin Terminal /\ Execute
  <2>1. CASE Record
    BY <2>1, UpdateTallyInv, CountDeliveryTallyInv, RecordRemainingTallyInv,
       CountRemainingTallyInv, FinishTallyInv, RestTallyInv DEF Record, RecordFailed
  <2> QED
    BY <1>2, <2>1, LoadTallyInv, PrepareTallyInv, ProcessItemTallyInv, SendTallyInv DEF Execute
<1>3. CASE Recover
  BY <1>3, RecoverTallyInv
<1>4. CASE status \notin Terminal /\ (Stop \/ Crash \/ (\E e \in Entries : ChangeSuppression(e)))
  <2>1. UNCHANGED <<status, tally, rows, next, verdict>> /\ Report' = Report
    BY <1>4, ReportKept DEF Stop, Crash, ChangeSuppression, durable
  <2>2. TallyClosed' /\ (status' \in Started => RowShape')
    BY <1>4, <2>1, NotClosed DEF TallyInv, RowShape
  <2>3. pc' \notin Gone \union {"done"} => pc' = pc /\ (~Live => ~Live')
    BY <1>4 DEF Stop, Crash, ChangeSuppression, Gone, Live
  <2> QED
    BY <2>1, <2>2, <2>3 DEF TallyInv, Tallied, Counted, RowsInTurn
<1>5. CASE UNCHANGED vars
  <2>1. UNCHANGED <<status, tally, rows, next, verdict, pc, cause, mailed>> /\ Report' = Report
    BY <1>5, ReportKept DEF vars
  <2>2. Recount' = Recount
    BY <2>1 DEF Recount, Rows
  <2> QED
    BY <2>1, <2>2 DEF TallyInv, TallyClosed, NothingDone, RowShape, Tallied, Counted, RowsInTurn, Live
<1> QED
  BY <1>1, <1>2, <1>3, <1>4, <1>5 DEF Next

\* As long as no statement fails, the tally of a task that has ended accounts for
\* its entries, whatever was cancelled, crashed and recovered: a completed task
\* has counted exactly its rows, a stopped one misses at most the entry in
\* flight, and none claims to have sent more than the provider accepted.  A task
\* that has settled no entry, such as one whose snapshot is refused, has counted
\* nothing and does not say completed.
THEOREM TallyIsClosed ==
  ASSUME ~DbFails
  PROVE  Spec => []TallyClosed
<1>1. Init => LedgerInv /\ TallyInv
  BY InitLedgerInv, InitTallyInv
<1>2. IInv /\ LedgerInv /\ TallyInv /\ [Next]_vars => LedgerInv' /\ TallyInv'
  BY NextLedgerInv, NextTallyInv
<1>3. TallyInv => TallyClosed
  BY DEF TallyInv
<1> QED
  BY <1>1, <1>2, <1>3, Invariance, PTL DEF Spec
=============================================================================
