------------------------- MODULE CampaignSendProofs -------------------------
(***************************************************************************)
(* Proofs about CampaignSend for any number of entries and attempts, with  *)
(* and without lost replies and failing statements.                        *)
(***************************************************************************)
EXTENDS CampaignSend, FiniteSetTheorems, TLAPS

Untouched == {"load", "sender", "begin", "shared", "next", "insert"}
Composing == {"read", "prepared", "check", "compose"}
Sending == {"pace", "sending", "backoff"}
Resting == {"rest", "restcount"}
Gone == {"down", "forgotten"}

\* The outcomes of a single entry, and those of all entries that are left.
EntryOutcomes == {"sent", "skipped_suppressed"} \union Failures \union Stops
RestOutcomes == {"failed_processing", "unprepared", "not_attempted_configuration"} \union Stops

\* A task has an outcome only after its execution.
Over == status \in Terminal => pc \in {"done"} \union Gone

\* Nothing is recorded of an entry, or sent to it, before its turn.
InTurn ==
  pc \notin Gone =>
    \A e \in Entries : e > next => rows[e] = <<>> /\ mailed[e] = 0

\* What is known of the entry whose turn it is: it has a row that is open when
\* it is sent, and its messages are counted by the attempts.
CurrentEntry ==
  /\ pc \in Untouched /\ next \in Entries => rows[next] = <<>> /\ mailed[next] = 0
  /\ pc \in Composing => mailed[next] = 0
  /\ pc = "rest" /\ next \in Entries => mailed[next] = 0
  /\ pc \in Composing \union Sending \union {"accepted", "update"} =>
       /\ rows[next] # <<>>
       /\ \A i \in DOMAIN rows[next] : rows[next][i] \in Open
  /\ pc \in Composing \union Sending \union {"insert", "accepted", "update", "count", "restcount"} =>
       next \in Entries
  /\ pc \in {"pace", "sending"} => mailed[next] < attempt
  /\ pc = "backoff" => mailed[next] <= attempt /\ attempt < MaxAttempts
  /\ pc \in Sending /\ ~Ambiguous => mailed[next] = 0
  /\ pc = "accepted" => mailed[next] \in 1 .. (IF Ambiguous THEN attempt ELSE 1)

\* The outcome about to be recorded agrees with what has happened.
VerdictConsistent ==
  /\ pc \in {"update", "count"} => verdict \in EntryOutcomes
  /\ pc = "update" /\ verdict = "sent" => mailed[next] > 0
  /\ pc = "update" /\ verdict = "skipped_suppressed" => mailed[next] = 0
  /\ pc \in Resting => verdict \in RestOutcomes

IInv ==
  /\ TypeOK
  /\ LedgerHonest
  /\ MailedOnce
  /\ Over
  /\ InTurn
  /\ CurrentEntry
  /\ VerdictConsistent
-----------------------------------------------------------------------------
(* Facts about rows and tallies *)

LEMMA EntriesFinite == IsFiniteSet(Entries)
  BY TotalAssumption, FS_Interval DEF Entries

LEMMA CountInNat ==
  ASSUME NEW r \in [Entries -> Seq(RowStatuses)], NEW S
  PROVE  LET T == UNION {{e} \X {i \in DOMAIN r[e] : r[e][i] \in S} : e \in Entries}
         IN  IsFiniteSet(T) /\ Cardinality(T) \in Nat
<1> DEFINE Of(e) == {e} \X {i \in DOMAIN r[e] : r[e][i] \in S}
<1>1. ASSUME NEW e \in Entries
      PROVE  IsFiniteSet(Of(e))
  <2>1. IsFiniteSet({i \in DOMAIN r[e] : r[e][i] \in S})
    <3>1. DOMAIN r[e] = 1 .. Len(r[e]) /\ Len(r[e]) \in Nat
      OBVIOUS
    <3>2. IsFiniteSet(DOMAIN r[e])
      BY <3>1, FS_Interval
    <3> QED
      BY <3>2, FS_Subset
  <2> QED
    BY <2>1, FS_Singleton, FS_Product
<1>2. IsFiniteSet({Of(e) : e \in Entries})
  <2> DEFINE f == [e \in Entries |-> Of(e)]
  <2>1. f \in Surjection(Entries, {Of(e) : e \in Entries})
    BY DEF Surjection
  <2> QED
    BY <2>1, EntriesFinite, FS_Surjection
<1>3. \A T \in {Of(e) : e \in Entries} : IsFiniteSet(T)
  BY <1>1
<1>4. IsFiniteSet(UNION {Of(e) : e \in Entries})
  <2> HIDE DEF Of
  <2> QED
    BY <1>2, <1>3, FS_UNION
<1> QED
  BY <1>4, FS_CardinalityType

LEMMA RecoveredRowsTyped ==
  ASSUME rows \in [Entries -> Seq(RowStatuses)], NEW e \in Entries
  PROVE  /\ RecoveredRows[e] \in Seq(RowStatuses)
         /\ \A i \in DOMAIN RecoveredRows[e] :
              /\ RecoveredRows[e][i] \notin Open
              /\ RecoveredRows[e][i] = "interrupted" \/ (i \in DOMAIN rows[e] /\ RecoveredRows[e][i] = rows[e][i])
         /\ rows[e] # <<>> => RecoveredRows[e] # <<>>
         /\ pc = "down" => RecoveredRows[e] # <<>>
<1> DEFINE settled == [i \in DOMAIN rows[e] |-> SettledRow(rows[e][i])]
<1>1. rows[e] \in Seq(RowStatuses) /\ DOMAIN rows[e] = 1 .. Len(rows[e]) /\ Len(rows[e]) \in Nat
  OBVIOUS
<1>2. \A i \in DOMAIN rows[e] : SettledRow(rows[e][i]) \in RowStatuses \ Open
  BY <1>1 DEF SettledRow, RowStatuses, Open, Skips, Failures, Stops
<1>3. settled \in Seq(RowStatuses) /\ Len(settled) = Len(rows[e])
  BY <1>1, <1>2
<1>4. CASE rows[e] = <<>> /\ pc # "forgotten"
  <2>1. RecoveredRows[e] = <<"interrupted">>
    BY <1>4 DEF RecoveredRows
  <2> QED
    BY <1>4, <2>1 DEF RowStatuses, Open, Skips, Failures, Stops
<1>5. CASE ~(rows[e] = <<>> /\ pc # "forgotten")
  <2>1. RecoveredRows[e] = settled
    BY <1>5 DEF RecoveredRows
  <2>2. rows[e] # <<>> => settled # <<>>
    BY <1>1, <1>3
  <2>3. \A i \in DOMAIN settled : settled[i] = "interrupted" \/ settled[i] = rows[e][i]
    BY DEF SettledRow
  <2> QED
    BY <1>2, <1>3, <1>5, <2>1, <2>2, <2>3
<1> QED
  BY <1>4, <1>5

LEMMA AppendNotEmpty ==
  ASSUME NEW S, NEW s \in Seq(S), NEW x \in S
  PROVE  Append(s, x) # <<>>
<1>1. Len(Append(s, x)) = Len(s) + 1 /\ Len(s) \in Nat
  OBVIOUS
<1>2. Len(<<>>) = 0
  OBVIOUS
<1> QED
  BY <1>1, <1>2

LEMMA AppendRow ==
  ASSUME NEW r \in [Entries -> Seq(RowStatuses)], NEW e \in Entries,
         NEW x \in RowStatuses,
         NEW q, q = [r EXCEPT ![e] = Append(@, x)]
  PROVE  /\ q \in [Entries -> Seq(RowStatuses)]
         /\ \A d \in Entries : d # e => q[d] = r[d]
         /\ q[e] # <<>>
         /\ \A i \in DOMAIN q[e] :
              q[e][i] = x \/ (i \in DOMAIN r[e] /\ q[e][i] = r[e][i])
<1>1. q[e] = Append(r[e], x) /\ r[e] \in Seq(RowStatuses)
  OBVIOUS
<1>2. q[e] \in Seq(RowStatuses) /\ Len(q[e]) = Len(r[e]) + 1
  BY <1>1
<1>3. \A i \in DOMAIN q[e] :
        q[e][i] = x \/ (i \in DOMAIN r[e] /\ q[e][i] = r[e][i])
  BY <1>1, <1>2
<1>4. \A d \in Entries : d # e => q[d] = r[d]
  OBVIOUS
<1>5. q[e] # <<>>
  BY <1>1, AppendNotEmpty
<1> QED
  BY <1>2, <1>3, <1>4, <1>5

LEMMA SetLastRow ==
  ASSUME NEW r \in [Entries -> Seq(RowStatuses)], NEW e \in Entries,
         NEW x \in RowStatuses, r[e] # <<>>,
         NEW q, q = [r EXCEPT ![e][Len(r[e])] = x]
  PROVE  /\ q \in [Entries -> Seq(RowStatuses)]
         /\ \A d \in Entries : d # e => q[d] = r[d]
         /\ q[e] # <<>>
         /\ DOMAIN q[e] = DOMAIN r[e]
         /\ \A i \in DOMAIN q[e] : q[e][i] = x \/ q[e][i] = r[e][i]
<1>1. q[e] = [r[e] EXCEPT ![Len(r[e])] = x] /\ r[e] \in Seq(RowStatuses)
  OBVIOUS
<1>2. q[e] \in Seq(RowStatuses) /\ Len(q[e]) = Len(r[e])
  BY <1>1
<1>3. DOMAIN q[e] = DOMAIN r[e] /\ \A i \in DOMAIN q[e] : q[e][i] = x \/ q[e][i] = r[e][i]
  BY <1>1
<1>4. \A d \in Entries : d # e => q[d] = r[d]
  OBVIOUS
<1>5. q[e] # <<>>
  BY <1>1, <1>2
<1> QED
  BY <1>2, <1>3, <1>4, <1>5

LEMMA InsertedRow ==
  ASSUME rows \in [Entries -> Seq(RowStatuses)], next \in Entries,
         rows[next] = <<>>, InsertDelivery
  PROVE  /\ rows' \in [Entries -> Seq(RowStatuses)] /\ rows'[next] # <<>>
         /\ \A d \in Entries : d # next => rows'[d] = rows[d]
         /\ \A i \in DOMAIN rows'[next] : rows'[next][i] = "attempted"
<1>1. rows' = [rows EXCEPT ![next] = Append(@, "attempted")] /\ "attempted" \in RowStatuses
  BY DEF InsertDelivery, RowStatuses, Open
<1>2. DOMAIN rows[next] = {}
  OBVIOUS
<1> QED
  BY <1>1, <1>2, AppendRow

LEMMA RetriedRow ==
  ASSUME rows \in [Entries -> Seq(RowStatuses)], next \in Entries,
         rows[next] # <<>>, Retry
  PROVE  /\ rows' \in [Entries -> Seq(RowStatuses)] /\ rows'[next] # <<>>
         /\ \A d \in Entries : d # next => rows'[d] = rows[d]
         /\ DOMAIN rows'[next] = DOMAIN rows[next]
         /\ \A i \in DOMAIN rows'[next] :
              rows'[next][i] = "retrying" \/ rows'[next][i] = rows[next][i]
<1>1. "retrying" \in RowStatuses
  BY DEF RowStatuses, Open
<1>2. rows' = [rows EXCEPT ![next][Len(rows[next])] = "retrying"] \/ rows' = rows
  BY DEF Retry
<1>3. CASE rows' = [rows EXCEPT ![next][Len(rows[next])] = "retrying"]
  BY <1>1, <1>3, SetLastRow
<1>4. CASE rows' = rows
  BY <1>4
<1> QED
  BY <1>2, <1>3, <1>4

LEMMA UpdatedRow ==
  ASSUME rows \in [Entries -> Seq(RowStatuses)], next \in Entries,
         rows[next] # <<>>, verdict \in RowStatuses, UpdateDelivery
  PROVE  /\ rows' \in [Entries -> Seq(RowStatuses)] /\ rows'[next] # <<>>
         /\ \A d \in Entries : d # next => rows'[d] = rows[d]
         /\ DOMAIN rows'[next] = DOMAIN rows[next]
         /\ \A i \in DOMAIN rows'[next] :
              rows'[next][i] = verdict \/ rows'[next][i] = rows[next][i]
<1>1. rows' = [rows EXCEPT ![next][Len(rows[next])] = verdict] \/ rows' = rows
  BY DEF UpdateDelivery
<1>2. CASE rows' = [rows EXCEPT ![next][Len(rows[next])] = verdict]
  BY <1>2, SetLastRow
<1>3. CASE rows' = rows
  BY <1>3
<1> QED
  BY <1>1, <1>2, <1>3

LEMMA RemainingRow ==
  ASSUME rows \in [Entries -> Seq(RowStatuses)], next \in Entries,
         RowStatus(verdict) \in RowStatuses, RecordRemaining
  PROVE  /\ rows' \in [Entries -> Seq(RowStatuses)] /\ rows'[next] # <<>>
         /\ \A d \in Entries : d # next => rows'[d] = rows[d]
         /\ \A i \in DOMAIN rows'[next] :
              \/ rows'[next][i] = RowStatus(verdict)
              \/ i \in DOMAIN rows[next] /\ rows'[next][i] = rows[next][i]
<1>1. rows' = [rows EXCEPT ![next] = Append(@, RowStatus(verdict))]
  BY DEF RecordRemaining
<1> QED
  BY <1>1, AppendRow

LEMMA IncrementTyped ==
  ASSUME TypeOK, verdict # "none", Increment
  PROVE  tally' \in [{"sent", "failed", "skipped"} -> Nat]
<1>1. Field(RowStatus(verdict)) \in {"sent", "failed", "skipped"}
  BY DEF Field
<1> QED
  BY <1>1 DEF Increment, TypeOK
-----------------------------------------------------------------------------
(* The inductive invariant *)

LEMMA InitInv == Init => IInv
  BY TotalAssumption, MaxAttemptsAssumption
  DEF Init, IInv, TypeOK, LedgerHonest, MailedOnce, Over, InTurn, CurrentEntry,
      VerdictConsistent, Entries, Started, Stops, Terminal, Failures, Skips, Open,
      RowStatuses, Untouched, Composing, Sending, Resting, Gone

LEMMA LoadInv ==
  ASSUME IInv, Load
  PROVE  IInv'
<1> USE TotalAssumption, MaxAttemptsAssumption
    DEF IInv, TypeOK, LedgerHonest, MailedOnce, Over, InTurn, CurrentEntry,
        VerdictConsistent, Started, Stops, Terminal, Failures, Skips, Live, Untouched, Composing, Sending, Resting, Gone,
        EntryOutcomes, RestOutcomes, durable, world, GoTo, Proceed, Conclude,
        ConcludeRest, Termination
<1>1. CASE LoadSnapshot
  BY <1>1 DEF LoadSnapshot
<1>2. CASE LoadFailed
  BY <1>2 DEF LoadFailed
<1>3. CASE LoadStopped
  BY <1>3 DEF LoadStopped
<1>4. CASE SenderReady
  BY <1>4 DEF SenderReady
<1>5. CASE PreparationFailed
  BY <1>5 DEF PreparationFailed
<1>6. CASE SnapshotRefused
  BY <1>6 DEF SnapshotRefused
<1> QED
  BY <1>1, <1>2, <1>3, <1>4, <1>5, <1>6 DEF Load

LEMMA PrepareInv ==
  ASSUME IInv, Prepare
  PROVE  IInv'
<1> USE TotalAssumption, MaxAttemptsAssumption
    DEF IInv, TypeOK, LedgerHonest, MailedOnce, Over, InTurn, CurrentEntry,
        VerdictConsistent, Started, Stops, Terminal, Failures, Skips, Live, Untouched, Composing, Sending, Resting, Gone,
        EntryOutcomes, RestOutcomes, durable, world, GoTo, Proceed, Conclude,
        ConcludeRest, Termination
<1>1. CASE BeginExecution
  BY <1>1 DEF BeginExecution
<1>2. CASE BeginStopped
  BY <1>2 DEF BeginStopped
<1>3. CASE ConverterMissing
  BY <1>3 DEF ConverterMissing
<1>4. CASE SharedReady
  BY <1>4 DEF SharedReady
<1>5. CASE SharedFailed
  BY <1>5 DEF SharedFailed
<1> QED
  BY <1>1, <1>2, <1>3, <1>4, <1>5 DEF Prepare

LEMMA ProcessItemInv ==
  ASSUME IInv, ProcessItem
  PROVE  IInv'
<1> USE TotalAssumption, MaxAttemptsAssumption
    DEF IInv, TypeOK, LedgerHonest, MailedOnce, Over, InTurn, CurrentEntry,
        VerdictConsistent, Started, Stops, Terminal, Failures, Skips, Live, Untouched, Composing, Sending, Resting, Gone,
        EntryOutcomes, RestOutcomes, durable, world, GoTo, Proceed, Conclude,
        ConcludeRest, Termination
<1>1. CASE TakeItem
  <2>1. TypeOK'
    BY <1>1 DEF TakeItem
  <2>2. LedgerHonest'
    BY <1>1 DEF TakeItem
  <2>3. MailedOnce'
    BY <1>1 DEF TakeItem
  <2>4. Over'
    BY <1>1 DEF TakeItem
  <2>5. InTurn'
    BY <1>1 DEF TakeItem
  <2>6. CurrentEntry'
    BY <1>1 DEF TakeItem, Entries
  <2>7. VerdictConsistent'
    BY <1>1 DEF TakeItem
  <2> QED
    BY <2>1, <2>2, <2>3, <2>4, <2>5, <2>6, <2>7
<1>2. CASE StopAtItem
  BY <1>2 DEF StopAtItem
<1>3. CASE AllProcessed
  BY <1>3 DEF AllProcessed
<1>4. CASE InsertDelivery
  <2>a. /\ rows' \in [Entries -> Seq(RowStatuses)] /\ rows'[next] # <<>>
        /\ \A d \in Entries : d # next => rows'[d] = rows[d]
        /\ \A i \in DOMAIN rows'[next] : rows'[next][i] = "attempted"
    BY <1>4, InsertedRow DEF InsertDelivery
  <2>1. TypeOK'
    BY <1>4, <2>a DEF InsertDelivery
  <2>2. LedgerHonest'
    <3> SUFFICES ASSUME NEW e \in Entries
                 PROVE  /\ mailed'[e] > 0 => rows'[e] # <<>>
                        /\ \A i \in DOMAIN rows'[e] :
                             /\ rows'[e][i] = "sent" => mailed'[e] > 0
                             /\ rows'[e][i] \in {"skipped_suppressed", "not_attempted_configuration"}
                                  => mailed'[e] = 0
      OBVIOUS
    <3>1. CASE e = next
      BY <1>4, <2>a, <3>1 DEF InsertDelivery
    <3>2. CASE e # next
      BY <1>4, <2>a, <3>2 DEF InsertDelivery
    <3> QED
      BY <3>1, <3>2
  <2>3. MailedOnce'
    BY <1>4 DEF InsertDelivery
  <2>4. Over'
    BY <1>4 DEF InsertDelivery
  <2>5. InTurn'
    <3>1. \A e \in Entries : e > next => e # next
      OBVIOUS
    <3> QED
      BY <1>4, <2>a, <3>1 DEF InsertDelivery
  <2>6. CurrentEntry'
    BY <1>4, <2>a DEF InsertDelivery, Open
  <2>7. VerdictConsistent'
    BY <1>4 DEF InsertDelivery
  <2> QED
    BY <2>1, <2>2, <2>3, <2>4, <2>5, <2>6, <2>7
<1>5. CASE ReadDelivery
  BY <1>5 DEF ReadDelivery
<1>6. CASE CreateStopped
  BY <1>6 DEF CreateStopped
<1>7. CASE CreateFailed
  BY <1>7 DEF CreateFailed
<1>8. CASE ItemReady
  BY <1>8 DEF ItemReady
<1>9. CASE ItemFailed
  BY <1>9 DEF ItemFailed
<1>10. CASE SignatureFailed
  BY <1>10 DEF SignatureFailed
<1>11. CASE CheckSuppressed
  BY <1>11 DEF CheckSuppressed
<1>12. CASE ItemComposed
  BY <1>12 DEF ItemComposed
<1> QED
  BY <1>1, <1>2, <1>3, <1>4, <1>5, <1>6, <1>7, <1>8, <1>9, <1>10, <1>11, <1>12 DEF ProcessItem

LEMMA SendInv ==
  ASSUME IInv, Send
  PROVE  IInv'
<1> USE TotalAssumption, MaxAttemptsAssumption
    DEF IInv, TypeOK, LedgerHonest, MailedOnce, Over, InTurn, CurrentEntry,
        VerdictConsistent, Started, Stops, Terminal, Failures, Skips, Live, Untouched, Composing, Sending, Resting, Gone,
        EntryOutcomes, RestOutcomes, durable, world, GoTo, Proceed, Conclude,
        ConcludeRest, Termination
<1>1. CASE StartAttempt
  BY <1>1 DEF StartAttempt
<1>2. CASE AttemptStopped
  BY <1>2 DEF AttemptStopped
<1>3. CASE ProviderAccepts
  <2>a. mailed' \in [Entries -> Nat]
    BY <1>3 DEF ProviderAccepts
  <2>1. TypeOK'
    BY <1>3, <2>a DEF ProviderAccepts
  <2>2. LedgerHonest'
    BY <1>3 DEF ProviderAccepts, Open
  <2>3. MailedOnce'
    BY <1>3 DEF ProviderAccepts
  <2>4. Over'
    BY <1>3 DEF ProviderAccepts
  <2>5. InTurn'
    BY <1>3 DEF ProviderAccepts
  <2>6. CurrentEntry'
    BY <1>3 DEF ProviderAccepts
  <2>7. VerdictConsistent'
    BY <1>3 DEF ProviderAccepts
  <2> QED
    BY <2>1, <2>2, <2>3, <2>4, <2>5, <2>6, <2>7
<1>4. CASE SendSucceeded
  <2>1. TypeOK'
    BY <1>4 DEF SendSucceeded
  <2>2. LedgerHonest'
    BY <1>4 DEF SendSucceeded
  <2>3. MailedOnce'
    BY <1>4 DEF SendSucceeded
  <2>4. Over'
    BY <1>4 DEF SendSucceeded
  <2>5. InTurn'
    BY <1>4 DEF SendSucceeded
  <2>6. CurrentEntry'
    BY <1>4 DEF SendSucceeded
  <2>7. VerdictConsistent'
    BY <1>4 DEF SendSucceeded
  <2> QED
    BY <2>1, <2>2, <2>3, <2>4, <2>5, <2>6, <2>7
<1>5. CASE SendFailed
  <2>a. "transient" \in Kinds /\ \A kind \in Kinds : FailedKind[kind] \in Failures
    BY DEF Kinds, FailedKind
  <2>1. TypeOK'
    BY <1>5, <2>a DEF SendFailed, Retryable
  <2>2. LedgerHonest'
    BY <1>5 DEF SendFailed, Retryable
  <2>3. MailedOnce'
    BY <1>5 DEF SendFailed, Retryable
  <2>4. Over'
    BY <1>5 DEF SendFailed, Retryable
  <2>5. InTurn'
    BY <1>5 DEF SendFailed, Retryable
  <2>6. CurrentEntry'
    <3>1. CASE pc' = "update"
      BY <1>5, <3>1 DEF SendFailed, Retryable
    <3>2. CASE pc' = "backoff"
      BY <1>5, <3>2 DEF SendFailed, Retryable
    <3> QED
      BY <1>5, <3>1, <3>2 DEF SendFailed, Retryable
  <2>7. VerdictConsistent'
    BY <1>5, <2>a DEF SendFailed, Retryable
  <2> QED
    BY <2>1, <2>2, <2>3, <2>4, <2>5, <2>6, <2>7
<1>6. CASE Retry
  <2>a. /\ rows' \in [Entries -> Seq(RowStatuses)] /\ rows'[next] # <<>>
        /\ \A d \in Entries : d # next => rows'[d] = rows[d]
        /\ DOMAIN rows'[next] = DOMAIN rows[next]
        /\ \A i \in DOMAIN rows'[next] : rows'[next][i] = "retrying" \/ rows'[next][i] = rows[next][i]
    BY <1>6, RetriedRow DEF Retry
  <2>1. TypeOK'
    BY <1>6, <2>a DEF Retry
  <2>2. LedgerHonest'
    BY <1>6, <2>a DEF Retry
  <2>3. MailedOnce'
    BY <1>6 DEF Retry
  <2>4. Over'
    BY <1>6 DEF Retry
  <2>5. InTurn'
    BY <1>6 DEF Retry
  <2>6. CurrentEntry'
    BY <1>6, <2>a DEF Retry, Open
  <2>7. VerdictConsistent'
    BY <1>6 DEF Retry
  <2> QED
    BY <2>1, <2>2, <2>3, <2>4, <2>5, <2>6, <2>7
<1> QED
  BY <1>1, <1>2, <1>3, <1>4, <1>5, <1>6 DEF Send

LEMMA RecordInv ==
  ASSUME IInv, Record
  PROVE  IInv'
<1> USE TotalAssumption, MaxAttemptsAssumption
    DEF IInv, TypeOK, LedgerHonest, MailedOnce, Over, InTurn, CurrentEntry,
        VerdictConsistent, Started, Stops, Terminal, Failures, Skips, Live, Untouched, Composing, Sending, Resting, Gone,
        EntryOutcomes, RestOutcomes, durable, world, GoTo, Proceed, Conclude,
        ConcludeRest, Termination
<1>1. CASE UpdateDelivery
  <2>a. /\ rows' \in [Entries -> Seq(RowStatuses)] /\ rows'[next] # <<>>
        /\ \A d \in Entries : d # next => rows'[d] = rows[d]
        /\ DOMAIN rows'[next] = DOMAIN rows[next]
        /\ \A i \in DOMAIN rows'[next] : rows'[next][i] = verdict \/ rows'[next][i] = rows[next][i]
    BY <1>1, UpdatedRow DEF UpdateDelivery, RowStatuses
  <2>1. TypeOK'
    BY <1>1, <2>a DEF UpdateDelivery, MayFail, MustFail
  <2>2. LedgerHonest'
    <3> SUFFICES ASSUME NEW e \in Entries
                 PROVE  /\ mailed'[e] > 0 => rows'[e] # <<>>
                        /\ \A i \in DOMAIN rows'[e] :
                             /\ rows'[e][i] = "sent" => mailed'[e] > 0
                             /\ rows'[e][i] \in {"skipped_suppressed", "not_attempted_configuration"}
                                  => mailed'[e] = 0
      OBVIOUS
    <3>1. CASE e = next
      BY <1>1, <2>a, <3>1 DEF UpdateDelivery, MayFail, MustFail
    <3>2. CASE e # next
      BY <1>1, <2>a, <3>2 DEF UpdateDelivery, MayFail, MustFail
    <3> QED
      BY <3>1, <3>2
  <2>3. MailedOnce'
    BY <1>1 DEF UpdateDelivery, MayFail, MustFail
  <2>4. Over'
    BY <1>1 DEF UpdateDelivery, MayFail, MustFail
  <2>5. InTurn'
    BY <1>1 DEF UpdateDelivery, MayFail, MustFail
  <2>6. CurrentEntry'
    BY <1>1 DEF UpdateDelivery, MayFail, MustFail
  <2>7. VerdictConsistent'
    BY <1>1 DEF UpdateDelivery, MayFail, MustFail
  <2> QED
    BY <2>1, <2>2, <2>3, <2>4, <2>5, <2>6, <2>7
<1>2. CASE CountDelivery
  <2>b. next + 1 \in Entries => rows[next + 1] = <<>> /\ mailed[next + 1] = 0
    BY <1>2 DEF CountDelivery
  <2>a. tally' \in [{"sent", "failed", "skipped"} -> Nat]
    BY <1>2, IncrementTyped DEF CountDelivery
  <2>1. TypeOK'
    BY <1>2, <2>a DEF CountDelivery, Entries
  <2>2. LedgerHonest'
    BY <1>2 DEF CountDelivery, Increment, Field, RowStatus, MayFail, MustFail
  <2>3. MailedOnce'
    BY <1>2 DEF CountDelivery, Increment, Field, RowStatus, MayFail, MustFail
  <2>4. Over'
    BY <1>2 DEF CountDelivery, Increment, Field, RowStatus, MayFail, MustFail
  <2>5. InTurn'
    BY <1>2 DEF CountDelivery, Entries
  <2>6. CurrentEntry'
    BY <1>2, <2>b DEF CountDelivery, Entries
  <2>7. VerdictConsistent'
    BY <1>2 DEF CountDelivery, Increment, Field, RowStatus, MayFail, MustFail
  <2> QED
    BY <2>1, <2>2, <2>3, <2>4, <2>5, <2>6, <2>7
<1>3. CASE RecordRemaining
  <2>a. /\ rows' \in [Entries -> Seq(RowStatuses)] /\ rows'[next] # <<>>
        /\ \A d \in Entries : d # next => rows'[d] = rows[d]
        /\ \A i \in DOMAIN rows'[next] :
             \/ rows'[next][i] = RowStatus(verdict)
             \/ i \in DOMAIN rows[next] /\ rows'[next][i] = rows[next][i]
    <3>1. rows \in [Entries -> Seq(RowStatuses)] /\ next \in Entries
      BY <1>3 DEF RecordRemaining, Entries
    <3>2. verdict \in RestOutcomes
      BY <1>3 DEF RecordRemaining
    <3>3. RowStatus(verdict) \in RowStatuses
      BY <3>2 DEF RowStatus, RowStatuses
    <3> QED
      BY <1>3, <3>1, <3>3, RemainingRow
  <2>1. TypeOK'
    BY <1>3, <2>a DEF RecordRemaining
  <2>2. LedgerHonest'
    BY <1>3, <2>a DEF RecordRemaining, RowStatus
  <2>3. MailedOnce'
    BY <1>3 DEF RecordRemaining, RowStatus
  <2>4. Over'
    BY <1>3 DEF RecordRemaining, RowStatus
  <2>5. InTurn'
    BY <1>3 DEF RecordRemaining, RowStatus, Entries
  <2>6. CurrentEntry'
    BY <1>3 DEF RecordRemaining, RowStatus, Entries
  <2>7. VerdictConsistent'
    BY <1>3 DEF RecordRemaining, RowStatus
  <2> QED
    BY <2>1, <2>2, <2>3, <2>4, <2>5, <2>6, <2>7
<1>4. CASE RecordFailed
  <2>1. TypeOK'
    BY <1>4 DEF RecordFailed, Entries
  <2>2. LedgerHonest'
    BY <1>4 DEF RecordFailed
  <2>3. MailedOnce'
    BY <1>4 DEF RecordFailed
  <2>4. Over'
    BY <1>4 DEF RecordFailed
  <2>5. InTurn'
    BY <1>4 DEF RecordFailed, Entries
  <2>6. CurrentEntry'
    BY <1>4 DEF RecordFailed, Entries
  <2>7. VerdictConsistent'
    BY <1>4 DEF RecordFailed
  <2> QED
    BY <2>1, <2>2, <2>3, <2>4, <2>5, <2>6, <2>7
<1>5. CASE CountRemaining
  <2>a. tally' \in [{"sent", "failed", "skipped"} -> Nat]
    BY <1>5, IncrementTyped DEF CountRemaining
  <2>1. TypeOK'
    BY <1>5, <2>a DEF CountRemaining, Entries
  <2>2. LedgerHonest'
    BY <1>5 DEF CountRemaining, Increment, Field, RowStatus
  <2>3. MailedOnce'
    BY <1>5 DEF CountRemaining, Increment, Field, RowStatus
  <2>4. Over'
    BY <1>5 DEF CountRemaining, Increment, Field, RowStatus
  <2>5. InTurn'
    BY <1>5 DEF CountRemaining, Entries
  <2>6. CurrentEntry'
    BY <1>5 DEF CountRemaining, Entries
  <2>7. VerdictConsistent'
    BY <1>5 DEF CountRemaining, Increment, Field, RowStatus
  <2> QED
    BY <2>1, <2>2, <2>3, <2>4, <2>5, <2>6, <2>7
<1>6. CASE RemainingRecorded
  BY <1>6 DEF RemainingRecorded
<1>7. CASE Finish
  BY <1>7 DEF Finish
<1> QED
  BY <1>1, <1>2, <1>3, <1>4, <1>5, <1>6, <1>7 DEF Record

LEMMA EnvironmentInv ==
  ASSUME IInv, Stop \/ Crash \/ (\E e \in Entries : ChangeSuppression(e))
  PROVE  IInv'
<1> USE TotalAssumption, MaxAttemptsAssumption
    DEF IInv, TypeOK, LedgerHonest, MailedOnce, Over, InTurn, CurrentEntry,
        VerdictConsistent, Stops, Live, Untouched, Composing, Sending, Resting, Gone,
        durable, world
<1>1. CASE Stop
  BY <1>1 DEF Stop
<1>2. CASE Crash
  BY <1>2 DEF Crash
<1>3. CASE \E e \in Entries : ChangeSuppression(e)
  BY <1>3 DEF ChangeSuppression
<1> QED
  BY <1>1, <1>2, <1>3

LEMMA RecoveredTally ==
  ASSUME rows' \in [Entries -> Seq(RowStatuses)], tally' = Recount'
  PROVE  tally' \in [{"sent", "failed", "skipped"} -> Nat]
<1>1. \A S : Cardinality(Rows(S)') \in Nat
  BY CountInNat DEF Rows
<1>2. tally' = [sent |-> Cardinality(Rows({"sent"})'), failed |-> Cardinality(Rows(Failures)'),
                skipped |-> Cardinality(Rows(Skips)')]
  BY DEF Recount, Failures, Skips, Stops
<1> QED
  BY <1>1, <1>2

LEMMA RecoverInv ==
  ASSUME IInv, Recover
  PROVE  IInv'
<1>1. rows' \in [Entries -> Seq(RowStatuses)]
  BY RecoveredRowsTyped DEF Recover, RecoveredRows, IInv, TypeOK
<1>2. TypeOK'
  BY <1>1, RecoveredTally
  DEF Recover, IInv, TypeOK, world, Started, Terminal, Stops
<1>3. LedgerHonest'
  BY RecoveredRowsTyped DEF Recover, IInv, TypeOK, LedgerHonest, world
<1>4. (MailedOnce /\ Over /\ InTurn)'
  BY DEF Recover, IInv, MailedOnce, Over, InTurn, world, Gone
<1>5. (CurrentEntry /\ VerdictConsistent)'
  BY DEF Recover, CurrentEntry, VerdictConsistent, Untouched, Composing, Sending, Resting
<1> QED
  BY <1>2, <1>3, <1>4, <1>5 DEF IInv

LEMMA NextInv == IInv /\ [Next]_vars => IInv'
<1> SUFFICES ASSUME IInv, [Next]_vars
             PROVE  IInv'
  OBVIOUS
<1>1. CASE Execute
  BY <1>1, LoadInv, PrepareInv, ProcessItemInv, SendInv, RecordInv DEF Execute
<1>2. CASE Stop \/ Crash \/ (\E e \in Entries : ChangeSuppression(e))
  BY <1>2, EnvironmentInv
<1>3. CASE Recover
  BY <1>3, RecoverInv
<1>4. CASE UNCHANGED vars
  BY <1>4
  DEF vars, IInv, TypeOK, LedgerHonest, MailedOnce, Over, InTurn, CurrentEntry,
      VerdictConsistent
<1> QED
  BY <1>1, <1>2, <1>3, <1>4 DEF Next

LEMMA OutcomeKept ==
  ASSUME IInv, Next, status \in Terminal
  PROVE  /\ pc \in {"done"} \union Gone /\ ~Execute /\ ~Recover
         /\ UNCHANGED <<durable, mailed>>
<1>1. pc \in {"done"} \union Gone /\ status \notin Started
  BY DEF IInv, Over, Terminal, Stops, Started
<1>2. ~Execute /\ ~Recover
  BY <1>1
  DEF Gone, Execute, Load, LoadSnapshot, LoadFailed, SnapshotRefused, LoadStopped, SenderReady,
      PreparationFailed, Prepare, BeginExecution, BeginStopped, ConverterMissing,
      SharedReady, SharedFailed, ProcessItem, TakeItem, StopAtItem, AllProcessed,
      InsertDelivery, ReadDelivery, CreateStopped, CreateFailed, ItemReady, ItemFailed,
      SignatureFailed, CheckSuppressed, ItemComposed, Send, StartAttempt, AttemptStopped,
      ProviderAccepts, SendSucceeded, SendFailed, Retry, Record, UpdateDelivery,
      CountDelivery, RecordRemaining, RecordFailed, CountRemaining, RemainingRecorded,
      Finish, Recover, Proceed, GoTo
<1> QED
  BY <1>1, <1>2 DEF Next, Stop, Crash, ChangeSuppression, durable

LEMMA Invariance == Spec => []IInv
  BY InitInv, NextInv, PTL DEF Spec
-----------------------------------------------------------------------------
(* Theorems *)

\* Every variable stays in its type: in particular the attempts never exceed
\* maxDeliveryAttempts and the loop of executeSend never leaves the snapshot.
THEOREM TypeCorrect == Spec => []TypeOK
<1>1. IInv => TypeOK
  BY DEF IInv
<1> QED
  BY <1>1, Invariance, PTL

\* However the execution is stopped, crashed and recovered and whatever
\* statements fail, message_deliveries never claims more than the provider has
\* accepted, and never denies an entry that was mailed by calling it skipped.
THEOREM LedgerTruthful == Spec => []LedgerHonest
<1>1. IInv => LedgerHonest
  BY DEF IInv
<1> QED
  BY <1>1, Invariance, PTL

\* sendWithRetry mails an address once, over all restarts, unless a reply is
\* lost, and then at most maxDeliveryAttempts times.
THEOREM NoDuplicates == Spec => []MailedOnce
<1>1. IInv => MailedOnce
  BY DEF IInv
<1> QED
  BY <1>1, Invariance, PTL

\* Once finishTerminated, finishCompleted or recovery has given the task its
\* outcome, no later step sends, records or counts anything.
THEOREM OutcomesFinal == Spec => OutcomeFinal
<1>1. IInv /\ [Next]_vars => [(status \in Terminal) => UNCHANGED <<durable, mailed>>]_vars
  BY OutcomeKept
<1> QED
  BY <1>1, Invariance, PTL DEF Spec, OutcomeFinal

\* FinalizeInterruptedTask leaves no open row and no entry without a row, and
\* the tally it writes is the count of the rows, whatever a crash has left.
THEOREM RecoveryRepairs == Spec => RecoveryExact
<1>1. IInv /\ [Next]_vars =>
        [status' # status /\ pc \in {"down", "forgotten"} =>
           /\ Rows(Open)' = {}
           /\ tally' = Recount'
           /\ pc = "down" => (\A e \in Entries : Len(rows'[e]) > 0)]_vars
  <2> SUFFICES ASSUME IInv, Next, status' # status, pc \in {"down", "forgotten"}
               PROVE  /\ Rows(Open)' = {}
                      /\ tally' = Recount'
                      /\ pc = "down" => (\A e \in Entries : Len(rows'[e]) > 0)
    OBVIOUS
  <2>1. ~Execute
    BY DEF Execute, Load, LoadSnapshot, LoadFailed, SnapshotRefused, LoadStopped, SenderReady,
        PreparationFailed, Prepare, BeginExecution, BeginStopped, ConverterMissing,
        SharedReady, SharedFailed, ProcessItem, TakeItem, StopAtItem, AllProcessed,
        InsertDelivery, ReadDelivery, CreateStopped, CreateFailed, ItemReady, ItemFailed,
        SignatureFailed, CheckSuppressed, ItemComposed, Send, StartAttempt, AttemptStopped,
        ProviderAccepts, SendSucceeded, SendFailed, Retry, Record, UpdateDelivery,
        CountDelivery, RecordRemaining, RecordFailed, CountRemaining, RemainingRecorded,
        Finish, Proceed, GoTo
  <2>2. Recover
    BY <2>1 DEF Next, Stop, Crash, ChangeSuppression, durable
  <2>3. /\ rows \in [Entries -> Seq(RowStatuses)]
        /\ rows' = RecoveredRows /\ tally' = Recount'
    BY <2>2 DEF Recover, IInv, TypeOK
  <2>4. \A e \in Entries : \A i \in DOMAIN rows'[e] : rows'[e][i] \notin Open
    BY <2>3, RecoveredRowsTyped
  <2>5. Rows(Open)' = {}
    BY <2>4 DEF Rows, Open
  <2>6. pc = "down" => (\A e \in Entries : Len(rows'[e]) > 0)
    <3>1. \A e \in Entries : pc = "down" => rows'[e] # <<>> /\ rows'[e] \in Seq(RowStatuses)
      BY <2>3, RecoveredRowsTyped
    <3>2. \A s \in Seq(RowStatuses) : s # <<>> => Len(s) > 0
      OBVIOUS
    <3> QED
      BY <3>1, <3>2
  <2> QED
    BY <2>3, <2>5, <2>6
<1> QED
  BY <1>1, Invariance, PTL DEF Spec, RecoveryExact
=============================================================================
