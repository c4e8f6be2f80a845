# Bulk Mail: specifications and proofs

TLA+ models of the parts of Bulk Mail whose correctness depends on the order in
which things happen, the TLC configurations that check them on small instances,
and TLAPS proofs of what they promise for every instance.

Paths below are relative to the root of the repository. `PROJECT.json` lists the
components, the runs, the mutants every property is tried on, the lines each
definition models, the hazards and the theorems.

## The system

Bulk Mail is one Go process with a loopback HTTP server, a SQLite database with
a single connection, a directory of staged task inputs and a Vue frontend. A
campaign is submitted as a *task*; a pool of workers executes tasks; an execution
sends one message, or generates one document, for each address entry, and
records what became of each.

```
 browser --HTTP--> server --> CampaignService --> tasks.Queue --> Runner (workers)
    ^                            |    ^               |              |
    |  SSE (task events)         |    +--- execute ---+--------------+
    +------- hub <-- notify -----+          |
                                 store (SQLite)      prepareCampaignItems (goroutine)
                                 task-queue/ (files) LibreOffice, SMTP or Gmail
```

### Inventory

| Component | State | Operations | Interacts with | What is hard | What makes it correct |
|---|---|---|---|---|---|
| Task queue, runner, staged input (`internal/tasks`) | `tasks` and `task_inputs` rows, `data/task-queue/`, `runner.active`, the `wake` channel, `closed` | Submit, claim, Cancel, Shutdown, Start (recover, reconcile, prune) | store, the execution callback, HTTP handlers | five kinds of goroutines, a crash between file system and database, lost wake-ups | an accepted task runs at most once, has its input until then, gets one outcome; nothing is left over |
| Campaign execution, sending (`internal/app/campaigns.go`, `campaign_tasks.go`) | `message_deliveries` rows, the tallies and status of the task | load, prepare, send with retries, record, terminate, recover | queue, store, senders, pipeline | cancellation at any step, statements that fail and are ignored, lost replies, a crash | one final outcome per entry; the report agrees with what was sent |
| Attachment budget and pipeline (`attachment_budget.go`, `attachments.go`, `campaigns.go`) | budget, two bounded channels, items in flight | reserve, release, hand over, drain | converter, suppressions, the consumer's loop | two goroutines, three bounded resources, every exit path returns them | nothing leaks, nothing deadlocks, items arrive in order |
| Submission and preflight (`QueueCampaign`, `Preflight`) | the snapshot of campaign, list, profile | validate, confirm, capture, submit, save and delete campaigns | store, queue, lists | the inputs change between the preflight, each read and the start | a task executes what the operator confirmed, of a campaign that exists |
| Document generation and archives | temporary archive, map of archives | generate, take once, Close | queue, HTTP | archive registered after Close, taken twice | an archive is handed out once and always removed |
| Delivery service and senders (`internal/mail`) | an SMTP session, OAuth tokens | connect, send, classify an error | provider | timeouts and lost replies | transient failures are retried, others not |
| SMTP detection | none | build candidates, probe | network | order and number of candidates | each endpoint probed once, best first |
| Google OAuth (`server/google_oauth.go`) | pending attempts | start, callback, expire | profiles, browser | a callback racing a second start or an edit | a state is used once, for its profile |
| Sender profiles and credentials (`server/profiles.go`, `store`) | `smtp_profiles`, `profile_credentials` | save, delete, connect, test | OAuth, queue | a save decides from a row that another request replaces before it commits | credentials and row agree; a profile a task holds does not change |
| Address lists, entries, suppressions | lists, field definitions, rows with compacted ids | batch writes, merge of fields | campaigns, frontend | every write of a batch commits on its own and renumbers what follows; definitions are read once per batch | a batch edits the entries it was given, the ids stay 1, 2, ... |
| Task events (`server/task_events.go`) and the views of tasks and reports | dirty set, subscribers' channels, task list, open report | mark, coalesce, broadcast, subscribe, snapshot, read a report | execution, frontend | slow subscribers, a snapshot against older events, an answer overtaken by an event | a tab ends with the final report |
| HTTP server, start and shutdown (`internal/server`, `cmd`) | phase, listener, database | start, serve, shut down | all | shutdown timeout, two processes on one directory | workers end before the database is closed |
| DOCX and LibreOffice, templates, MIME, configuration, other views, build scripts | little or none | conversion, formatting | | wording and layout | see Not modelled |

The hazards of each, with the line where they bite, are in `PROJECT.json`; a
hazard without a property has a note that says why.

## The modules

| Module | Models |
|---|---|
| `TaskLifecycle` | abstract: the life of a task, as a user sees it |
| `TaskQueue` | `internal/tasks` and the queue statements of the store |
| `MCTaskQueue` | instances of it |
| `TaskQueueProofs`, `TaskQueueRefinement` | its inductive invariant and what follows from it; that it implements `TaskLifecycle` |
| `DeliveryLedger` | abstract: what the report of a task says of its entries |
| `CampaignSend` | one execution of a send task, a crash and its recovery |
| `CampaignSendProofs`, `CampaignLedgerProofs` | its inductive invariant; that it implements `DeliveryLedger`, with the tally and the suppressions |
| `AttachmentPipeline` | the producer, the consumer and the budget inside one execution |
| `MCAttachmentPipeline`, `AttachmentPipelineProofs` | instances of it; proofs about it |
| `SenderProfiles` | profiles, credentials, OAuth attempts and the tasks that hold a profile, under concurrent requests |
| `MCSenderProfiles`, `SenderProfileProofs` | an instance of it; proofs about it |
| `AddressBook` | lists, field definitions and batches of entry writes, under concurrent requests |
| `CampaignDesk` | extends it by saved campaigns, preflight, submission and start |
| `MCCampaignDesk`, `CampaignDeskProofs` | an instance of both; proofs about both |
| `Generation` | one execution of a generation task, its archive and the downloads |
| `TaskStream` | composes it with the event hub, one tab's stream, task list and report |
| `TaskStreamProofs` | proofs about `Generation` and `TaskStream` |

### TaskQueue

A *submission* names the task it creates and, because storage keys are random
and fresh, its directory. A store method is one transaction on the only
connection, hence one step; a file-system call is a step of its own.

| State | Code |
|---|---|
| `status`, `id`, `lastId`, `inputs` | `tasks` and `task_inputs` |
| `staging`, `dirs` | `.staging-*` and published directories of `data/task-queue` |
| `active`, `wake`, `cancelling` | `runner.active` and the causes of its contexts, the buffered `wake` channel, the section of `Runner.Cancel` that holds `runner.mu` across a transaction and a removal |
| `sub`, `wpc`, `wtask` | where each `Queue.Submit` and each worker stands |
| `phase`, `todo`, `rstep`, `retained` | start, recovery, reconciliation, serving, closed |

`StageBegin`..`SubmitNotify` are `Queue.Submit`; `Claim`..`WaitStopped` the loop of
`Runner.worker`; `MarkRunning`..`ExecuteAborted` the execution as far as the queue can
tell; `TakeInput`, `RemoveInput`, `ReleaseActive` the deferred release;
`CancelActive`, `CancelQueued`, `CancelQueuedRemove` are `Runner.Cancel`; `Shutdown`
and `Exit` the end of the process at any point; `Boot`..`StartRunner` is
`Queue.Start`. `Faults` says which kinds of operations may fail.

### CampaignSend

One execution, because `TaskQueueProofs!NeverResumed` shows that a task has no
second one. `rows[e]` holds the delivery rows of entry `e` (emails are unique in
a list), `tally` the counters of the task, `mailed[e]` how many messages the
provider accepted; `pc` follows `ExecuteCampaignTask`, `executeSend`,
`sendWithRetry`, `recordRemaining` and the `finish...` functions statement by
statement, because each statement can fail and most errors are ignored. `cause`
is the end of the task's context: a statement that is given this context fails
once it has ended, one with the background context does not. `Stop` and `Crash`
can happen at any step, `Recover` is `FinalizeInterruptedTask` of the next start.
`Ambiguous` lets the reply to an accepted message be lost (a timeout, or a Gmail
response that cannot be read); `DbFails` lets every statement fail.

`DeliveryLedger` is what this amounts to for the reader of the report: entries
are settled in order and for good, the outcome of the task agrees with them,
a stopped task leaves at most one entry open, or all of them, and a task that is
refused leaves all of them. The last is `SnapshotRefused`: when `prepareCampaign` or the
validation refuses the snapshot, `validateCampaignTaskSnapshot` returns no campaign,
`finishPreparationFailure` gets no entries, and the task ends as
`completed_with_errors` without a row. A DOCX whose XML does not parse gets there, because
neither saving nor queueing a campaign looks into it.

### AttachmentPipeline

The producer (`prepareCampaignItems`) and the consumer (`executeSend`) with the
budget, the channels `ready` and `admission`, and the two contexts. `waits[t]` is
a thread that holds the channel `release` will close. An action is a critical
section of `budget.mu`, a channel operation, or the work between two of them; a
`select` with two ready cases is a choice. What is recorded of an item is
`CampaignSend`'s subject, so the consumer's loop is reduced to what it does with
the item: prepare inline, send, give back, drain.

### SenderProfiles

Every request is served once and is a process: `req[r]` says what it does, how
far it is (`at`), and which row it has read (`seen`). The database has one
connection, so a transaction is one step, and what a handler reads before its
transaction may be stale in it. Of a profile its type is kept, of a credential
that it is there; a row also carries the request that wrote it (`by`, a version,
because a request writes once) and whether that write was decided from the row it
replaced (`fresh`, a history field).

| Actions | Code |
|---|---|
| `SaveReads`, `SaveVerifies`, `SaveCommits`, `Answers` | `saveSMTPProfile` and `SaveSMTPProfileWithCredentialChanges` |
| `Delete` | `DeleteSMTPProfile` |
| `StartChecks`, `StartMutable`, `StartRegisters`, `Expires` | `handleGoogleOAuthStart` and the lifetime of an attempt |
| `CallbackTakes`, `CallbackReads`, `CallbackCommits` | `handleGoogleOAuthCallback` before and after Google has answered |
| `ProfileReads`, `Enqueues`, `SenderForTask`, `Settles`, `Probes` | a submission, its task, and the test of a profile |
| `Fails` | every other way a request in flight is refused |

### AddressBook and CampaignDesk

`lists` and `rows` are the tables of lists, field definitions and entries. A batch
of entry writes (`BatchStarts`..`BatchEnds`, `WriteAddressEntries`) holds the mutex
`entryWrites` (`writer`) from its read of the list to its last write, each write
being a transaction; `SaveList` and `DeleteList` do not take the mutex. The ids of
entries are their positions: `Compact` is the renumbering after a deletion.

`CampaignDesk` adds the campaigns that refer to a list (`CampaignChecks`,
`CampaignStores`, `DeleteCampaign`), and the way from what an operator sees to what a
task does: `Preflight` computes the placeholders that stay unfilled,
`QueueReads`, `QueueCaptures` and `QueueEnqueues` are `QueueCampaign` with its two
reads and its write, `Starts` is the validation in `ExecuteCampaignTask`.

### Generation and TaskStream

`Generation` is `executeGeneration` statement by statement, as `CampaignSend` is
`executeSend`: `rows`, `task`, `processed` and the program counter `pc`; and beside it
the archive: its `file`, whether the service holds it (`registered`), and how many
requests serve it. A snapshot is loaded (`Loads`) or refused (`Refuses`), and the row of an
entry is inserted (`RecordsEntry`) and read back (`ReadsEntry`) in two steps: if the context
ends in between, the row stays and the entry is recorded once more with the remaining
ones. `Cancels`, `ShutsDown` and `ServiceCloses` end things from outside.
`unmarked` is the gap between a commit and `MarkChanged`.

`TaskStream` lets one tab watch: the hub's loop (`HubWakes`, `HubCollects`,
`HubReads`, `HubSends`), the handler (`Connects`, `SendsSnapshot`, `Forwards`,
`StreamEnds`, and `Breaks` for a lost connection), and the tab's task list and report
(`Views`, `Reads`, `Loaded`). `Reads` are the three reads of `writeTaskReport`, with
steps of the execution in between.

## What is checked

| Run | Instance | States (time) | Shows |
|---|---|---|---|
| `queue_faults` | 2 submissions, 2 workers, all faults | 325 k (20 s) | types, inputs, ownership, at-most-once, wake-ups, clean start |
| `queue_lifecycle` | 3 submissions, 2 workers, `MaxQueued` 2, no fault | 976 k (2.5 min) | refinement of `TaskLifecycle`: FIFO, bounded, one outcome; no sleeper missed, no orphaned row or directory |
| `queue_liveness` | 2 submissions, 2 workers | 170 k (1.5 min) | queued tasks are taken while a worker is free, shutdown drains, start completes |
| `queue_release` | as above | violation | see Findings |
| `send_faults` | 2 entries, 3 attempts, lost replies, failing statements | 1.6 M (30 s) | honest rows, bounded duplicates, exact recovery, final outcomes |
| `send_ledger` | 3 entries, 2 attempts, no lost reply, no failing statement, fairness | 155 k (1 min) | refinement of `DeliveryLedger`, closed tallies, nobody is mailed while suppressed, an execution ends or waits for the attachment budget |
| `send_unsent` | 2 entries | violation | see Findings |
| `pipeline_safety` | 4 entries of sizes 2, 0, 3, 6, or all of size 1; budget 5; shared documents of 1 unit that convert to 1, or to 5, for which the campaign waits holding 1 itself; cancellation | 151 k (1 min) | balance, order, wake-ups, cancellation returns everything; if everything fits, nobody waits and the pipeline ends |
| `pipeline_budget` | shared 2, entries 2, budget 3 | violation | see Findings |
| `sender_profiles` | 3 requests, 2 profile ids | 141 k (10 s) | credentials and row agree, an OAuth state is used once, an admitted task finds its credential, a deleted profile stays deleted |
| `campaign_desk` | 3 requests, 2 lists, 2 campaigns, batches of up to 3 writes, `MaxFields` 1, `MaxEntries` 3, `MaxQueued` 1 | 236 k (30 s) | batches renumber without hitting other entries, references hold, no run starts with an unconfirmed placeholder that no entry fills |
| `generation_events` | 1 entry, channels of 1, 1 view | 374 k (1 min) | archives are kept and offered, reports are whole, a tab ends with the final report |

Every property of a passing run has a mutant: a plausible mistake in a
definition that TLC then finds by that property. The mutants are written next to
the definitions they replace and are marked as such.

### Bounds, and why they are enough

* **Queue.** Two workers and two tasks are the least at which a claim can race a
  claim, a cancellation and a wait; three tasks with `MaxQueued` 2 make the bound
  bite and give the order of claims something to confuse. Submissions and
  workers are symmetric in the safety runs. Restarts are not bounded: the state
  is finite without it. `runs` counts executions and is what `AtMostOnce` is about.
* **Faults of sending.** Lost replies and failing statements are in `send_faults`
  only: with them the tallies need not close and the ledger is not implemented,
  which is why `send_ledger` is an instance of its own.
* **Sending.** The entries are handled one after the other, so what a
  termination can do wrong concerns the entry in flight, the ones before it and
  the ones after: three entries (`send_ledger`) have one of each. Two attempts have a first
  and a last, three (`send_faults`) also one in between. `attempt` and `mailed` are bounded by
  `MaxAttempts`, and nothing else grows.
* **Pipeline.** The capacities are the code's, 3 and 2. At most four entries are
  on their way at a time (one sent, two ready, one being made), and four entries
  let the producer run ahead, wait and finish. Sizes are in units: what matters is
  what fits together. With sizes of 1 the budget is tight: the shared documents,
  before and after conversion, and the documents of three entries take all 5 units,
  and with one unit less someone waits. That the shared attachments that are not documents fit
  the limit is assumed (`SizesAssumption`), so `acquire` never refuses them: an attachment has
  at most 10 MiB, a campaign at most 5 of them, a request at most 80 MiB, and the budget is
  200 MiB.
* **Requests.** Each of `SenderProfiles` and `CampaignDesk` is served three requests, the least
  with which two can interfere while a third has set the scene (a sign-in needs a
  start before its callback, and a save in between). Two ids of each table are one
  that is there at the start and one that is handed out. What the requests bring
  is enumerated in `MCCampaignDesk`: deletions in either order, of one id twice and of a
  missing id, updates that swap and duplicate addresses, inserts of new and
  known ones, with and without a field definition. The limits `MaxFields` 1, `MaxEntries` 3,
  `MaxQueued` 1 are the settings made small enough to be reached. `SenderProfileProofs`
  and `CampaignDeskProofs` have no such bounds.
* **Events.** One entry is enough for the events: what can go wrong with them is an end that
  is missed, overtaken or dropped, and the task changes three times before it. A channel of
  one is full after one event. One view is one report, whose reads fall anywhere
  between these changes. Two entries make 1.1 M states, for
  which checking liveness takes too long. That safety does not depend on these bounds is proved in
  `TaskStreamProofs`.

### Fairness

`TaskQueue!Fairness` and the `FairSpec` of the other modules assume weak fairness of
the goroutines' own steps: the Go scheduler runs what can run, and a send, a
conversion and a statement end because each has a timeout or a local answer. A
step that may wait for the attachment budget is excepted while the task is live, because
the wait need not end (`pipeline_budget`): `AtBudget` in `CampaignSend` and `Generation`,
and in `TaskQueue`, which does not look into an execution, `MayWait` for the whole of one. An
execution whose context has ended does end. Hence `ExecutionEnds` allows an execution
to stay `AtBudget`, and `QueuedTaskLeaves` allows every worker to be held up in one. A claim
is assumed not to fail for ever. In `TaskStream` the fair processes are
the execution with its marks, the hub's loop and timer, the handler together with the
browser, which reconnects an `EventSource` by itself, and the report request the tab
waits for; not the user who opens a report, a connection that breaks or the
shutdown. `SenderProfiles` and `CampaignDesk` have no liveness: a request ends because
its handler is a sequence of statements. No fairness is assumed of users,
of cancellations, crashes or failures, so no progress property relies on
them, and every one is stated for the case that the process lives.

## What is proved

Every safety invariant, every action property and both refinements that a passing
run checks are also proved, for every value of the constants that the code allows.
The hypotheses a theorem adds to that are named with it.

For every set of submissions, every finite non-empty set of workers, every
positive `MaxQueued` and every set of faults (`TaskQueueProofs`, assumptions
`SubmissionsAssumption`, `WorkersAssumption`, `MaxQueuedAssumption`,
`FaultsAssumption`):

* `TypeCorrect`, `InputSurvives`, `ExecutionExclusive`, `NeverResumed`, `WakeupsKept`,
  `StartsClean`: the properties of `queue_faults`.
* The argument. None of the properties is inductive. `AtMostOnce` needs to know
  that a started task is never claimed again, hence that recovery settles every
  started task before a worker starts (`RecoveryConsistent`), and that outside
  the serving phases no goroutine is left (`QuietUnlessServing`). `InputAvailable`
  needs that a task whose directory is being removed is not queued
  (`CancellationConsistent`, `SubmittersConsistent`). `ExclusiveExecution` needs the
  worker's counter to agree with what it owns (`WorkersConsistent`). `IInv` is the
  conjunction of the properties and these facts; `NextInv` goes through Next one
  group of actions at a time.
* `QueueImplementsLifecycle` (`TaskQueueRefinement`): every step of `TaskQueue` is a
  step of `TaskLifecycle` or leaves it alone. `SlotFree` is the counting argument: the
  tasks in execution have different owners, so a worker about to claim leaves room
  for one more.
* `StorageAccounted`: `NoOrphans`, if `"take"` and `"remove"` are not among the faults (a
  removal that fails does leave its directory, until the next start). To `IInv` it adds that
  a worker about to give its input back still has it (`HoldsInput`).
* `SleepersWoken`: `EverySleeperWoken`, if `"claim"` is not among the faults. The sleepers are
  counted: a wake-up takes one token and one sleeper away, and a task that is
  announced later is announced by a notification, which fills the channel.
* `LimitsKept`: at most `MaxQueued` tasks wait and at most one per worker is active, over any
  number of restarts. Only `Enqueue` adds to the queue (`QueueShrinks`), and it counts in
  the transaction that inserts; the active tasks are injected into the workers
  (`ActiveBounded`). They hold whatever fails.

For every positive number of entries and attempts, with and without lost replies
and failing statements (`CampaignSendProofs`, assumptions `TotalAssumption`,
`MaxAttemptsAssumption`, `FlagsAssumption`):

* `TypeCorrect`, `LedgerTruthful`, `NoDuplicates`, `OutcomesFinal`, `RecoveryRepairs`: the
  properties of `send_faults`.
* The argument. An entry is untouched until its turn (`InTurn`), so a row or a message
  of it can only come from the turn itself; during the turn its row stays open,
  and its messages are fewer than its attempts, none at all if no reply is lost
  (`CurrentEntry`); the outcome about to be written agrees with what was accepted
  (`VerdictConsistent`). That gives `LedgerHonest` and `MailedOnce`. `OutcomeFinal` needs
  that a task gets its outcome in the last step of its execution (`Over`).
  `RecoveryExact` follows from what `RecoveredRows` does to a row
  (`RecoveredRowsTyped`) and, for the type of the tally, from the finiteness of the
  set of rows (`CountInNat`).

For every set of requests and every positive number of profile ids
(`SenderProfileProofs`, assumption `ProfilesAssumption`):

* `Typed`, `CredentialsFit`, `BackedIfDecided`, `AttemptIsUsedOnce`, `AdmittedSends`,
  `DeletedIsForGood`: the properties of `sender_profiles`.
* The argument, in three invariants. `BInv`: the types, which stages a request of each kind
  can be in, and that ids without a row have been handed out already or still will be, with
  `CredentialsFitType`, which each transaction establishes whatever it was decided
  from. `AInv`: every attempt that is pending, or that a callback has taken, belongs to one
  start request that has ended, so a state let in by two callbacks would be pending
  and taken at once. `VInv`: a request writes once, so the version of a row
  tells whether it is still the row a request has read (`VersionsPast`); as long as
  it is, the credential the request counts on is there (`Basis`, one part for a save, one
  for a submission, one for a queued task). For a queued task the row cannot
  change, because every writer refuses a profile in use.

For every positive number of entries, capacity of a channel and number of views
(`TaskStreamProofs`, assumptions `GenerationAssumption`, `StreamAssumption`):

* `ArchiveIsKept`, `ArchiveIsOffered`, `ReportIsWhole`: the safety properties of
  `generation_events`.
* The argument. The file of the archive follows the execution and then its one owner:
  the map, or the request that has taken it (`FileFollows`). The rows are always of one of three
  shapes (`RowsInOrder`): one row for each entry up to `processed` and none for the others, the
  same with a row of the next entry that has not been read back, or with an entry that has
  two, once an insert could not be read back (`Recorded`, `Unread`, `Repeated`); an execution that
  finishes has recorded all (`RecordedAtEnd`), which gives `Accounted` (`EndAccounted`). The status is
  terminal only when the execution is over (`EndsLast`); so a report that has read
  a terminal status reads rows that do not change any more (`ReadAfterEnd`).

About the report of a send task (`CampaignLedgerProofs`, the same assumptions):

* `SuppressionIsHonoured`, with and without failing statements: an entry that has no row yet is
  not on its way to the provider, and once its address is suppressed it does not get there
  (`SparedStep`).
* `SendImplementsLedger` and `TallyIsClosed`, if no statement fails (`~DbFails`); with failing
  statements neither holds, which is why `send_ledger` excludes them.
* The argument for the refinement: the report shows the outcome of the last row of each entry.
  `Ahead` (nothing is reported before its turn), `Behind` (at most one entry is passed over, and only
  by a task that has been stopped) and `VerdictsInTurn` make each recorded outcome the ledger's next
  step, a refused snapshot is its `Refuse` (`RefinesRefused`), and `FailuresCounted` makes the outcome of the task agree with them.
* The argument for the tally: `Tallied` relates each counter to the entries behind the one in
  turn that have that outcome, `RowShape` says which entries have a second row, and
  the counting lemmas relate numbers of rows to numbers of entries. The entries
  are counted by cardinality, so one more entry is one more element and no
  induction is needed.

For every number of entries, every size of their documents, every budget and every capacity of
the two channels (`AttachmentPipelineProofs`, assumptions `SizesAssumption`,
`CapacitiesAssumption`, `MayCancelAssumption`):

* `PipelineTypeCorrect`, `SleepersWaitForBytes`, `NothingLeaks`, `ItemsComeInOrder`,
  `NobodyHasToWait`: the safety properties of `pipeline_safety`.
* The argument. `Account` is `Balanced` item by item (the item taken, those in the channel, the one
  being made), so that a step changes one summand; `Places` says where the two goroutines
  can be together and what is reserved for good there; `Sizing` that an item holds the
  bytes of its documents or none; `Sequenced` that the indices on their way are
  consecutive, ending at the last one handed over. `WaitsForBytes` is kept because a release wakes
  everybody (`ReleaseWakes`). `NeverWaits` follows: the entries on their way are an interval
  of at most `Admission` entries, what they hold is within what `Fits` grants them, and the one that
  waits holds nothing yet (`RoomForOneMore`).
* `ReleasesAreCovered`: a release finds the bytes it gives back in use (`release` panics
  otherwise) and the token it takes in its channel. `NoMutualWait`: the consumer never waits
  for an item while the producer waits for a token or for room in `ready`, for any
  capacities, those the configuration cannot produce included. Both follow from `IInv` alone.
* What sizes add up to is the number of bytes (`Bytes`, a cardinality), so that sums are compared by
  injections (`BytesWithin`) and extended by one (`BytesMore`).

For every set of requests and everything they bring, within the limits of the settings
(`CampaignDeskProofs`, assumptions `AddressBookAssumption`, `BooksAssumption`,
`CampaignDeskAssumption`):

* `DeskTypeCorrect`, `ListsWellFormed`, `ReferencesAreHeld`, `NothingIsUnconfirmed`,
  `BatchesAccountable`: the properties of `campaign_desk`, and the types of its variables.
* The argument, in two invariants. `IInv`: the ids of a list are an interval and its addresses
  differ (`TablesTidy`), an id that has been deleted is not handed out again (`Gone`), what a request
  holds is of its kind and fits the definitions, which only grow (`RequestsSound`), and the
  lists that campaigns refer to exist (`ListsThere`). `BatchInv`: the request that is merging or
  writing holds the mutex, what it has done is of its operation (`Kinds`), deletions run
  downwards (`Descending`), and the list is what the account of the batch says. For a deletion
  this is the step a test would hardly cover: the entries below the deleted id keep their place in
  the account, those above it move down by one in the rows and in the account alike.

Two properties of the models came out of the attempts to prove something. The `CASE` by
which `CampaignSend!Finish` chose the outcome of a task had overlapping guards, so its value was
not determined; it is now the chain of `if`s the code has. And sorting and sums, which were
written with folds and a sort of the library that the prover cannot unfold, could not be
reasoned about; they are now written by counting (`Highest`, `Ascending`, `Bytes`): the element with
n - 1 elements before it, the number of bytes.

Only model-checked: everything under fairness, for which the prover has no rules: `QueuedTaskLeaves`,
`ShutdownDrains`, `StartCompletes`, `ExecutionEnds`, `CancelReleases`, `EndsIfFits` and
`ReportShowsEnd`; and the three violations under Findings, which are behaviours and not theorems.

## Findings

* `queue_release`: `ExecuteCampaignTask` returns without an outcome when a
  cancellation reaches it inside `GetTask`, and the deferred release deletes the
  input all the same. `docs/architecture.md:41` says "Task input files are removed after
  every terminal outcome". Read literally this holds, for it does not say that they are
  removed only then; but without that there is no sense in keeping them, and `queue_release`
  shows one removed before. The next start marks the task interrupted but can name
  none of its recipients.
* `send_unsent`: the update to `sent` is made with the context of the task and its
  error is ignored. A cancellation just after the provider has accepted the
  message leaves the row `attempted`; the report counts it as "failed / unsent" and
  advises to import those into a new campaign, which mails the address again.
* `pipeline_budget`: `acquire` refuses what exceeds the budget by itself, and waits
  for ever for what exceeds it together with bytes that are not released before the
  campaign ends, or before the waiting consumer goes on. `EndsIfFits` in `pipeline_safety`
  gives the condition under which this cannot happen (`Fits`): shared attachments plus the
  documents of any three entries within the budget. With 200 MiB and 10 MiB of input it takes large
  converted output to get there; a cancellation gets out of it (`CancelReleases`).

## Abstractions

* Names, addresses, message bodies, diagnostics and timestamps are left out; an
  entry is a number, a storage key the submission that drew it.
* Timers are choices: a backoff, a pacing wait or a retry of a claim may end at any time.
* SQLite gives atomic statements and transactions in the order of the single
  connection; a crash keeps what was committed. A rename of a directory is atomic.
* In `CampaignSend` a failing statement has no effect; that a statement whose
  result is lost may have committed is modelled where the code has two steps
  (insertion and reading back).
* `RecoverInterruptedCampaignTask` that cannot read the input is the state
  `forgotten`, reached by a release, or by any crash if `DbFails`.
* In `Generation` a statement with the background context succeeds, and whether a document
  converts, is written and fits the archive is a choice per entry; the failures of the
  statements themselves are `CampaignSend`'s subject.
* `TaskStream` has one task and one subscriber: the hub's dirty set and its channels are per
  task and per subscriber, and nothing but the order in the channel connects them.
  Reads of the database succeed until the hub is closed (two hazards in
  `PROJECT.json` say what happens otherwise). Of the tab's report requests the latest is
  kept, because the answers of the others are dropped.
* In `SenderProfiles` the fields of a profile, the sealing of a credential and
  what Google answers are reduced to the type, to presence and to success or failure.
* In `AddressBook` an entry is its address and the set of fields it fills; the standard fields,
  the normalisation of names and values, and paging are left out. The batches are an
  enumerated set.

## Not modelled

* **A second process on the same data directory.** It would
  run recovery against rows the first process is working on; `TaskQueue` has one process.
* **The SMTP session** over several sends and the OAuth access token's renewal: an attempt is one
  step with an outcome in `CampaignSend`. **The classification of errors** by the text of a
  reply is a choice between transient and permanent there.
* **SMTP detection**: a pure function from DNS answers to candidates, and network probes; it
  stores nothing.
* **Suppressions as a table**: single statements on stable ids. Their effect on a run is in
  `CampaignSend` and `AttachmentPipeline`.
* **The samples a preflight renders, and the gate that admits one preflight at a time**: they
  change no state that is kept. The part of a preflight that matters later, the
  confirmation, is in `CampaignDesk`.
* **Rewriting of DOCX XML, LibreOffice, templates, personalization, MIME**: string and file
  formats without an order of steps to get wrong.
* **Tokens, origins and decoding of requests; configuration; the other views of the frontend**:
  read once, or hold no state that a later answer could overtake.
* **Failing reads in the hub**, see Abstractions.
* **Build scripts and CI**: no run-time state.

## Plan

In this order; each module with its mutants, and proofs where marked.

1. `TaskStream` with failing reads in the hub, and what a tab still promises then.
2. `SmtpDetection`, unique attachment filenames and profile normalisation as
   functions, checked against reference definitions.
3. `SenderSession`: the SMTP session over several sends, and the classification of errors.
4. `TwoInstances`: a second process that starts on the same data directory.
5. Proofs: the action properties behind the liveness of the queue (a claimed task does not
   return, a closed runner claims nothing), which need no fairness.
