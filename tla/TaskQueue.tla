----------------------------- MODULE TaskQueue -----------------------------
(***************************************************************************)
(* The durable task queue of internal/tasks with the queue tables of       *)
(* internal/store: submission, the worker pool, cancellation, shutdown, a  *)
(* crash at any point, and the recovery the next start performs.           *)
(*                                                                         *)
(* A task is named by the submission that creates it.  The random storage  *)
(* key Stage draws for a submission is fresh, so the submission names its  *)
(* staged directory too; id[s] is the tasks.id SQLite assigned.            *)
(*                                                                         *)
(* Every store method is one transaction on the only connection of the     *)
(* pool, so it is one step; every file-system call is a step of its own.   *)
(* runner.mu is held over several steps only while a queued task is being  *)
(* cancelled (see cancelling): everywhere else a critical section has one  *)
(* step that others can observe.                                           *)
(***************************************************************************)
EXTENDS Integers, FiniteSets

CONSTANTS
  Submissions,   \* the submissions that may be made; each names its task
  Workers,       \* the goroutines Runner.Start launches
  MaxQueued,     \* tasks.max_queued
  Faults,        \* which operations may fail: a subset of FaultKinds
  NoTask         \* "no task": not a submission

FaultKinds == {"stage", "enqueue", "claim", "status", "take", "remove"}

ASSUME SubmissionsAssumption == NoTask \notin Submissions
ASSUME WorkersAssumption == IsFiniteSet(Workers) /\ Workers # {}
ASSUME MaxQueuedAssumption == MaxQueued \in Nat \ {0}
ASSUME FaultsAssumption == Faults \subseteq FaultKinds

MaxConcurrent == Cardinality(Workers)

VARIABLES
  \* Durable: the tasks and task_inputs tables and data/task-queue.
  status,      \* status[s]: tasks.status, "absent" while there is no row
  id,          \* id[s]: tasks.id, 0 while there is no row
  lastId,      \* the last id SQLite handed out (AUTOINCREMENT)
  inputs,      \* the tasks that have a task_inputs row
  staging,     \* the submissions whose .staging- directory exists
  dirs,        \* the submissions whose published directory exists
  \* The process.
  phase,       \* where the process stands between start and exit
  active,      \* active[s]: the cause of the context in runner.active
  wake,        \* tokens in the runner.wake channel
  cancelling,  \* the queued task whose cancellation holds runner.mu
  sub,         \* sub[s]: where the goroutine of Queue.Submit stands
  wpc,         \* wpc[w]: where worker w stands
  wtask,       \* wtask[w]: the task worker w has claimed
  todo,        \* recovery: the interrupted tasks still to settle
  rstep,       \* recovery: what is next for the first task of todo
  retained,    \* reconciliation: the directories Prune must keep
  \* History, read by no step.
  runs         \* runs[s]: how often a worker has started to execute s

durable == <<status, id, lastId, inputs, staging, dirs>>
recovery == <<todo, rstep, retained>>
workers == <<wpc, wtask>>
vars == <<status, id, lastId, inputs, staging, dirs, phase, active, wake,
          cancelling, sub, wpc, wtask, todo, rstep, retained, runs>>

Terminal == {"completed", "completed_with_errors", "cancelled", "interrupted"}
Started == {"preparing", "running"}
Statuses == {"absent", "queued"} \union Started \union Terminal
Phases == {"down", "recovering", "reconciling", "sweeping", "open", "closed"}
Causes == {"none", "live", "cancelled", "interrupted"}
SubmitSteps == {"idle", "staging", "staged", "enqueued", "rejecting", "done"}
WorkerSteps ==
  {"exited", "claim", "wait", "retry", "execute", "take", "remove", "release"}

Queued == {s \in Submissions : status[s] = "queued"}

\* Mutant: a task that has its input is claimed whatever its status, as if a
\* started task were resumed.
ClaimableResuming == (Queued \union {s \in Submissions : status[s] = "preparing"}) \intersect inputs

Claimable == Queued \intersect inputs

\* Mutant: the claim has lost its ORDER BY.
OldestUnordered(tasks) == tasks

Oldest(tasks) == {s \in tasks : \A other \in tasks : id[s] <= id[other]}

\* Mutant: the list of interrupted tasks has lost the preparing ones.
InterruptedRunningOnly ==
  {s \in Submissions : status[s] = "running"} \union (Queued \ inputs)

\* ListInterruptedTaskIDs: started before the process stopped, or queued with
\* its input gone.
Interrupted ==
  {s \in Submissions : status[s] \in Started} \union (Queued \ inputs)

\* HTTP handlers run from the start of the runner until the process exits, a
\* closed runner included: Server.Shutdown closes the queue and HTTP together.
Serving == phase \in {"open", "closed"}

\* Mutant: nothing excludes the other critical sections.
MuFreeAlways == TRUE

MuFree == cancelling = NoTask

\* Mutants: a send for each worker with no regard to the capacity, one token
\* for all the workers, and no token at all.
NotifiedUnbounded == wake + MaxConcurrent
NotifiedOnce == IF wake = 0 THEN 1 ELSE wake
NotifiedNobody == wake

\* notifyLocked fills the channel up to its capacity and never blocks.
Notified == MaxConcurrent

Executing(w) == wpc[w] = "execute"

Init ==
  /\ status = [s \in Submissions |-> "absent"]
  /\ id = [s \in Submissions |-> 0]
  /\ lastId = 0
  /\ inputs = {}
  /\ staging = {}
  /\ dirs = {}
  /\ phase = "down"
  /\ active = [s \in Submissions |-> "none"]
  /\ wake = 0
  /\ cancelling = NoTask
  /\ sub = [s \in Submissions |-> "idle"]
  /\ wpc = [w \in Workers |-> "exited"]
  /\ wtask = [w \in Workers |-> NoTask]
  /\ todo = {}
  /\ rstep = "finalize"
  /\ retained = {}
  /\ runs = [s \in Submissions |-> 0]
-----------------------------------------------------------------------------
(* Queue.Submit *)

SubmitTo(s, from, to) ==
  /\ sub[s] = from
  /\ sub' = [sub EXCEPT ![s] = to]

\* Stage creates a .staging- directory and writes the manifest and the
\* attachments into it ...
StageBegin(s) ==
  /\ Serving
  /\ SubmitTo(s, "idle", "staging")
  /\ staging' = staging \union {s}
  /\ UNCHANGED <<status, id, lastId, inputs, dirs, phase, active, wake,
                 cancelling, workers, recovery, runs>>

\* ... and publishes it under the storage key with one rename.
StagePublish(s) ==
  /\ SubmitTo(s, "staging", "staged")
  /\ staging' = staging \ {s}
  /\ dirs' = dirs \union {s}
  /\ UNCHANGED <<status, id, lastId, inputs, phase, active, wake, cancelling,
                 workers, recovery, runs>>

\* A failed write leaves nothing behind: the deferred RemoveAll.
StageFail(s) ==
  /\ "stage" \in Faults
  /\ SubmitTo(s, "staging", "done")
  /\ staging' = staging \ {s}
  /\ UNCHANGED <<status, id, lastId, inputs, dirs, phase, active, wake,
                 cancelling, workers, recovery, runs>>

\* EnqueueTask counts the queued tasks and inserts both rows in one
\* transaction.
Enqueue(s) ==
  /\ Cardinality(Queued) < MaxQueued
  /\ SubmitTo(s, "staged", "enqueued")
  /\ status' = [status EXCEPT ![s] = "queued"]
  /\ id' = [id EXCEPT ![s] = lastId + 1]
  /\ lastId' = lastId + 1
  /\ inputs' = inputs \union {s}
  /\ UNCHANGED <<staging, dirs, phase, active, wake, cancelling, workers,
                 recovery, runs>>

\* The queue is full, the campaign or the profile is gone, the request was
\* abandoned, or the database failed.
EnqueueRefused(s) ==
  /\ Cardinality(Queued) >= MaxQueued \/ "enqueue" \in Faults
  /\ SubmitTo(s, "staged", "rejecting")
  /\ UNCHANGED <<durable, phase, active, wake, cancelling, workers, recovery,
                 runs>>

RemoveRejected(s) ==
  /\ SubmitTo(s, "rejecting", "done")
  /\ \/ dirs' = dirs \ {s}
     \/ "remove" \in Faults /\ UNCHANGED dirs
  /\ UNCHANGED <<status, id, lastId, inputs, staging, phase, active, wake,
                 cancelling, workers, recovery, runs>>

\* runner.Notify: does nothing once the runner is closed.
SubmitNotify(s) ==
  /\ MuFree
  /\ SubmitTo(s, "enqueued", "done")
  /\ wake' = IF phase = "open" THEN Notified ELSE wake
  /\ UNCHANGED <<durable, phase, active, cancelling, workers, recovery,
                 runs>>
-----------------------------------------------------------------------------
(* Runner.worker *)

WorkerTo(w, from, to) ==
  /\ wpc[w] = from
  /\ wpc' = [wpc EXCEPT ![w] = to]

\* claimTask: under mu, ClaimNextTask moves the oldest queued task that still
\* has its input to preparing, and its context enters runner.active.
Claim(w) ==
  /\ phase = "open" /\ MuFree
  /\ WorkerTo(w, "claim", "execute")
  /\ \E s \in Oldest(Claimable) :
       /\ status' = [status EXCEPT ![s] = "preparing"]
       /\ active' = [active EXCEPT ![s] = "live"]
       /\ wtask' = [wtask EXCEPT ![w] = s]
       /\ runs' = [runs EXCEPT ![s] = @ + 1]
  /\ UNCHANGED <<id, lastId, inputs, staging, dirs, phase, wake, cancelling,
                 sub, recovery>>

ClaimNothing(w) ==
  /\ phase = "open" /\ MuFree
  /\ Claimable = {}
  /\ WorkerTo(w, "claim", "wait")
  /\ UNCHANGED <<durable, phase, active, wake, cancelling, sub, wtask,
                 recovery, runs>>

ClaimFail(w) ==
  /\ "claim" \in Faults
  /\ phase = "open" /\ MuFree
  /\ WorkerTo(w, "claim", "retry")
  /\ UNCHANGED <<durable, phase, active, wake, cancelling, sub, wtask,
                 recovery, runs>>

\* claimTask returns ErrStopped.
ClaimStopped(w) ==
  /\ phase = "closed" /\ MuFree
  /\ WorkerTo(w, "claim", "exited")
  /\ UNCHANGED <<durable, phase, active, wake, cancelling, sub, wtask,
                 recovery, runs>>

\* Mutant: only the retry timer ends the wait of a stopped worker.
WaitStoppedRetryOnly(w) ==
  /\ phase = "closed"
  /\ WorkerTo(w, "retry", "exited")
  /\ UNCHANGED <<durable, phase, active, wake, cancelling, sub, wtask,
                 recovery, runs>>

\* waitForWork: a token, the one-second timer after a failed claim, or the
\* end of the runner's context, whichever select picks.
WakeUp(w) ==
  /\ wake > 0
  /\ \/ WorkerTo(w, "wait", "claim")
     \/ WorkerTo(w, "retry", "claim")
  /\ wake' = wake - 1
  /\ UNCHANGED <<durable, phase, active, cancelling, sub, wtask, recovery,
                 runs>>

RetryTimer(w) ==
  /\ WorkerTo(w, "retry", "claim")
  /\ UNCHANGED <<durable, phase, active, wake, cancelling, sub, wtask,
                 recovery, runs>>

WaitStopped(w) ==
  /\ phase = "closed"
  /\ \/ WorkerTo(w, "wait", "exited")
     \/ WorkerTo(w, "retry", "exited")
  /\ UNCHANGED <<durable, phase, active, wake, cancelling, sub, wtask,
                 recovery, runs>>
-----------------------------------------------------------------------------
(* ExecuteCampaignTask, as far as the queue can tell *)

ExecutionUnchanged ==
  UNCHANGED <<id, lastId, inputs, staging, dirs, phase, active, wake,
              cancelling, sub, wtask, recovery, runs>>

\* beginExecution: the status check and the update.  An error of the update
\* is ignored, so a task may be executed while it still says preparing.
MarkRunning(w) ==
  /\ Executing(w)
  /\ status[wtask[w]] = "preparing"
  /\ active[wtask[w]] = "live"
  /\ status' = [status EXCEPT ![wtask[w]] = "running"]
  /\ UNCHANGED wpc
  /\ ExecutionUnchanged

\* finishCompleted and finishPreparationFailure write the outcome without
\* looking at the context again, so a cancellation may come too late.
FinishCompleted(w) ==
  /\ WorkerTo(w, "execute", "take")
  /\ \E outcome \in {"completed", "completed_with_errors"} :
       /\ \/ status[wtask[w]] = "running"
          \/ outcome = "completed_with_errors"
          \/ "status" \in Faults
       /\ status' = [status EXCEPT ![wtask[w]] = outcome]
  /\ ExecutionUnchanged

\* finishTerminated: the outcome is the cause of the context.
FinishTerminated(w) ==
  /\ WorkerTo(w, "execute", "take")
  /\ active[wtask[w]] # "live"
  /\ status' = [status EXCEPT ![wtask[w]] = active[wtask[w]]]
  /\ ExecutionUnchanged

\* The callback returns with no outcome written: GetTask failed, because the
\* context was cancelled while it ran or because the database failed, or
\* FinishTask failed, which is only logged.
ExecuteAborted(w) ==
  /\ WorkerTo(w, "execute", "take")
  /\ \/ status[wtask[w]] = "preparing" /\ active[wtask[w]] # "live"
     \/ "status" \in Faults
  /\ UNCHANGED status
  /\ ExecutionUnchanged
-----------------------------------------------------------------------------
(* releaseTaskInput and releaseActiveTask *)

TakeInput(w) ==
  /\ wpc[w] = "take"
  /\ \/ /\ wtask[w] \in inputs
        /\ inputs' = inputs \ {wtask[w]}
        /\ WorkerTo(w, "take", "remove")
     \/ /\ wtask[w] \notin inputs \/ "take" \in Faults
        /\ UNCHANGED inputs
        /\ WorkerTo(w, "take", "release")
  /\ UNCHANGED <<status, id, lastId, staging, dirs, phase, active, wake,
                 cancelling, sub, wtask, recovery, runs>>

RemoveInput(w) ==
  /\ WorkerTo(w, "remove", "release")
  /\ \/ dirs' = dirs \ {wtask[w]}
     \/ "remove" \in Faults /\ UNCHANGED dirs
  /\ UNCHANGED <<status, id, lastId, inputs, staging, phase, active, wake,
                 cancelling, sub, wtask, recovery, runs>>

\* Mutant: the worker goes on without leaving runner.active.
ReleaseActiveForgotten(w) ==
  /\ MuFree
  /\ WorkerTo(w, "release", "claim")
  /\ wtask' = [wtask EXCEPT ![w] = NoTask]
  /\ UNCHANGED <<durable, phase, active, wake, cancelling, sub, recovery, runs>>

ReleaseActive(w) ==
  /\ MuFree
  /\ WorkerTo(w, "release", "claim")
  /\ active' = [active EXCEPT ![wtask[w]] = "none"]
  /\ wtask' = [wtask EXCEPT ![w] = NoTask]
  /\ UNCHANGED <<durable, phase, wake, cancelling, sub, recovery, runs>>
-----------------------------------------------------------------------------
(* Runner.Cancel *)

\* A context keeps the first cause it is cancelled with.
CancelCause(cause, given) == IF cause = "live" THEN given ELSE cause

CancelActive(s) ==
  /\ phase = "open" /\ MuFree
  /\ active[s] # "none"
  /\ active' = [active EXCEPT ![s] = CancelCause(@, "cancelled")]
  /\ UNCHANGED <<durable, phase, wake, cancelling, sub, workers, recovery,
                 runs>>

\* cancelQueuedTask, with mu held: the manifest is read, the outcome and the
\* removal of the input commit in one transaction ...
CancelQueued(s) ==
  /\ phase = "open" /\ MuFree
  /\ active[s] = "none"
  /\ s \in Claimable
  /\ s \in dirs
  /\ status' = [status EXCEPT ![s] = "cancelled"]
  /\ inputs' = inputs \ {s}
  /\ cancelling' = s
  /\ UNCHANGED <<id, lastId, staging, dirs, phase, active, wake, sub, workers,
                 recovery, runs>>

\* ... then the directory goes and mu is released.
CancelQueuedRemove ==
  /\ cancelling # NoTask
  /\ \/ dirs' = dirs \ {cancelling}
     \/ "remove" \in Faults /\ UNCHANGED dirs
  /\ cancelling' = NoTask
  /\ UNCHANGED <<status, id, lastId, inputs, staging, phase, active, wake,
                 sub, workers, recovery, runs>>
-----------------------------------------------------------------------------
(* Runner.Shutdown and the end of the process *)

Shutdown ==
  /\ phase = "open" /\ MuFree
  /\ phase' = "closed"
  /\ active' = [s \in Submissions |-> CancelCause(active[s], "interrupted")]
  /\ UNCHANGED <<durable, wake, cancelling, sub, workers, recovery, runs>>

\* The process ends: after a clean shutdown, after the shutdown timeout with
\* work still going on, or by a crash at any point.
Exit ==
  /\ phase # "down"
  /\ phase' = "down"
  /\ active' = [s \in Submissions |-> "none"]
  /\ wake' = 0
  /\ cancelling' = NoTask
  /\ sub' = [s \in Submissions |-> IF sub[s] = "idle" THEN "idle" ELSE "done"]
  /\ wpc' = [w \in Workers |-> "exited"]
  /\ wtask' = [w \in Workers |-> NoTask]
  /\ todo' = {}
  /\ rstep' = "finalize"
  /\ retained' = {}
  /\ UNCHANGED <<durable, runs>>
-----------------------------------------------------------------------------
(* Queue.Start *)

Boot ==
  /\ phase = "down"
  /\ phase' = "recovering"
  /\ todo' = Interrupted
  /\ UNCHANGED <<durable, active, wake, cancelling, sub, workers, rstep,
                 retained, runs>>

\* Mutant: a task without a readable input stays on the list.
RecoverFinalizeStuck(s) ==
  /\ phase = "recovering" /\ rstep = "finalize"
  /\ s \in Oldest(todo)
  /\ status' = [status EXCEPT ![s] = "interrupted"]
  /\ rstep' = IF s \in inputs \intersect dirs THEN "take" ELSE "finalize"
  /\ UNCHANGED <<id, lastId, inputs, staging, dirs, phase, active, wake,
                 cancelling, sub, workers, todo, retained, runs>>

\* recoverInterruptedTasks goes through the tasks in the order of their ids.
\* Without a readable input it settles the task and leaves the input alone.
RecoverFinalize(s) ==
  /\ phase = "recovering" /\ rstep = "finalize"
  /\ s \in Oldest(todo)
  /\ status' = [status EXCEPT ![s] = "interrupted"]
  /\ IF s \in inputs \intersect dirs
       THEN rstep' = "take" /\ UNCHANGED todo
       ELSE todo' = todo \ {s} /\ UNCHANGED rstep
  /\ UNCHANGED <<id, lastId, inputs, staging, dirs, phase, active, wake,
                 cancelling, sub, workers, retained, runs>>

RecoverTake(s) ==
  /\ phase = "recovering" /\ rstep = "take"
  /\ s \in Oldest(todo)
  /\ inputs' = inputs \ {s}
  /\ rstep' = "remove"
  /\ UNCHANGED <<status, id, lastId, staging, dirs, phase, active, wake,
                 cancelling, sub, workers, todo, retained, runs>>

RecoverRemove(s) ==
  /\ phase = "recovering" /\ rstep = "remove"
  /\ s \in Oldest(todo)
  /\ dirs' = dirs \ {s}
  /\ todo' = todo \ {s}
  /\ rstep' = "finalize"
  /\ UNCHANGED <<status, id, lastId, inputs, staging, phase, active, wake,
                 cancelling, sub, workers, retained, runs>>

RecoverDone ==
  /\ phase = "recovering" /\ todo = {}
  /\ phase' = "reconciling"
  /\ UNCHANGED <<durable, active, wake, cancelling, sub, workers, recovery,
                 runs>>

\* ReconcileTaskInputs drops the rows of tasks that are not queued and
\* returns the keys that stay.
Reconcile ==
  /\ phase = "reconciling"
  /\ retained' = Claimable
  /\ inputs' = Claimable
  /\ phase' = "sweeping"
  /\ UNCHANGED <<status, id, lastId, staging, dirs, active, wake, cancelling,
                 sub, workers, todo, rstep, runs>>

\* Mutant: Prune has lost the set of keys to keep.
PrunableAll == dirs

Prunable == dirs \ retained

\* The stale keys and then Prune: every published or staging directory that
\* is not retained is removed, one at a time.
Sweep ==
  /\ phase = "sweeping"
  /\ \/ \E s \in Prunable : dirs' = dirs \ {s} /\ UNCHANGED staging
     \/ \E s \in staging : staging' = staging \ {s} /\ UNCHANGED dirs
  /\ UNCHANGED <<status, id, lastId, inputs, phase, active, wake, cancelling,
                 sub, workers, recovery, runs>>

\* Runner.Start launches the workers and wakes them.
StartRunner ==
  /\ phase = "sweeping"
  /\ Prunable = {} /\ staging = {}
  /\ phase' = "open"
  /\ wpc' = [w \in Workers |-> "claim"]
  /\ wake' = Notified
  /\ retained' = {}
  /\ UNCHANGED <<durable, active, cancelling, sub, wtask, todo, rstep,
                 runs>>
-----------------------------------------------------------------------------
SubmitStep(s) ==
  \/ StageBegin(s)
  \/ StagePublish(s)
  \/ StageFail(s)
  \/ Enqueue(s)
  \/ EnqueueRefused(s)
  \/ RemoveRejected(s)
  \/ SubmitNotify(s)

WorkerStep(w) ==
  \/ Claim(w)
  \/ ClaimNothing(w)
  \/ ClaimFail(w)
  \/ ClaimStopped(w)
  \/ WakeUp(w)
  \/ RetryTimer(w)
  \/ WaitStopped(w)
  \/ MarkRunning(w)
  \/ FinishCompleted(w)
  \/ FinishTerminated(w)
  \/ ExecuteAborted(w)
  \/ TakeInput(w)
  \/ RemoveInput(w)
  \/ ReleaseActive(w)

OperatorStep ==
  \/ \E s \in Submissions : CancelActive(s) \/ CancelQueued(s)
  \/ CancelQueuedRemove
  \/ Shutdown
  \/ Exit

BootStep ==
  \/ Boot
  \/ \E s \in Submissions : RecoverFinalize(s) \/ RecoverTake(s) \/ RecoverRemove(s)
  \/ RecoverDone
  \/ Reconcile
  \/ Sweep
  \/ StartRunner

Next ==
  \/ \E s \in Submissions : SubmitStep(s)
  \/ \E w \in Workers : WorkerStep(w)
  \/ OperatorStep
  \/ BootStep

Spec == Init /\ [][Next]_vars

(***************************************************************************)
(* A goroutine that can go on does, an execution whose context has ended   *)
(* ends (whatever waits is told, and every send and conversion has a       *)
(* timeout), and a claim does not fail for ever.  Nothing makes a user     *)
(* submit, cancel, shut down or start the application, and no operation    *)
(* has to fail.                                                            *)
(***************************************************************************)
WorkerProgress(w) ==
  \/ Claim(w)
  \/ ClaimNothing(w)
  \/ ClaimStopped(w)
  \/ WakeUp(w)
  \/ RetryTimer(w)
  \/ WaitStopped(w)
  \/ FinishCompleted(w)
  \/ FinishTerminated(w)
  \/ ExecuteAborted(w)
  \/ TakeInput(w)
  \/ RemoveInput(w)
  \/ ReleaseActive(w)

\* An execution whose context has not ended may be waiting for its attachment
\* budget, and need not go on.
MayWait(w) == Executing(w) /\ active[wtask[w]] = "live"

Fairness ==
  /\ \A w \in Workers :
       /\ WF_vars(WorkerProgress(w) /\ ~MayWait(w))
       /\ "claim" \in Faults => SF_vars(Claim(w) \/ ClaimNothing(w))
  /\ \A s \in Submissions : WF_vars(SubmitNotify(s))
  /\ WF_vars(CancelQueuedRemove)
  /\ WF_vars(phase # "down" /\ BootStep)

FairSpec == Spec /\ Fairness
-----------------------------------------------------------------------------
(* Types *)

\* Every variable stays in its type; in particular a blocked send never
\* leaves more tokens in the wake channel than its capacity.
TypeOK ==
  /\ status \in [Submissions -> Statuses]
  /\ id \in [Submissions -> Nat]
  /\ lastId \in Nat
  /\ inputs \subseteq Submissions
  /\ staging \subseteq Submissions
  /\ dirs \subseteq Submissions
  /\ phase \in Phases
  /\ active \in [Submissions -> Causes]
  /\ wake \in 0 .. MaxConcurrent
  /\ cancelling \in Submissions \union {NoTask}
  /\ sub \in [Submissions -> SubmitSteps]
  /\ wpc \in [Workers -> WorkerSteps]
  /\ wtask \in [Workers -> Submissions \union {NoTask}]
  /\ todo \subseteq Submissions
  /\ rstep \in {"finalize", "take", "remove"}
  /\ retained \subseteq Submissions
  /\ runs \in [Submissions -> Nat]
-----------------------------------------------------------------------------
(* Safety *)

\* A queued task, and a task that is being executed, has its row and its
\* published directory: whatever crashed, was rejected, cancelled or pruned,
\* LoadPayload and cancelQueuedTask find what they read.
InputAvailable ==
  /\ Queued \subseteq inputs \intersect dirs
  /\ \A w \in Workers :
       Executing(w) => /\ wtask[w] \in inputs \intersect dirs
                       /\ status[wtask[w]] \in Started

\* runner.active and the workers agree: a task is in the map exactly while one
\* worker owns it, so a cancellation reaches the execution it is meant for.
ExclusiveExecution ==
  /\ \A w1, w2 \in Workers :
       w1 # w2 /\ wtask[w1] = wtask[w2] => wtask[w1] = NoTask
  /\ \A s \in Submissions : active[s] # "none" <=> \E w \in Workers : wtask[w] = s

\* A task is started at most once over all restarts, since delivery may have
\* had effects outside: nothing that left the queue comes back into it.
AtMostOnce ==
  \A s \in Submissions :
    /\ runs[s] <= 1
    /\ status[s] \in {"absent", "queued"} => runs[s] = 0

Announced == {s \in Claimable : sub[s] # "enqueued"}

\* No wake-up is lost: while an announced task can be claimed, a token is in
\* the channel or a worker will look at the queue again.
NoLostWakeup ==
  phase = "open" /\ Announced # {} =>
    wake > 0 \/ \E w \in Workers : wpc[w] \notin {"wait", "exited"}

\* The slots are all used: while an announced task can be claimed there is a
\* token for every sleeping worker (if no claim fails: a worker that waits to
\* retry may take the token of another).
EverySleeperWoken ==
  phase = "open" /\ Announced # {} =>
    Cardinality({w \in Workers : wpc[w] = "wait"}) <= wake

Holds(w, steps, s) == wtask[w] = s /\ wpc[w] \in steps

\* Storage is accounted for while the application runs and no removal fails:
\* every row, directory and staging directory belongs to a queued task or to
\* somebody who is about to use or remove it.
NoOrphans ==
  Serving =>
    /\ \A s \in inputs : s \in Queued \/ \E w \in Workers : Holds(w, {"execute", "take"}, s)
    /\ \A s \in dirs :
         \/ s \in Queued
         \/ sub[s] \in {"staged", "rejecting"}
         \/ cancelling = s
         \/ \E w \in Workers : Holds(w, {"execute", "take", "remove"}, s)
    /\ \A s \in staging : sub[s] = "staging"

\* Whatever failed or crashed before, when the runner starts no task is in an
\* unfinished execution and the storage holds exactly the queued tasks' input.
CleanStart ==
  [][phase # "open" /\ phase' = "open" =>
       /\ inputs' = Queued' /\ dirs' = Queued' /\ staging' = {}
       /\ \A s \in Submissions : status'[s] \notin Started]_vars

\* "Task input files are removed after every terminal outcome": an input is
\* given up only by a task that has one.  ExecuteCampaignTask returns without
\* an outcome when GetTask fails, and the deferred releaseTaskInput runs.
ReleasedAfterOutcome ==
  [][\A s \in inputs \ inputs' : status'[s] \in Terminal]_vars
-----------------------------------------------------------------------------
(* Liveness *)

\* A queued task is not forgotten: while the application stays open it is
\* claimed or cancelled, as soon as there is a worker that does not execute
\* another task; executions themselves need not end.
QueuedTaskLeaves ==
  \A s \in Submissions :
    status[s] = "queued" /\ phase = "open"
      ~> status[s] # "queued" \/ phase # "open" \/ \A w \in Workers : MayWait(w)

\* Runner.Shutdown gets its wg.Wait: every worker exits and no execution is
\* left behind, unless the process ends first.
ShutdownDrains ==
  phase = "closed"
    ~> phase = "down" \/ \A w \in Workers : wpc[w] = "exited" /\ wtask[w] = NoTask

\* Recovery ends: no state a crash leaves makes Queue.Start loop for ever.
StartCompletes == phase = "recovering" ~> phase \in {"open", "down"}
-----------------------------------------------------------------------------
(* The abstract specification *)

StageOf(s) ==
  CASE status[s] = "queued" -> "waiting"
    [] status[s] \in Started /\ active[s] # "none" -> "executing"
    [] status[s] \in Started /\ active[s] = "none" -> "stranded"
    [] OTHER -> status[s]

Lifecycle == INSTANCE TaskLifecycle WITH
  stage <- [s \in Submissions |-> StageOf(s)],
  ticket <- id,
  lastTicket <- lastId

\* The queue with all its steps, faults and restarts is a bounded FIFO queue
\* whose tasks are started at most once and keep the outcome they are given.
ImplementsLifecycle == Lifecycle!Spec
=============================================================================
