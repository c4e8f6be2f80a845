-------------------------- MODULE TaskQueueProofs --------------------------
(***************************************************************************)
(* Proofs about TaskQueue for any set of submissions, any finite set of    *)
(* workers, any queue bound and any combination of failing operations.     *)
(***************************************************************************)
EXTENDS TaskQueue, FiniteSetTheorems, TLAPS

IdleSteps == {"exited", "claim", "wait", "retry"}
BeforeCommit == {"idle", "staging", "staged", "rejecting"}
Pending == {"absent", "queued"}

\* A worker holds a task exactly while its program counter says so, and a
\* task somebody holds has left the queue.
WorkersConsistent ==
  \A w \in Workers :
    /\ wtask[w] = NoTask <=> wpc[w] \in IdleSteps
    /\ wtask[w] # NoTask => status[wtask[w]] \notin Pending

\* A submission has no task before its transaction commits, and its directory
\* is in place from the rename on.
SubmittersConsistent ==
  \A s \in Submissions :
    /\ sub[s] \in BeforeCommit => status[s] = "absent"
    /\ sub[s] = "staged" => s \in dirs

\* The directory a cancellation is about to remove belongs to a cancelled task.
CancellationConsistent ==
  cancelling # NoTask => status[cancelling] = "cancelled"

\* Outside the serving phases nothing but the start of the queue is going on.
QuietUnlessServing ==
  ~Serving =>
    /\ cancelling = NoTask
    /\ \A w \in Workers : wpc[w] = "exited"
    /\ \A s \in Submissions : sub[s] \in {"idle", "done"}

\* The ids of the tasks table identify its rows.
UniqueIds ==
  /\ \A s \in Submissions : id[s] <= lastId
  /\ \A s, t \in Submissions :
       status[s] # "absent" /\ status[t] # "absent" /\ id[s] = id[t] => s = t

\* Recovery misses no started task, and touches no queued one.
RecoveryConsistent ==
  /\ \A s \in todo : status[s] \notin Pending
  /\ phase = "down" => rstep = "finalize"
  /\ phase = "recovering" =>
       /\ \A s \in Submissions : status[s] \in Started => s \in todo
       /\ rstep # "finalize" => \A s \in Oldest(todo) : status[s] \notin Started
  /\ phase \in {"reconciling", "sweeping"} =>
       \A s \in Submissions : status[s] \notin Started
  /\ phase = "sweeping" => retained = Queued /\ inputs = Queued

IInv ==
  /\ TypeOK
  /\ InputAvailable
  /\ ExclusiveExecution
  /\ AtMostOnce
  /\ NoLostWakeup
  /\ WorkersConsistent
  /\ SubmittersConsistent
  /\ CancellationConsistent
  /\ QuietUnlessServing
  /\ UniqueIds
  /\ RecoveryConsistent
-----------------------------------------------------------------------------
LEMMA MaxConcurrentPositive == MaxConcurrent \in Nat /\ MaxConcurrent > 0
<1>1. MaxConcurrent \in Nat
  BY WorkersAssumption, FS_CardinalityType DEF MaxConcurrent
<1>2. MaxConcurrent # 0
  BY WorkersAssumption, FS_EmptySet DEF MaxConcurrent
<1> QED
  BY <1>1, <1>2, SMT

LEMMA InitInv == Init => IInv
  BY SubmissionsAssumption, MaxConcurrentPositive
  DEF Init, IInv, TypeOK, InputAvailable, ExclusiveExecution, AtMostOnce,
      NoLostWakeup, WorkersConsistent, SubmittersConsistent,
      CancellationConsistent, QuietUnlessServing, UniqueIds,
      RecoveryConsistent, Queued, Claimable, Announced, Serving, Executing,
      Statuses, Started, Terminal, Phases, Causes, SubmitSteps, WorkerSteps,
      IdleSteps, BeforeCommit, Pending

LEMMA SubmitStepInv ==
  ASSUME IInv, NEW s \in Submissions, SubmitStep(s)
  PROVE  IInv'
<1> USE SubmissionsAssumption, MaxConcurrentPositive
    DEF IInv, TypeOK, InputAvailable, ExclusiveExecution, AtMostOnce,
        NoLostWakeup, WorkersConsistent, SubmittersConsistent,
        CancellationConsistent, QuietUnlessServing, UniqueIds,
        RecoveryConsistent, Queued, Claimable, Announced, Serving, Executing,
        Statuses, Started, Terminal, Phases, Causes, SubmitSteps, WorkerSteps,
        IdleSteps, BeforeCommit, Pending, durable, recovery, workers
<1>1. CASE StageBegin(s)
  BY <1>1 DEF StageBegin, SubmitTo
<1>2. CASE StagePublish(s)
  BY <1>2 DEF StagePublish, SubmitTo
<1>3. CASE StageFail(s)
  BY <1>3 DEF StageFail, SubmitTo
<1>4. CASE Enqueue(s)
  BY <1>4 DEF Enqueue, SubmitTo
<1>5. CASE EnqueueRefused(s)
  BY <1>5 DEF EnqueueRefused, SubmitTo
<1>6. CASE RemoveRejected(s)
  BY <1>6 DEF RemoveRejected, SubmitTo
<1>7. CASE SubmitNotify(s)
  BY <1>7 DEF SubmitNotify, SubmitTo, Notified
<1> QED
  BY <1>1, <1>2, <1>3, <1>4, <1>5, <1>6, <1>7 DEF SubmitStep

LEMMA WorkerStepInv ==
  ASSUME IInv, NEW w \in Workers, WorkerStep(w)
  PROVE  IInv'
<1> USE SubmissionsAssumption, MaxConcurrentPositive
    DEF IInv, TypeOK, InputAvailable, ExclusiveExecution, AtMostOnce,
        NoLostWakeup, WorkersConsistent, SubmittersConsistent,
        CancellationConsistent, QuietUnlessServing, UniqueIds,
        RecoveryConsistent, Queued, Claimable, Announced, Serving, Executing,
        Statuses, Started, Terminal, Phases, Causes, SubmitSteps, WorkerSteps,
        IdleSteps, BeforeCommit, Pending, durable, recovery, workers
<1>1. CASE Claim(w)
  BY <1>1 DEF Claim, WorkerTo, Oldest
<1>2. CASE ClaimNothing(w)
  BY <1>2 DEF ClaimNothing, WorkerTo
<1>3. CASE ClaimFail(w)
  BY <1>3 DEF ClaimFail, WorkerTo
<1>4. CASE ClaimStopped(w)
  BY <1>4 DEF ClaimStopped, WorkerTo
<1>5. CASE WakeUp(w)
  BY <1>5 DEF WakeUp, WorkerTo
<1>6. CASE RetryTimer(w)
  BY <1>6 DEF RetryTimer, WorkerTo
<1>7. CASE WaitStopped(w)
  BY <1>7 DEF WaitStopped, WorkerTo
<1>8. CASE MarkRunning(w)
  BY <1>8 DEF MarkRunning, Executing, ExecutionUnchanged
<1>9. CASE FinishCompleted(w)
  BY <1>9 DEF FinishCompleted, WorkerTo, ExecutionUnchanged
<1>10. CASE FinishTerminated(w)
  BY <1>10 DEF FinishTerminated, WorkerTo, ExecutionUnchanged
<1>11. CASE ExecuteAborted(w)
  BY <1>11 DEF ExecuteAborted, WorkerTo, ExecutionUnchanged
<1>12. CASE TakeInput(w)
  BY <1>12 DEF TakeInput, WorkerTo
<1>13. CASE RemoveInput(w)
  BY <1>13 DEF RemoveInput, WorkerTo
<1>14. CASE ReleaseActive(w)
  BY <1>14 DEF ReleaseActive, WorkerTo
<1> QED
  BY <1>1, <1>2, <1>3, <1>4, <1>5, <1>6, <1>7, <1>8, <1>9, <1>10, <1>11, <1>12, <1>13, <1>14 DEF WorkerStep

LEMMA OperatorStepInv ==
  ASSUME IInv, OperatorStep
  PROVE  IInv'
<1> USE SubmissionsAssumption, MaxConcurrentPositive
    DEF IInv, TypeOK, InputAvailable, ExclusiveExecution, AtMostOnce,
        NoLostWakeup, WorkersConsistent, SubmittersConsistent,
        CancellationConsistent, QuietUnlessServing, UniqueIds,
        RecoveryConsistent, Queued, Claimable, Announced, Serving, Executing,
        Statuses, Started, Terminal, Phases, Causes, SubmitSteps, WorkerSteps,
        IdleSteps, BeforeCommit, Pending, durable, recovery, workers
<1>1. CASE \E s \in Submissions : CancelActive(s)
  BY <1>1 DEF CancelActive, CancelCause
<1>2. CASE \E s \in Submissions : CancelQueued(s)
  BY <1>2 DEF CancelQueued
<1>3. CASE CancelQueuedRemove
  BY <1>3 DEF CancelQueuedRemove
<1>4. CASE Shutdown
  BY <1>4 DEF Shutdown, CancelCause
<1>5. CASE Exit
  BY <1>5 DEF Exit
<1> QED
  BY <1>1, <1>2, <1>3, <1>4, <1>5 DEF OperatorStep

LEMMA BootStepInv ==
  ASSUME IInv, BootStep
  PROVE  IInv'
<1> USE SubmissionsAssumption, MaxConcurrentPositive
    DEF IInv, TypeOK, InputAvailable, ExclusiveExecution, AtMostOnce,
        NoLostWakeup, WorkersConsistent, SubmittersConsistent,
        CancellationConsistent, QuietUnlessServing, UniqueIds,
        RecoveryConsistent, Queued, Claimable, Announced, Serving, Executing,
        Statuses, Started, Terminal, Phases, Causes, SubmitSteps, WorkerSteps,
        IdleSteps, BeforeCommit, Pending, durable, recovery, workers
<1>1. CASE Boot
  BY <1>1 DEF Boot, Interrupted
<1>2. CASE \E s \in Submissions : RecoverFinalize(s)
  BY <1>2 DEF RecoverFinalize, Oldest
<1>3. CASE \E s \in Submissions : RecoverTake(s)
  BY <1>3 DEF RecoverTake, Oldest
<1>4. CASE \E s \in Submissions : RecoverRemove(s)
  BY <1>4 DEF RecoverRemove, Oldest
<1>5. CASE RecoverDone
  BY <1>5 DEF RecoverDone, Oldest
<1>6. CASE Reconcile
  BY <1>6 DEF Reconcile
<1>7. CASE Sweep
  BY <1>7 DEF Sweep, Prunable
<1>8. CASE StartRunner
  BY <1>8 DEF StartRunner, Notified, Prunable
<1> QED
  BY <1>1, <1>2, <1>3, <1>4, <1>5, <1>6, <1>7, <1>8 DEF BootStep

LEMMA StutterInv ==
  ASSUME IInv, UNCHANGED vars
  PROVE  IInv'
  BY DEF vars, IInv, TypeOK, InputAvailable, ExclusiveExecution, AtMostOnce,
         NoLostWakeup, WorkersConsistent, SubmittersConsistent,
         CancellationConsistent, QuietUnlessServing, UniqueIds,
         RecoveryConsistent, Queued, Claimable, Oldest, Announced, Serving,
         Executing

LEMMA NextInv == IInv /\ [Next]_vars => IInv'
  BY SubmitStepInv, WorkerStepInv, OperatorStepInv, BootStepInv, StutterInv
  DEF Next

THEOREM InductiveInvariant == Spec => []IInv
  BY InitInv, NextInv, PTL DEF Spec
-----------------------------------------------------------------------------
\* Every variable keeps its type, whatever fails.
THEOREM TypeCorrect == Spec => []TypeOK
<1>1. IInv => TypeOK
  BY DEF IInv
<1> QED
  BY <1>1, InductiveInvariant, PTL

\* No crash, rejection, cancellation or pruning takes the staged input away
\* from a task that is queued or being executed.
THEOREM InputSurvives == Spec => []InputAvailable
<1>1. IInv => InputAvailable
  BY DEF IInv
<1> QED
  BY <1>1, InductiveInvariant, PTL

\* runner.active holds exactly the tasks the workers own, one owner each.
THEOREM ExecutionExclusive == Spec => []ExclusiveExecution
<1>1. IInv => ExclusiveExecution
  BY DEF IInv
<1> QED
  BY <1>1, InductiveInvariant, PTL

\* Over all restarts a task is started at most once.
THEOREM NeverResumed == Spec => []AtMostOnce
<1>1. IInv => AtMostOnce
  BY DEF IInv
<1> QED
  BY <1>1, InductiveInvariant, PTL

\* The buffered wake channel loses no announcement of a queued task.
THEOREM WakeupsKept == Spec => []NoLostWakeup
<1>1. IInv => NoLostWakeup
  BY DEF IInv
<1> QED
  BY <1>1, InductiveInvariant, PTL

\* Recovery and reconciliation leave the runner exactly the queued tasks.
THEOREM StartsClean == Spec => CleanStart
<1>1. ASSUME IInv, [Next]_vars, phase # "open", phase' = "open"
      PROVE  /\ inputs' = Queued' /\ dirs' = Queued' /\ staging' = {}
             /\ \A s \in Submissions : status'[s] \notin Started
  <2>1. StartRunner
    BY <1>1 DEF Next, vars, SubmitStep, WorkerStep, OperatorStep, BootStep,
      StageBegin, StagePublish, StageFail, Enqueue, EnqueueRefused,
      RemoveRejected, SubmitNotify, Claim, ClaimNothing, ClaimFail,
      ClaimStopped, WakeUp, RetryTimer, WaitStopped, MarkRunning,
      FinishCompleted, FinishTerminated, ExecuteAborted, ExecutionUnchanged,
      TakeInput, RemoveInput, ReleaseActive, CancelActive, CancelQueued,
      CancelQueuedRemove, Shutdown, Exit, Boot, RecoverFinalize, RecoverTake,
      RecoverRemove, RecoverDone, Reconcile, Sweep, durable, recovery, workers
  <2> QED
    BY <1>1, <2>1 DEF StartRunner, IInv, TypeOK, RecoveryConsistent,
      InputAvailable, Queued, Prunable, durable
<1> QED
  BY <1>1, InductiveInvariant, PTL DEF CleanStart, Spec
-----------------------------------------------------------------------------
(* Storage: nothing is left behind while no removal fails *)

\* A worker that gives its input back still has it.
HoldsInput == \A w \in Workers : wpc[w] = "take" => wtask[w] \in inputs

Storage == NoOrphans /\ HoldsInput

LEMMA StorageSubmit ==
  ASSUME IInv, Storage, "remove" \notin Faults, NEW s \in Submissions, SubmitStep(s)
  PROVE  Storage'
<1> USE DEF Storage, NoOrphans, HoldsInput, Holds, Serving, Queued, SubmitTo, IInv, TypeOK,
            SubmittersConsistent, BeforeCommit, durable, recovery, workers
<1>1. CASE StageBegin(s)
  BY <1>1 DEF StageBegin
<1>2. CASE StagePublish(s)
  BY <1>2 DEF StagePublish
<1>3. CASE StageFail(s)
  BY <1>3 DEF StageFail
<1>4. CASE Enqueue(s)
  BY <1>4 DEF Enqueue
<1>5. CASE EnqueueRefused(s)
  BY <1>5 DEF EnqueueRefused
<1>6. CASE RemoveRejected(s)
  BY <1>6 DEF RemoveRejected
<1>7. CASE SubmitNotify(s)
  BY <1>7 DEF SubmitNotify
<1> QED
  BY <1>1, <1>2, <1>3, <1>4, <1>5, <1>6, <1>7 DEF SubmitStep

LEMMA StorageWorker ==
  ASSUME IInv, Storage, "remove" \notin Faults, "take" \notin Faults,
         NEW w \in Workers, WorkerStep(w)
  PROVE  Storage'
<1> USE SubmissionsAssumption
    DEF Storage, NoOrphans, HoldsInput, Holds, Serving, Queued, WorkerTo, IInv, TypeOK,
        InputAvailable, ExclusiveExecution, WorkersConsistent, IdleSteps, Pending, Executing,
        Started, Terminal, ExecutionUnchanged, durable, recovery, workers
<1>1. CASE Claim(w)
  BY <1>1 DEF Claim, Oldest, Claimable
<1>2. CASE ClaimNothing(w)
  BY <1>2 DEF ClaimNothing
<1>3. CASE ClaimFail(w)
  BY <1>3 DEF ClaimFail
<1>4. CASE ClaimStopped(w)
  BY <1>4 DEF ClaimStopped
<1>5. CASE WakeUp(w)
  BY <1>5 DEF WakeUp
<1>6. CASE RetryTimer(w)
  BY <1>6 DEF RetryTimer
<1>7. CASE WaitStopped(w)
  BY <1>7 DEF WaitStopped
<1>8. CASE MarkRunning(w)
  BY <1>8 DEF MarkRunning
<1>9. CASE FinishCompleted(w)
  BY <1>9 DEF FinishCompleted
<1>10. CASE FinishTerminated(w)
  BY <1>10 DEF FinishTerminated, Causes
<1>11. CASE ExecuteAborted(w)
  BY <1>11 DEF ExecuteAborted
<1>12. CASE TakeInput(w)
  BY <1>12 DEF TakeInput
<1>13. CASE RemoveInput(w)
  BY <1>13 DEF RemoveInput
<1>14. CASE ReleaseActive(w)
  BY <1>14 DEF ReleaseActive
<1> QED
  BY <1>1, <1>2, <1>3, <1>4, <1>5, <1>6, <1>7, <1>8, <1>9, <1>10, <1>11, <1>12, <1>13, <1>14 DEF WorkerStep

LEMMA StorageOperator ==
  ASSUME IInv, Storage, "remove" \notin Faults, OperatorStep
  PROVE  Storage'
<1> USE SubmissionsAssumption
    DEF Storage, NoOrphans, HoldsInput, Holds, Serving, Queued, IInv, TypeOK,
        WorkersConsistent, IdleSteps, Pending, durable, recovery, workers
<1>1. CASE \E s \in Submissions : CancelActive(s)
  BY <1>1 DEF CancelActive
<1>2. CASE \E s \in Submissions : CancelQueued(s)
  BY <1>2 DEF CancelQueued, Claimable, MuFree
<1>3. CASE CancelQueuedRemove
  BY <1>3 DEF CancelQueuedRemove
<1>4. CASE Shutdown
  BY <1>4 DEF Shutdown
<1>5. CASE Exit
  BY <1>5 DEF Exit
<1> QED
  BY <1>1, <1>2, <1>3, <1>4, <1>5 DEF OperatorStep

LEMMA StorageBoot ==
  ASSUME IInv, Storage, BootStep
  PROVE  Storage'
<1> USE DEF Storage, NoOrphans, HoldsInput, Serving, IInv, QuietUnlessServing
<1>1. ~Serving
  BY DEF BootStep, Boot, RecoverFinalize, RecoverTake, RecoverRemove, RecoverDone, Reconcile,
    Sweep, StartRunner
<1>2. \A w \in Workers : wpc'[w] # "take"
  BY <1>1 DEF BootStep, Boot, RecoverFinalize, RecoverTake, RecoverRemove, RecoverDone,
    Reconcile, Sweep, StartRunner, workers
<1>3. CASE StartRunner
  <2>1. inputs' = Queued' /\ dirs' \subseteq Queued' /\ staging' = {}
    BY <1>3 DEF StartRunner, RecoveryConsistent, Prunable, Queued, durable
  <2> QED
    BY <1>2, <2>1
<1>4. CASE ~StartRunner
  <2>1. ~Serving'
    BY <1>1, <1>4 DEF BootStep, Boot, RecoverFinalize, RecoverTake, RecoverRemove, RecoverDone,
      Reconcile, Sweep
  <2> QED
    BY <1>2, <2>1
<1> QED
  BY <1>3, <1>4

\* While the application runs every row, directory and staging directory belongs
\* to a queued task or to somebody who is about to use or remove it: whatever
\* fails but a removal, and after a crash at any point.
THEOREM StorageAccounted ==
  ASSUME "take" \notin Faults, "remove" \notin Faults
  PROVE  Spec => []NoOrphans
<1>1. Init => Storage
  BY DEF Init, Storage, NoOrphans, HoldsInput, Serving
<1>2. IInv /\ Storage /\ [Next]_vars => Storage'
  <2>1. ASSUME Storage, UNCHANGED vars PROVE Storage'
    BY <2>1 DEF vars, Storage, NoOrphans, HoldsInput, Holds, Serving, Queued
  <2> QED
    BY <2>1, StorageSubmit, StorageWorker, StorageOperator, StorageBoot DEF Next
<1>3. Storage => NoOrphans
  BY DEF Storage
<1> QED
  BY <1>1, <1>2, <1>3, InductiveInvariant, PTL DEF Spec
-----------------------------------------------------------------------------
(* The wake channel: a token for every sleeper while no claim fails *)

Sleepers == {w \in Workers : wpc[w] = "wait"}

NobodyRetries == \A w \in Workers : wpc[w] # "retry"

LEMMA SleepersCount ==
  /\ IsFiniteSet(Sleepers) /\ Cardinality(Sleepers) \in Nat
  /\ Cardinality(Sleepers) <= MaxConcurrent
<1>1. Sleepers \in SUBSET Workers
  BY DEF Sleepers
<1> QED
  BY <1>1, WorkersAssumption, FS_Subset, FS_CardinalityType DEF MaxConcurrent

\* A token less, a sleeper less.
LEMMA OneAwake ==
  ASSUME TypeOK, NobodyRetries, NEW w \in Workers, WakeUp(w)
  PROVE  Cardinality(Sleepers') = Cardinality(Sleepers) - 1 /\ wake' = wake - 1
<1>1. wpc[w] = "wait" /\ wpc' = [wpc EXCEPT ![w] = "claim"]
  BY DEF WakeUp, WorkerTo, NobodyRetries
<1>2. Sleepers' = Sleepers \ {w} /\ w \in Sleepers
  BY <1>1 DEF Sleepers, TypeOK
<1>3. Cardinality(Sleepers \ {w}) = Cardinality(Sleepers) - 1
  BY <1>2, SleepersCount, FS_RemoveElement
<1> QED
  BY <1>2, <1>3 DEF WakeUp

\* What is announced later is announced by a notification, which fills the channel.
LEMMA WokenStep ==
  ASSUME IInv, NobodyRetries, EverySleeperWoken, "claim" \notin Faults, [Next]_vars
  PROVE  NobodyRetries' /\ EverySleeperWoken'
<1> USE DEF IInv, durable, recovery, workers
<1>1. ASSUME NEW s \in Submissions, SubmitStep(s)
      PROVE  NobodyRetries' /\ EverySleeperWoken'
  <2>1. UNCHANGED <<wpc, phase>> /\ Sleepers' = Sleepers
    BY <1>1 DEF SubmitStep, StageBegin, StagePublish, StageFail, Enqueue, EnqueueRefused,
      RemoveRejected, SubmitNotify, Sleepers
  <2>2. CASE SubmitNotify(s)
    <3>1. phase' = "open" => wake' = MaxConcurrent
      BY <2>1, <2>2 DEF SubmitNotify, Notified
    <3> QED
      BY <2>1, <3>1, SleepersCount DEF NobodyRetries, EverySleeperWoken, Sleepers
  <2>3. CASE ~SubmitNotify(s)
    <3>1. wake' = wake
      BY <1>1, <2>3 DEF SubmitStep, StageBegin, StagePublish, StageFail, Enqueue,
        EnqueueRefused, RemoveRejected
    <3>2. Announced' \subseteq Announced
      BY <1>1, <2>3 DEF SubmitStep, SubmitTo, StageBegin, StagePublish, StageFail, Enqueue,
        EnqueueRefused, RemoveRejected, Announced, Claimable, Queued, TypeOK
    <3> QED
      BY <2>1, <3>1, <3>2 DEF NobodyRetries, EverySleeperWoken, Sleepers
  <2> QED
    BY <2>2, <2>3
<1>2. ASSUME NEW w \in Workers, WorkerStep(w)
      PROVE  NobodyRetries' /\ EverySleeperWoken'
  <2>1. UNCHANGED <<phase, sub>>
    BY <1>2 DEF WorkerStep, Claim, ClaimNothing, ClaimFail, ClaimStopped, WakeUp, RetryTimer,
      WaitStopped, MarkRunning, FinishCompleted, FinishTerminated, ExecuteAborted,
      ExecutionUnchanged, TakeInput, RemoveInput, ReleaseActive
  <2>2. NobodyRetries'
    BY <1>2 DEF WorkerStep, WorkerTo, Claim, ClaimNothing, ClaimFail, ClaimStopped, WakeUp,
      RetryTimer, WaitStopped, MarkRunning, FinishCompleted, FinishTerminated, ExecuteAborted,
      TakeInput, RemoveInput, ReleaseActive, NobodyRetries, TypeOK
  <2>3. Announced' \subseteq Announced
    <3>1. Queued' \subseteq Queued
      BY <1>2 DEF WorkerStep, Claim, ClaimNothing, ClaimFail, ClaimStopped, WakeUp, RetryTimer,
        WaitStopped, MarkRunning, FinishCompleted, FinishTerminated, ExecuteAborted,
        ExecutionUnchanged, TakeInput, RemoveInput, ReleaseActive, Queued, TypeOK, Causes
    <3>2. inputs' \subseteq inputs
      BY <1>2 DEF WorkerStep, Claim, ClaimNothing, ClaimFail, ClaimStopped, WakeUp, RetryTimer,
        WaitStopped, MarkRunning, FinishCompleted, FinishTerminated, ExecuteAborted,
        ExecutionUnchanged, TakeInput, RemoveInput, ReleaseActive
    <3> QED
      BY <2>1, <3>1, <3>2 DEF Announced, Claimable
  <2>4. CASE WakeUp(w)
    <3>1. Cardinality(Sleepers') = Cardinality(Sleepers) - 1 /\ wake' = wake - 1
      BY <2>4, OneAwake
    <3>2. Cardinality(Sleepers) \in Nat /\ wake \in Int
      BY SleepersCount DEF TypeOK
    <3> QED
      BY <2>1, <2>2, <2>3, <3>1, <3>2 DEF EverySleeperWoken, Sleepers
  <2>5. CASE ClaimNothing(w)
    <3>1. Announced' = {}
      BY <2>5 DEF ClaimNothing, Announced, Claimable, Queued
    <3> QED
      BY <2>2, <3>1 DEF EverySleeperWoken
  <2>6. CASE ~WakeUp(w) /\ ~ClaimNothing(w) /\ phase = "open"
    <3>1. wake' = wake
      BY <1>2, <2>6 DEF WorkerStep, Claim, ClaimFail, ClaimStopped, RetryTimer,
        WaitStopped, MarkRunning, FinishCompleted, FinishTerminated, ExecuteAborted,
        ExecutionUnchanged, TakeInput, RemoveInput, ReleaseActive
    <3>2. Sleepers' = Sleepers
      BY <1>2, <2>6 DEF WorkerStep, WorkerTo, Claim, ClaimFail, ClaimStopped, RetryTimer,
        WaitStopped, MarkRunning, FinishCompleted, FinishTerminated, ExecuteAborted,
        ExecutionUnchanged, TakeInput, RemoveInput, ReleaseActive, Sleepers, TypeOK
    <3> QED
      BY <2>1, <2>2, <2>3, <3>1, <3>2 DEF EverySleeperWoken, Sleepers
  <2>7. CASE phase # "open"
    BY <2>1, <2>2, <2>7 DEF EverySleeperWoken
  <2> QED
    BY <2>4, <2>5, <2>6, <2>7
<1>3. CASE OperatorStep
  <2>1. NobodyRetries'
    BY <1>3 DEF OperatorStep, CancelActive, CancelQueued, CancelQueuedRemove, Shutdown, Exit,
      NobodyRetries
  <2>2. CASE Shutdown \/ Exit
    BY <2>1, <2>2 DEF Shutdown, Exit, EverySleeperWoken
  <2>3. CASE ~Shutdown /\ ~Exit
    <3>1. UNCHANGED <<phase, wake, wpc>> /\ Announced' \subseteq Announced
      BY <1>3, <2>3 DEF OperatorStep, CancelActive, CancelQueued, CancelQueuedRemove,
        Announced, Claimable, Queued, TypeOK
    <3> QED
      BY <2>1, <3>1 DEF EverySleeperWoken
  <2> QED
    BY <2>2, <2>3
<1>4. CASE BootStep
  <2>1. CASE StartRunner
    <3>1. wake' = MaxConcurrent /\ NobodyRetries' /\ Sleepers' = {}
      BY <2>1 DEF StartRunner, Notified, NobodyRetries, Sleepers
    <3>2. Cardinality({}) = 0
      BY FS_EmptySet
    <3> QED
      BY <3>1, <3>2, MaxConcurrentPositive DEF EverySleeperWoken, Sleepers
  <2>2. CASE ~StartRunner
    <3>1. phase' # "open" /\ wpc' = wpc
      BY <1>4, <2>2 DEF BootStep, Boot, RecoverFinalize, RecoverTake, RecoverRemove,
        RecoverDone, Reconcile, Sweep
    <3> QED
      BY <3>1 DEF EverySleeperWoken, NobodyRetries
  <2> QED
    BY <2>1, <2>2
<1>5. CASE UNCHANGED vars
  BY <1>5 DEF vars, NobodyRetries, EverySleeperWoken, Announced, Claimable, Queued
<1> QED
  BY <1>1, <1>2, <1>3, <1>4, <1>5 DEF Next

\* While no claim fails there is a token in the wake channel for every sleeping
\* worker as long as an announced task can be claimed, so all the slots are used.
THEOREM SleepersWoken ==
  ASSUME "claim" \notin Faults
  PROVE  Spec => []EverySleeperWoken
<1>1. Init => NobodyRetries /\ EverySleeperWoken
  BY DEF Init, NobodyRetries, EverySleeperWoken
<1>2. IInv /\ NobodyRetries /\ EverySleeperWoken /\ [Next]_vars
        => NobodyRetries' /\ EverySleeperWoken'
  BY WokenStep
<1> QED
  BY <1>1, <1>2, InductiveInvariant, PTL DEF Spec
-----------------------------------------------------------------------------
(* The limits of the settings *)

\* The tasks in runner.active.
ActiveTasks == {s \in Submissions : active[s] # "none"}

WithinQueue == IsFiniteSet(Queued) /\ Cardinality(Queued) <= MaxQueued

\* Each active task has a worker of its own.
LEMMA ActiveBounded ==
  ASSUME IInv
  PROVE  Cardinality(ActiveTasks) <= MaxConcurrent
<1> DEFINE Owner == [s \in ActiveTasks |-> CHOOSE w \in Workers : wtask[w] = s]
<1>1. \A s \in ActiveTasks : Owner[s] \in Workers /\ wtask[Owner[s]] = s
  BY DEF ActiveTasks, IInv, ExclusiveExecution
<1>2. Owner \in Injection(ActiveTasks, Workers)
  <2>1. Owner \in [ActiveTasks -> Workers]
    BY <1>1
  <2>2. \A s, t \in ActiveTasks : Owner[s] = Owner[t] => s = t
    BY <1>1
  <2> HIDE DEF Owner
  <2> QED
    BY <2>1, <2>2 DEF Injection, IsInjective
<1> HIDE DEF Owner
<1> QED
  BY <1>2, WorkersAssumption, FS_Injection DEF MaxConcurrent

\* Only a submission adds to the queue, and it counts first.
LEMMA QueueShrinks ==
  ASSUME IInv, [Next]_vars, ~\E s \in Submissions : Enqueue(s)
  PROVE  Queued' \subseteq Queued
<1> USE DEF IInv, TypeOK, Queued, durable, recovery, workers
<1>1. ASSUME NEW s \in Submissions, SubmitStep(s) PROVE status' = status
  BY <1>1 DEF SubmitStep, StageBegin, StagePublish, StageFail, EnqueueRefused, RemoveRejected,
    SubmitNotify
<1>2. ASSUME NEW w \in Workers, WorkerStep(w) PROVE Queued' \subseteq Queued
  BY <1>2 DEF WorkerStep, Claim, ClaimNothing, ClaimFail, ClaimStopped, WakeUp, RetryTimer,
    WaitStopped, MarkRunning, FinishCompleted, FinishTerminated, ExecuteAborted,
    ExecutionUnchanged, TakeInput, RemoveInput, ReleaseActive, Causes
<1>3. CASE OperatorStep
  BY <1>3 DEF OperatorStep, CancelActive, CancelQueued, CancelQueuedRemove, Shutdown, Exit
<1>4. CASE BootStep
  BY <1>4 DEF BootStep, Boot, RecoverFinalize, RecoverTake, RecoverRemove, RecoverDone,
    Reconcile, Sweep, StartRunner
<1>5. CASE UNCHANGED vars
  BY <1>5 DEF vars
<1> QED
  BY <1>1, <1>2, <1>3, <1>4, <1>5 DEF Next

LEMMA QueueStep ==
  ASSUME IInv, WithinQueue, [Next]_vars
  PROVE  WithinQueue'
<1>1. ASSUME NEW s \in Submissions, Enqueue(s) PROVE WithinQueue'
  <2>1. Queued' = Queued \cup {s}
    BY <1>1 DEF Enqueue, Queued, IInv, TypeOK
  <2>2. s \notin Queued
    BY <1>1 DEF Enqueue, SubmitTo, Queued, IInv, SubmittersConsistent, BeforeCommit
  <2>3. IsFiniteSet(Queued \cup {s}) /\ Cardinality(Queued \cup {s}) = Cardinality(Queued) + 1
    BY <2>2, FS_AddElement DEF WithinQueue
  <2>4. Cardinality(Queued) < MaxQueued /\ Cardinality(Queued) \in Nat
    BY <1>1, FS_CardinalityType DEF Enqueue, WithinQueue
  <2>5. Cardinality(Queued) + 1 <= MaxQueued
    BY <2>4, MaxQueuedAssumption
  <2> QED
    BY <2>1, <2>3, <2>5 DEF WithinQueue
<1>2. CASE ~\E s \in Submissions : Enqueue(s)
  <2>1. PICK after : after = Queued'
    OBVIOUS
  <2>2. after \subseteq Queued
    BY <1>2, <2>1, QueueShrinks
  <2>3. /\ IsFiniteSet(after) /\ Cardinality(after) <= Cardinality(Queued)
        /\ Cardinality(after) \in Nat /\ Cardinality(Queued) \in Nat
    BY <2>2, FS_Subset, FS_CardinalityType DEF WithinQueue
  <2>4. Cardinality(after) <= MaxQueued
    BY <2>3, MaxQueuedAssumption DEF WithinQueue
  <2> QED
    BY <2>1, <2>3, <2>4 DEF WithinQueue
<1> QED
  BY <1>1, <1>2

\* No more than tasks.max_queued tasks ever wait and no more than
\* tasks.max_concurrent are active, over all restarts: EnqueueTask counts in the
\* transaction that inserts, and a worker owns one task at a time.
THEOREM LimitsKept ==
  Spec => [](Cardinality(Queued) <= MaxQueued /\ Cardinality(ActiveTasks) <= MaxConcurrent)
<1>1. Init => WithinQueue
  <2> SUFFICES ASSUME Init PROVE WithinQueue
    OBVIOUS
  <2>1. Queued = {}
    BY DEF Init, Queued
  <2> QED
    BY <2>1, FS_EmptySet, MaxQueuedAssumption DEF WithinQueue
<1>2. IInv /\ WithinQueue /\ [Next]_vars => WithinQueue'
  BY QueueStep
<1>3. IInv /\ WithinQueue => Cardinality(Queued) <= MaxQueued /\ Cardinality(ActiveTasks) <= MaxConcurrent
  BY ActiveBounded DEF WithinQueue
<1> QED
  BY <1>1, <1>2, <1>3, InductiveInvariant, PTL DEF Spec
=============================================================================
