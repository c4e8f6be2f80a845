------------------------- MODULE TaskQueueRefinement -------------------------
(***************************************************************************)
(* TaskQueue implements TaskLifecycle, for every value of the constants.   *)
(* The invariant of TaskQueueProofs gives what the mapping needs: a task   *)
(* in runner.active has an owner of its own, so a worker that claims finds *)
(* a free slot, and recovery settles only tasks nobody executes.           *)
(***************************************************************************)
EXTENDS TaskQueueProofs, Functions

ExecutingTasks == {s \in Submissions : status[s] \in Started /\ active[s] # "none"}

\* The tasks in execution are owned by different workers, so a worker that
\* owns none leaves room for one more.
LEMMA SlotFree ==
  ASSUME IInv, NEW w \in Workers, wpc[w] = "claim"
  PROVE  Cardinality(ExecutingTasks) < MaxConcurrent
<1> DEFINE Others == Workers \ {w}
           Owner == [s \in ExecutingTasks |-> CHOOSE v \in Workers : wtask[v] = s]
<1>1. \A s \in ExecutingTasks : Owner[s] \in Workers /\ wtask[Owner[s]] = s
  BY DEF ExecutingTasks, IInv, ExclusiveExecution
<1>2. wtask[w] = NoTask
  BY DEF IInv, WorkersConsistent, IdleSteps
<1>3. \A s \in ExecutingTasks : s # NoTask
  BY SubmissionsAssumption DEF ExecutingTasks
<1>4. Owner \in Injection(ExecutingTasks, Others)
  <2>1. Owner \in [ExecutingTasks -> Others]
    BY <1>1, <1>2, <1>3
  <2>2. \A s, t \in ExecutingTasks : Owner[s] = Owner[t] => s = t
    BY <1>1
  <2> HIDE DEF Owner, Others
  <2> QED
    BY <2>1, <2>2 DEF Injection, IsInjective
<1>5. IsFiniteSet(Others) /\ Cardinality(Others) = MaxConcurrent - 1
  BY WorkersAssumption, FS_RemoveElement DEF MaxConcurrent
<1>6. Cardinality(ExecutingTasks) <= Cardinality(Others) /\ IsFiniteSet(ExecutingTasks)
  <2> HIDE DEF Owner, Others
  <2> QED
    BY <1>4, <1>5, FS_Injection
<1>7. Cardinality(ExecutingTasks) \in Nat
  BY <1>6, FS_CardinalityType
<1> HIDE DEF Others
<1> QED
  BY <1>5, <1>6, <1>7, MaxConcurrentPositive

LEMMA MappedSets ==
  ASSUME TypeOK
  PROVE  /\ Lifecycle!At("waiting") = Queued
         /\ Lifecycle!At("executing") = ExecutingTasks
  BY DEF Lifecycle!At, StageOf, Queued, ExecutingTasks, TypeOK, Statuses,
         Started, Terminal

\* The instance has its own copy of the library's operator.
LEMMA SameCardinality ==
  ASSUME NEW S
  PROVE  Lifecycle!Cardinality(S) = Cardinality(S)
  BY DEF Lifecycle!Cardinality, Cardinality

LEMMA RefinesInit == Init => Lifecycle!Init
  BY DEF Init, Lifecycle!Init, StageOf, Started

\* A step that keeps the ids, the statuses and the membership of
\* runner.active is invisible to a user of the queue.
LEMMA Invisible ==
  ASSUME UNCHANGED <<id, lastId, status>>,
         \A s \in Submissions : active'[s] = "none" <=> active[s] = "none"
  PROVE  UNCHANGED Lifecycle!vars
  BY DEF Lifecycle!vars, StageOf, Started

LEMMA RefinesSubmit ==
  ASSUME IInv, NEW s \in Submissions, SubmitStep(s)
  PROVE  [Lifecycle!Next]_(Lifecycle!vars)
<1> USE DEF durable, recovery, workers
<1>1. CASE Enqueue(s)
  <2>1. status[s] = "absent"
    BY <1>1 DEF Enqueue, SubmitTo, IInv, SubmittersConsistent, BeforeCommit
  <2>2. Cardinality(Lifecycle!At("waiting")) < MaxQueued
    BY <1>1, MappedSets DEF Enqueue, IInv
  <2>3. StageOf(s) = "absent"
    BY <2>1 DEF StageOf, Started
  <2>4. /\ status' = [status EXCEPT ![s] = "queued"] /\ UNCHANGED active
        /\ id' = [id EXCEPT ![s] = lastId + 1] /\ lastId' = lastId + 1
    BY <1>1 DEF Enqueue
  <2>5. \A t \in Submissions :
          StageOf(t)' = IF t = s THEN "waiting" ELSE StageOf(t)
    BY <2>4 DEF StageOf, IInv, TypeOK, Started
  <2>6. Lifecycle!Accept(s)
    BY <2>2, <2>3, <2>4, <2>5, SameCardinality DEF Lifecycle!Accept
  <2> QED
    BY <2>6 DEF Lifecycle!Next
<1>2. CASE ~Enqueue(s)
  <2>1. UNCHANGED <<id, lastId, status, active>>
    BY <1>2 DEF SubmitStep, StageBegin, StagePublish, StageFail,
      EnqueueRefused, RemoveRejected, SubmitNotify
  <2> QED
    BY <2>1, Invisible
<1> QED
  BY <1>1, <1>2

LEMMA RefinesWorker ==
  ASSUME IInv, NEW w \in Workers, WorkerStep(w)
  PROVE  [Lifecycle!Next]_(Lifecycle!vars)
<1> USE DEF durable, recovery, workers
<1> USE SubmissionsAssumption
<1> DEFINE mine == wtask[w]
<1>1. CASE Claim(w)
  <2>1. PICK s \in Oldest(Claimable) :
          /\ status' = [status EXCEPT ![s] = "preparing"]
          /\ active' = [active EXCEPT ![s] = "live"]
    BY <1>1 DEF Claim
  <2>2. s \in Submissions /\ status[s] = "queued" /\ \A t \in Queued : id[s] <= id[t]
    BY <2>1 DEF Oldest, Claimable, Queued, IInv, InputAvailable
  <2>3. Cardinality(ExecutingTasks) < MaxConcurrent
    BY <1>1, SlotFree DEF Claim, WorkerTo
  <2>4. StageOf(s) = "waiting"
    BY <2>2 DEF StageOf, Started
  <2>5. \A t \in Submissions :
          StageOf(t)' = IF t = s THEN "executing" ELSE StageOf(t)
    BY <2>1, <2>2 DEF StageOf, IInv, TypeOK, Started
  <2>6. UNCHANGED <<id, lastId>>
    BY <1>1 DEF Claim
  <2>7. Lifecycle!At("waiting") = Queued
        /\ Lifecycle!At("executing") = ExecutingTasks
    BY MappedSets DEF IInv
  <2>8. Lifecycle!Begin(s)
    BY <2>2, <2>3, <2>4, <2>5, <2>6, <2>7, SameCardinality DEF Lifecycle!Begin
  <2> QED
    BY <2>2, <2>8 DEF Lifecycle!Next
<1>2. CASE FinishCompleted(w) \/ FinishTerminated(w)
  <2>1. mine \in Submissions /\ status[mine] \in Started /\ active[mine] # "none"
    BY <1>2 DEF FinishCompleted, FinishTerminated, WorkerTo, IInv, TypeOK,
      InputAvailable, ExclusiveExecution, Executing
  <2>2. PICK outcome \in Terminal : status' = [status EXCEPT ![mine] = outcome]
    BY <1>2, <2>1
    DEF FinishCompleted, FinishTerminated, IInv, TypeOK, Causes, Terminal
  <2>3. UNCHANGED <<id, lastId, active>>
    BY <1>2 DEF FinishCompleted, FinishTerminated, ExecutionUnchanged
  <2>4. StageOf(mine) = "executing"
    BY <2>1 DEF StageOf, Started
  <2>5. \A t \in Submissions :
          StageOf(t)' = IF t = mine THEN outcome ELSE StageOf(t)
    <3> HIDE DEF mine
    <3> QED
      BY <2>1, <2>2, <2>3 DEF StageOf, IInv, TypeOK, Started, Terminal
  <2>6. Lifecycle!End(mine, outcome)
    <3> HIDE DEF mine
    <3> QED
      BY <2>1, <2>3, <2>4, <2>5 DEF Lifecycle!End
  <2> QED
    BY <2>1, <2>2, <2>6 DEF Lifecycle!Next, Lifecycle!Outcomes, Terminal
<1>3. CASE ReleaseActive(w)
  <2>1. mine \in Submissions /\ active[mine] # "none"
    BY <1>3 DEF ReleaseActive, WorkerTo, IInv, TypeOK, WorkersConsistent,
      IdleSteps, ExclusiveExecution
  <2>2. CASE status[mine] \in Started
    <3>1. Lifecycle!Strand({mine})
      BY <1>3, <2>1, <2>2
      DEF ReleaseActive, Lifecycle!Strand, StageOf, IInv, TypeOK, Statuses,
          Started, Terminal
    <3>2. {mine} \in SUBSET Lifecycle!At("executing")
      BY <2>1, <2>2, MappedSets DEF ExecutingTasks, IInv
    <3> QED
      BY <3>1, <3>2 DEF Lifecycle!Next
  <2>3. CASE status[mine] \notin Started
    BY <1>3, <2>1, <2>3
    DEF ReleaseActive, Lifecycle!vars, StageOf, IInv, TypeOK
  <2> QED
    BY <2>2, <2>3
<1>4. CASE MarkRunning(w)
  <2>1. mine \in Submissions
    BY <1>4 DEF MarkRunning, IInv, TypeOK, InputAvailable
  <2> QED
    BY <1>4, <2>1
    DEF MarkRunning, ExecutionUnchanged, Lifecycle!vars, StageOf, IInv,
        TypeOK, Statuses, Started, Terminal
<1>5. CASE ~(\/ Claim(w) \/ FinishCompleted(w) \/ FinishTerminated(w)
             \/ ReleaseActive(w) \/ MarkRunning(w))
  <2>1. UNCHANGED <<id, lastId, status, active>>
    BY <1>5 DEF WorkerStep, ClaimNothing, ClaimFail, ClaimStopped, WakeUp,
      RetryTimer, WaitStopped, ExecuteAborted, ExecutionUnchanged, TakeInput,
      RemoveInput
  <2> QED
    BY <2>1, Invisible
<1> QED
  BY <1>1, <1>2, <1>3, <1>4, <1>5

LEMMA RefinesOperator ==
  ASSUME IInv, OperatorStep
  PROVE  [Lifecycle!Next]_(Lifecycle!vars)
<1> USE DEF durable, recovery, workers
<1>1. ASSUME NEW s \in Submissions, CancelQueued(s)
      PROVE  Lifecycle!Next
  <2>1. Lifecycle!Withdraw(s)
    BY <1>1 DEF CancelQueued, Claimable, Queued, Lifecycle!Withdraw, StageOf,
      IInv, TypeOK, Statuses, Started, Terminal
  <2> QED
    BY <2>1 DEF Lifecycle!Next
<1>2. CASE Exit
  <2>1. CASE ExecutingTasks = {}
    BY <1>2, <2>1
    DEF Exit, ExecutingTasks, Lifecycle!vars, StageOf, IInv, TypeOK, Started
  <2>2. CASE ExecutingTasks # {}
    <3>1. Lifecycle!Strand(ExecutingTasks)
      BY <1>2, <2>2
      DEF Exit, ExecutingTasks, Lifecycle!Strand, StageOf, IInv, TypeOK,
          Statuses, Started, Terminal
    <3>2. ExecutingTasks \in SUBSET Lifecycle!At("executing")
      BY MappedSets DEF IInv
    <3> QED
      BY <3>1, <3>2 DEF Lifecycle!Next
  <2> QED
    BY <2>1, <2>2
<1>3. ASSUME NEW s \in Submissions, CancelActive(s)
      PROVE  UNCHANGED Lifecycle!vars
  BY <1>3, Invisible DEF CancelActive, CancelCause, IInv, TypeOK
<1>4. CASE CancelQueuedRemove
  BY <1>4, Invisible DEF CancelQueuedRemove
<1>5. CASE Shutdown
  BY <1>5, Invisible DEF Shutdown, CancelCause
<1> QED
  BY <1>1, <1>2, <1>3, <1>4, <1>5 DEF OperatorStep

\* The tasks recovery still has to settle are started tasks, except the one
\* whose input it is removing.
SettlesOnce ==
  \A s \in todo :
    /\ phase = "recovering"
    /\ \/ status[s] \in Started
       \/ rstep # "finalize" /\ \A t \in todo : id[s] <= id[t]

LEMMA SettlesOnceStep == IInv /\ SettlesOnce /\ [Next]_vars => SettlesOnce'
<1> SUFFICES ASSUME IInv, SettlesOnce, [Next]_vars
             PROVE  SettlesOnce'
  OBVIOUS
<1> USE DEF SettlesOnce, durable, recovery, workers
<1>1. CASE \E s \in Submissions : SubmitStep(s)
  <2>1. UNCHANGED <<todo, rstep, phase>> /\ (todo = {} \/ UNCHANGED <<status, id>>)
    BY <1>1 DEF SubmitStep, StageBegin, StagePublish, StageFail, Enqueue,
      EnqueueRefused, RemoveRejected, SubmitNotify, SubmitTo, IInv,
      QuietUnlessServing, Serving
  <2> QED
    BY <2>1
<1>2. CASE \E w \in Workers : WorkerStep(w)
  <2>1. Serving
    BY <1>2 DEF WorkerStep, WorkerTo, Claim, ClaimNothing, ClaimFail,
      ClaimStopped, WakeUp, RetryTimer, WaitStopped, MarkRunning,
      FinishCompleted, FinishTerminated, ExecuteAborted, TakeInput,
      RemoveInput, ReleaseActive, Executing, IInv, QuietUnlessServing
  <2>2. UNCHANGED <<todo, rstep, phase>>
    BY <1>2 DEF WorkerStep, Claim, ClaimNothing, ClaimFail, ClaimStopped,
      WakeUp, RetryTimer, WaitStopped, MarkRunning, FinishCompleted,
      FinishTerminated, ExecuteAborted, ExecutionUnchanged, TakeInput,
      RemoveInput, ReleaseActive
  <2> QED
    BY <2>1, <2>2 DEF Serving
<1>3. CASE OperatorStep
  BY <1>3 DEF OperatorStep, CancelActive, CancelQueued, CancelQueuedRemove,
    Shutdown, Exit
<1>4. CASE BootStep
  <2> USE DEF IInv, TypeOK, UniqueIds, RecoveryConsistent, Pending, Oldest
  <2>1. CASE Boot
    BY <2>1 DEF Boot, Interrupted, InputAvailable
  <2>2. CASE \E s \in Submissions : RecoverFinalize(s)
    BY <2>2 DEF RecoverFinalize
  <2>3. CASE \E s \in Submissions : RecoverTake(s)
    BY <2>3 DEF RecoverTake
  <2>4. CASE \E s \in Submissions : RecoverRemove(s)
    BY <2>4 DEF RecoverRemove
  <2>5. CASE RecoverDone \/ Reconcile \/ Sweep \/ StartRunner
    BY <2>5 DEF RecoverDone, Reconcile, Sweep, StartRunner
  <2> QED
    BY <1>4, <2>1, <2>2, <2>3, <2>4, <2>5 DEF BootStep
<1>5. CASE UNCHANGED vars
  BY <1>5 DEF vars
<1> QED
  BY <1>1, <1>2, <1>3, <1>4, <1>5 DEF Next

LEMMA RefinesBoot ==
  ASSUME IInv, SettlesOnce, BootStep
  PROVE  [Lifecycle!Next]_(Lifecycle!vars)
<1> USE DEF durable, recovery, workers
<1>1. ASSUME NEW s \in Submissions, RecoverFinalize(s)
      PROVE  [Lifecycle!Next]_(Lifecycle!vars)
  <2>1. active[s] = "none" /\ status[s] \in Started
    BY <1>1, SubmissionsAssumption
    DEF RecoverFinalize, SettlesOnce, Oldest, IInv, QuietUnlessServing,
        Serving, WorkersConsistent, IdleSteps, ExclusiveExecution
  <2>2. Lifecycle!Settle(s)
    BY <1>1, <2>1
    DEF RecoverFinalize, Lifecycle!Settle, StageOf, IInv, TypeOK, Statuses,
        Started, Terminal
  <2> QED
    BY <2>2 DEF Lifecycle!Next
<1>2. CASE ~\E s \in Submissions : RecoverFinalize(s)
  <2>1. UNCHANGED <<id, lastId, status, active>>
    BY <1>2 DEF BootStep, Boot, RecoverTake, RecoverRemove, RecoverDone,
      Reconcile, Sweep, StartRunner
  <2> QED
    BY <2>1, Invisible
<1> QED
  BY <1>1, <1>2

\* The queue, with every interleaving, failure, crash and restart, behaves
\* like the bounded FIFO queue of TaskLifecycle: at most MaxQueued tasks wait,
\* at most one task per worker executes, the oldest starts first, none starts
\* twice and an outcome is final.
THEOREM QueueImplementsLifecycle == Spec => ImplementsLifecycle
<1>1. IInv /\ SettlesOnce /\ [Next]_vars => [Lifecycle!Next]_(Lifecycle!vars)
  <2>1. ASSUME UNCHANGED vars
        PROVE  UNCHANGED Lifecycle!vars
    BY <2>1, Invisible DEF vars
  <2> QED
    BY <2>1, RefinesSubmit, RefinesWorker, RefinesOperator, RefinesBoot DEF Next
<1>2. Init => SettlesOnce
  BY DEF Init, SettlesOnce
<1> QED
  BY <1>1, <1>2, RefinesInit, SettlesOnceStep, InductiveInvariant, PTL
  DEF Spec, ImplementsLifecycle, Lifecycle!Spec
=============================================================================
