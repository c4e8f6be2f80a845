--------------------------- MODULE TaskLifecycle ---------------------------
(***************************************************************************)
(* What the durable task queue promises its users, with no queue mechanics *)
(* in it: an accepted task waits its turn, is started at most once, and is *)
(* left with one outcome that never changes.  docs/architecture.md states  *)
(* it in words: a bounded FIFO queue, queued tasks survive a restart, and  *)
(* a task that had been started is marked interrupted instead of being     *)
(* resumed.  TaskQueue is shown to implement this module.                  *)
(***************************************************************************)
EXTENDS Naturals, FiniteSets

CONSTANTS
  Submissions,   \* the submissions that may ever be made; each names one task
  MaxQueued,     \* tasks.max_queued: how many tasks may wait
  MaxConcurrent  \* tasks.max_concurrent: how many may execute at once

VARIABLES
  stage,         \* stage[s]: where the task of submission s stands
  ticket,        \* ticket[s]: its place in the order of acceptance
  lastTicket     \* the last ticket handed out

vars == <<stage, ticket, lastTicket>>

Outcomes == {"completed", "completed_with_errors", "cancelled", "interrupted"}

\* A task whose process died, or whose execution gave up, is "stranded" until
\* the next start of the application gives it an outcome.
Stages == {"absent", "waiting", "executing", "stranded"} \union Outcomes

At(name) == {s \in Submissions : stage[s] = name}

Init ==
  /\ stage = [s \in Submissions |-> "absent"]
  /\ ticket = [s \in Submissions |-> 0]
  /\ lastTicket = 0

\* A task is accepted while there is room in the queue.
Accept(s) ==
  /\ stage[s] = "absent"
  /\ Cardinality(At("waiting")) < MaxQueued
  /\ stage' = [stage EXCEPT ![s] = "waiting"]
  /\ ticket' = [ticket EXCEPT ![s] = lastTicket + 1]
  /\ lastTicket' = lastTicket + 1

\* The task that has waited longest starts when an execution slot is free.
Begin(s) ==
  /\ stage[s] = "waiting"
  /\ \A other \in At("waiting") : ticket[s] <= ticket[other]
  /\ Cardinality(At("executing")) < MaxConcurrent
  /\ stage' = [stage EXCEPT ![s] = "executing"]
  /\ UNCHANGED <<ticket, lastTicket>>

\* The operator withdraws a task that is still waiting.
Withdraw(s) ==
  /\ stage[s] = "waiting"
  /\ stage' = [stage EXCEPT ![s] = "cancelled"]
  /\ UNCHANGED <<ticket, lastTicket>>

\* An execution ends with an outcome.
End(s, outcome) ==
  /\ stage[s] = "executing"
  /\ stage' = [stage EXCEPT ![s] = outcome]
  /\ UNCHANGED <<ticket, lastTicket>>

\* Some executions stop without an outcome.
Strand(lost) ==
  /\ lost # {}
  /\ stage' = [s \in Submissions |-> IF s \in lost THEN "stranded" ELSE stage[s]]
  /\ UNCHANGED <<ticket, lastTicket>>

\* A restart settles a stranded task; it is never started again.
Settle(s) ==
  /\ stage[s] = "stranded"
  /\ stage' = [stage EXCEPT ![s] = "interrupted"]
  /\ UNCHANGED <<ticket, lastTicket>>

Next ==
  \/ \E s \in Submissions :
       \/ Accept(s)
       \/ Begin(s)
       \/ Withdraw(s)
       \/ \E outcome \in Outcomes : End(s, outcome)
       \/ Settle(s)
  \/ \E lost \in SUBSET At("executing") : Strand(lost)

Spec == Init /\ [][Next]_vars
=============================================================================
