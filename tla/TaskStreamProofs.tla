-------------------------- MODULE TaskStreamProofs --------------------------
(***************************************************************************)
(* Proofs about Generation and TaskStream for any number of entries, any   *)
(* capacity of a subscriber's channel and any number of opened reports.    *)
(***************************************************************************)
EXTENDS TaskStream, TLAPS

Outcomes == {"generated", "failed_processing", "cancelled", "interrupted"}

\* Where the execution is while it has no archive, while it writes one, and from
\* then on.
Empty == {"load", "begin", "shared", "open", "failed", "rest", "tally"}
Writing == {"entry", "record", "read", "count"}
Full == {"register", "finish", "done"}

Tasks == [status : {"preparing", "running"} \cup Terminal, failed : Nat]

\* What the variables of an execution hold as far as the proofs need it.
RunTyped ==
  /\ task \in Tasks
  /\ rows \in [Entries -> Seq(Outcomes)]
  /\ pc \in Empty \cup Writing \cup Full
  /\ processed \in 0 .. Total
  /\ verdict \in Outcomes \cup {"none"}
  /\ pc \in {"record", "read", "rest", "tally"} => verdict \in Outcomes
  /\ pc \in {"rest", "tally"} => verdict # "generated"
  /\ cause \in {"live", "cancelled", "interrupted", "over"}

\* A status is terminal only when the execution is over.
EndsLast == Over(task.status) => pc = "done"

\* The entries are recorded in order.
Recorded(n) == \A e \in Entries : Len(rows[e]) = IF e <= n THEN 1 ELSE 0

\* The row of the entry in turn has been inserted, and has not been read back yet,
\* or could not be.
Unread ==
  /\ processed < Total
  /\ pc \in {"read", "failed", "rest"}
  /\ Recorded(processed + 1)

\* Such a row leaves its entry with two: the second is written with the outcome of
\* what is left, and then the task does not complete.
Repeated(d) ==
  /\ d <= processed /\ pc \in {"rest", "tally", "done"}
  /\ \A e \in Entries : Len(rows[e]) = IF e = d THEN 2 ELSE IF e <= processed THEN 1 ELSE 0
  /\ rows[d][2] # "generated"
  /\ pc = "rest" /\ verdict = "failed_processing" => task.failed > 0
  /\ pc = "done" => task.status # "completed"

RowsInOrder == Recorded(processed) \/ Unread \/ \E d \in Entries : Repeated(d)

\* An execution that ends has recorded all entries, or none.
RecordedAtEnd ==
  /\ pc \in {"register", "finish"} => processed = Total
  /\ pc = "load" => processed = 0
  /\ pc = "done" => \/ processed = Total
                    \/ task.status # "completed" /\ \A e \in Entries : rows[e] = <<>>
  /\ pc = "record" => processed < Total
  /\ pc = "read" => Unread

\* The file follows the execution; one that is complete is in the map, or is
\* served by the one request that has taken it.
FileFollows ==
  /\ serving \in {0, 1}
  /\ pc \in Empty => file = "absent"
  /\ pc \in Empty \cup Writing \cup {"register"} => ~registered /\ serving = 0
  /\ pc = "register" => file = "complete"
  /\ registered => file = "complete" /\ serving = 0
  /\ serving = 1 => file = "complete" /\ pc = "done" /\ taken
  /\ pc \in {"finish", "done"} /\ ~registered /\ serving = 0 => file = "absent"

InMapOrNot == registered \in BOOLEAN

GenInv ==
  RunTyped /\ InMapOrNot /\ EndsLast /\ RowsInOrder /\ RecordedAtEnd /\ FileFollows

\* A report that says the task has ended was begun after its execution.
ReadAfterEnd ==
  call.at \in {"task", "rows", "back"} /\ Over(call.task) => pc = "done"

CallTyped ==
  call \in [at : {"none", "asked", "task", "rows", "back"}, again : BOOLEAN,
            task : {None, "preparing", "running"} \cup Terminal,
            rows : {<<>>} \cup [Entries -> Seq(Outcomes)], archive : BOOLEAN]

IInv == GenInv /\ CallTyped /\ ReadAfterEnd /\ ReportWhole

-----------------------------------------------------------------------------
(* The execution and its archive *)

LEMMA GenInvInit == GenInit => GenInv
<1> SUFFICES ASSUME GenInit PROVE GenInv
  OBVIOUS
<1>1. RunTyped
  BY GenerationAssumption DEF GenInit, RunTyped, Tasks, Entries, Empty, Writing, Full, Outcomes
<1>2. EndsLast
  BY DEF GenInit, EndsLast, Over, Terminal
<1>3. RowsInOrder /\ RecordedAtEnd
  BY DEF GenInit, RowsInOrder, Recorded, RecordedAtEnd, Entries
<1>4. FileFollows
  BY DEF GenInit, FileFollows, Empty, Writing
<1>5. InMapOrNot
  BY Zenon DEF GenInit, InMapOrNot
<1> QED
  BY <1>1, <1>2, <1>3, <1>4, <1>5 DEF GenInv

\* A row more leaves the other entries alone.
LEMMA RowAdded ==
  ASSUME RunTyped, processed < Total, verdict \in Outcomes,
         rows' = [rows EXCEPT ![processed + 1] = Append(@, verdict)]
  PROVE  /\ processed + 1 \in Entries
         /\ rows' \in [Entries -> Seq(Outcomes)]
         /\ \A e \in Entries : e # processed + 1 => rows'[e] = rows[e]
         /\ Len(rows'[processed + 1]) = Len(rows[processed + 1]) + 1
         /\ rows'[processed + 1][Len(rows[processed + 1]) + 1] = verdict
<1>1. processed + 1 \in Entries
  BY GenerationAssumption DEF RunTyped, Entries
<1>2. PICK n \in Entries : n = processed + 1
  BY <1>1
<1>3. rows[n] \in Seq(Outcomes) /\ rows'[n] = Append(rows[n], verdict)
  BY <1>2 DEF RunTyped
<1>4. Len(rows'[n]) = Len(rows[n]) + 1 /\ rows'[n][Len(rows[n]) + 1] = verdict
  BY <1>3
<1>5. rows' \in [Entries -> Seq(Outcomes)] /\ \A e \in Entries : e # n => rows'[e] = rows[e]
  BY <1>2 DEF RunTyped
<1> QED
  BY <1>2, <1>4, <1>5

LEMMA RecordKept ==
  ASSUME GenInv, RecordsEntry, pc' = "read", UNCHANGED <<registered, serving, taken, stopping>>
  PROVE  GenInv'
<1> USE DEF GenInv, InMapOrNot
<1>1. /\ pc = "record" /\ pc' = "read" /\ processed < Total /\ verdict \in Outcomes
      /\ rows' = [rows EXCEPT ![processed + 1] = Append(@, verdict)]
      /\ UNCHANGED <<task, processed, verdict, file, cause>>
  BY DEF RecordsEntry, Abandons, RunTyped, RecordedAtEnd
<1>2. Recorded(processed)
  BY <1>1 DEF RowsInOrder, Unread, Repeated
<1>3. Recorded(processed + 1)'
  <2> SUFFICES ASSUME NEW e \in Entries
               PROVE  Len(rows'[e]) = IF e <= processed + 1 THEN 1 ELSE 0
    BY <1>1 DEF Recorded
  <2>1. CASE e = processed + 1
    BY <1>1, <1>2, <2>1, RowAdded DEF Recorded, RunTyped, Entries
  <2>2. CASE e # processed + 1
    BY <1>1, <1>2, <2>2, RowAdded DEF Recorded, RunTyped, Entries
  <2> QED
    BY <2>1, <2>2
<1>4. RunTyped'
  BY <1>1, RowAdded DEF RunTyped, Empty, Writing
<1>5. EndsLast' /\ FileFollows'
  BY <1>1 DEF EndsLast, FileFollows, Empty, Writing
<1>6. RowsInOrder' /\ RecordedAtEnd'
  BY <1>1, <1>3 DEF RowsInOrder, RecordedAtEnd, Unread
<1> QED
  BY <1>4, <1>5, <1>6

LEMMA ReadBackKept ==
  ASSUME GenInv, ReadsEntry, pc' = "count", UNCHANGED <<registered, serving, taken, stopping>>
  PROVE  GenInv'
<1> USE DEF GenInv, InMapOrNot
<1>1. /\ pc = "read" /\ pc' = "count" /\ processed' = processed + 1
      /\ UNCHANGED <<task, rows, verdict, file, cause>>
  BY DEF ReadsEntry, Abandons
<1>2. Unread
  BY <1>1 DEF RecordedAtEnd
<1>3. RunTyped'
  BY <1>1, <1>2, GenerationAssumption DEF RunTyped, Unread, Empty, Writing
<1>4. EndsLast' /\ FileFollows'
  BY <1>1 DEF EndsLast, FileFollows, Empty, Writing
<1>5. RowsInOrder' /\ RecordedAtEnd'
  BY <1>1, <1>2 DEF RowsInOrder, RecordedAtEnd, Unread, Recorded
<1> QED
  BY <1>3, <1>4, <1>5

LEMMA RestKept ==
  ASSUME GenInv, RecordsRest, UNCHANGED <<registered, serving, taken, stopping>>
  PROVE  GenInv'
<1> USE DEF GenInv, InMapOrNot
<1>1. /\ pc = "rest" /\ pc' = "tally" /\ processed < Total /\ processed' = processed + 1
      /\ rows' = [rows EXCEPT ![processed + 1] = Append(@, verdict)]
      /\ UNCHANGED <<task, verdict, file, cause>>
  BY DEF RecordsRest
<1>2. verdict \in Outcomes /\ verdict # "generated"
  BY <1>1 DEF RunTyped
<1>3. processed + 1 \in Entries /\ processed \in Nat /\ Entries \subseteq Nat
  BY <1>1, <1>2, RowAdded DEF RunTyped, Entries
<1>4. RunTyped'
  BY <1>1, <1>2, RowAdded, GenerationAssumption DEF RunTyped, Empty, Writing
<1>5. EndsLast' /\ FileFollows'
  BY <1>1 DEF EndsLast, FileFollows, Empty, Writing
<1>6. RecordedAtEnd'
  BY <1>1 DEF RecordedAtEnd
<1>7. CASE Recorded(processed)
  <2> SUFFICES ASSUME NEW e \in Entries
               PROVE  Len(rows'[e]) = IF e <= processed + 1 THEN 1 ELSE 0
    BY <1>1, <1>4, <1>5, <1>6 DEF RowsInOrder, Recorded
  <2>1. CASE e = processed + 1
    BY <1>1, <1>2, <1>3, <1>7, <2>1, RowAdded DEF Recorded
  <2>2. CASE e # processed + 1
    BY <1>1, <1>2, <1>3, <1>7, <2>2, RowAdded DEF Recorded
  <2> QED
    BY <2>1, <2>2
<1>8. CASE Unread
  <2>1. Len(rows[processed + 1]) = 1
    <3>1. PICK n \in Entries : n = processed + 1
      BY <1>3
    <3>2. Recorded(n) /\ n <= n
      BY <1>3, <1>8, <3>1 DEF Unread
    <3>3. Len(rows[n]) = 1
      BY <3>2 DEF Recorded
    <3> QED
      BY <3>1, <3>3
  <2>2. Len(rows'[processed + 1]) = 2 /\ rows'[processed + 1][2] # "generated"
    BY <1>1, <1>2, <2>1, RowAdded
  <2>3. ASSUME NEW e \in Entries
        PROVE  Len(rows'[e]) = IF e = processed + 1 THEN 2 ELSE IF e <= processed + 1 THEN 1 ELSE 0
    <3>1. CASE e = processed + 1
      BY <2>2, <3>1
    <3>2. CASE e # processed + 1
      BY <1>1, <1>2, <1>3, <1>8, <3>2, RowAdded DEF Unread, Recorded
    <3> QED
      BY <3>1, <3>2
  <2> QED
    BY <1>1, <1>3, <1>4, <1>5, <1>6, <2>2, <2>3 DEF RowsInOrder, Repeated
<1>9. CASE \E d \in Entries : Repeated(d)
  <2>1. PICK d \in Entries : Repeated(d)
    BY <1>9
  <2>2. d # processed + 1 /\ d <= processed + 1
    BY <1>3, <2>1 DEF Repeated
  <2>3. rows'[d] = rows[d]
    BY <1>1, <1>2, <2>2, RowAdded
  <2>4. ASSUME NEW e \in Entries
        PROVE  Len(rows'[e]) = IF e = d THEN 2 ELSE IF e <= processed + 1 THEN 1 ELSE 0
    <3>1. CASE e = processed + 1
      BY <1>1, <1>2, <1>3, <2>1, <2>2, <3>1, RowAdded DEF Repeated
    <3>2. CASE e # processed + 1
      BY <1>1, <1>2, <1>3, <2>1, <3>2, RowAdded DEF Repeated
    <3> QED
      BY <3>1, <3>2
  <2> QED
    BY <1>1, <1>4, <1>5, <1>6, <2>1, <2>2, <2>3, <2>4 DEF RowsInOrder, Repeated
<1> QED
  BY <1>7, <1>8, <1>9 DEF RowsInOrder

LEMMA IncrementsTyped ==
  ASSUME task \in Tasks, Increments
  PROVE  /\ task' \in Tasks /\ task'.status = task.status
         /\ task'.failed = IF verdict = "failed_processing" THEN task.failed + 1 ELSE task.failed
<1> DEFINE more == IF verdict = "failed_processing" THEN 1 ELSE 0
<1>1. more \in Nat
  OBVIOUS
<1>2. task' = [task EXCEPT !.failed = @ + more]
  BY DEF Increments
<1> HIDE DEF more
<1>3. task' \in Tasks /\ task'.status = task.status /\ task'.failed = task.failed + more
  BY <1>1, <1>2 DEF Tasks
<1> QED
  BY <1>3 DEF more, Tasks

\* The steps of the execution that record nothing and do not end it.
Between ==
  \/ Loads /\ pc' # "done"
  \/ Begins \/ SharesDocuments \/ OpensArchive \/ PreparesEntry
  \/ RecordsEntry /\ pc' # "read"
  \/ ReadsEntry /\ pc' # "count"
  \/ CountsEntry \/ ClosesArchive \/ Fails \/ TalliesRest

\* What such a step does, as far as the invariant can tell.
Advances ==
  /\ UNCHANGED <<rows, processed, registered, serving, taken, stopping>>
  /\ task' \in Tasks
  /\ task'.status \in {task.status, "running"}
  /\ pc \notin {"done", "finish"} /\ pc' \notin {"load", "read", "done", "finish"}
  /\ pc \in {"read", "failed"} => pc' \in {"failed", "rest"}
  /\ pc \in {"rest", "tally"} => pc = "tally" /\ pc' = "rest" /\ UNCHANGED verdict
                                 /\ (verdict = "failed_processing" => task'.failed > 0)

LEMMA BetweenKept ==
  ASSUME GenInv, Between, UNCHANGED <<registered, serving, taken, stopping>>
  PROVE  GenInv'
<1> USE DEF GenInv, InMapOrNot
<1>1. Advances
  <2> USE DEF Between, RunTyped, Advances, Stay
  <2>1. CASE Begins
    BY <2>1 DEF Begins, Rest, Tasks
  <2>2. CASE SharesDocuments
    BY <2>2 DEF SharesDocuments, Rest
  <2>3. CASE OpensArchive
    BY <2>3 DEF OpensArchive, Abandons
  <2>4. CASE PreparesEntry
    BY <2>4 DEF PreparesEntry, Abandons
  <2>5. CASE CountsEntry
    BY <2>5, IncrementsTyped DEF CountsEntry, Abandons, Increments
  <2>6. CASE ClosesArchive
    BY <2>6 DEF ClosesArchive, Abandons
  <2>7. CASE Fails
    BY <2>7 DEF Fails, Rest
  <2>8. CASE TalliesRest
    <3>1. Increments /\ pc = "tally" /\ pc' = "rest" /\ UNCHANGED verdict
      BY <2>8 DEF TalliesRest, GoTo
    <3>2. /\ task' \in Tasks /\ task'.status = task.status
          /\ verdict = "failed_processing" => task'.failed > 0
      BY <3>1, IncrementsTyped DEF Tasks
    <3> QED
      BY <3>1, <3>2 DEF Increments
  <2>9. CASE Loads /\ pc' # "done"
    BY <2>9 DEF Loads, Rest, Leaves
  <2>10. CASE RecordsEntry /\ pc' # "read"
    BY <2>10 DEF RecordsEntry, Abandons
  <2>11. CASE ReadsEntry /\ pc' # "count"
    BY <2>11 DEF ReadsEntry, Abandons
  <2> QED
    BY <2>1, <2>2, <2>3, <2>4, <2>5, <2>6, <2>7, <2>8, <2>9, <2>10, <2>11
<1>2. RunTyped' /\ FileFollows' /\ (pc' = "record" => processed < Total)
      /\ (pc' = "register" => processed = Total)
  <2> USE DEF RunTyped, FileFollows, Empty, Writing, Full, Outcomes, Advances, Live, Termination
  <2>1. CASE Begins
    BY <1>1, <2>1 DEF Begins, Rest, Stay
  <2>2. CASE SharesDocuments
    BY <1>1, <2>2 DEF SharesDocuments, Rest, Stay
  <2>3. CASE OpensArchive
    BY <1>1, <2>3 DEF OpensArchive, Abandons, Stay
  <2>4. CASE PreparesEntry
    BY <1>1, <2>4 DEF PreparesEntry, Abandons, Stay
  <2>5. CASE CountsEntry
    BY <1>1, <2>5 DEF CountsEntry, Abandons, Stay, Increments
  <2>6. CASE ClosesArchive
    BY <1>1, <2>6 DEF ClosesArchive, Abandons, Stay
  <2>7. CASE Fails
    BY <1>1, <2>7 DEF Fails, Rest, Stay
  <2>8. CASE TalliesRest
    BY <1>1, <2>8 DEF TalliesRest, GoTo, Increments
  <2>9. CASE Loads /\ pc' # "done"
    BY <1>1, <2>9 DEF Loads, Rest, Leaves, Stay
  <2>10. CASE RecordsEntry /\ pc' # "read"
    BY <1>1, <2>10 DEF RecordsEntry, Abandons, Stay
  <2>11. CASE ReadsEntry /\ pc' # "count"
    BY <1>1, <2>11 DEF ReadsEntry, Abandons, Stay
  <2> QED
    BY <2>1, <2>2, <2>3, <2>4, <2>5, <2>6, <2>7, <2>8, <2>9, <2>10, <2>11 DEF Between
<1>3. EndsLast'
  BY <1>1 DEF Advances, EndsLast, Over, Terminal
<1>4. RowsInOrder'
  <2>1. CASE Recorded(processed)
    BY <1>1, <2>1 DEF Advances, RowsInOrder, Recorded
  <2>2. CASE Unread
    BY <1>1, <2>2 DEF Advances, RowsInOrder, Unread, Recorded
  <2>3. CASE \E d \in Entries : Repeated(d)
    BY <1>1, <2>3 DEF Advances, RowsInOrder, Repeated
  <2> QED
    BY <2>1, <2>2, <2>3 DEF RowsInOrder
<1>5. RecordedAtEnd'
  BY <1>1, <1>2 DEF Advances, RecordedAtEnd
<1> QED
  BY <1>2, <1>3, <1>4, <1>5

\* An execution that leaves at once has recorded nothing, and one that finishes
\* has recorded every entry.
LEMMA EndKept ==
  ASSUME GenInv, (Loads /\ pc' = "done") \/ Refuses \/ Finishes,
         UNCHANGED <<registered, serving, taken, stopping>>
  PROVE  GenInv'
<1> USE DEF GenInv, InMapOrNot
<1>1. CASE Finishes
  <2>1. /\ pc \in {"rest", "finish"} /\ pc' = "done" /\ processed = Total
        /\ UNCHANGED <<rows, processed, file>>
        /\ task' = [task EXCEPT !.status =
                      IF verdict \in Terminal THEN verdict
                      ELSE IF task.failed > 0 THEN "completed_with_errors" ELSE "completed"]
    BY <1>1 DEF Finishes, FinishTask, Ends, Leaves, RecordedAtEnd
  <2>2. RunTyped' /\ EndsLast'
    BY <1>1, <2>1 DEF Finishes, Leaves, RunTyped, Tasks, EndsLast, Over, Terminal,
                Empty, Writing, Full, Outcomes
  <2>3. RowsInOrder'
    <3>1. CASE Recorded(processed)
      BY <2>1, <3>1 DEF RowsInOrder, Recorded
    <3>2. CASE Unread
      BY <2>1, <3>2, GenerationAssumption DEF Unread
    <3>3. CASE \E d \in Entries : Repeated(d)
      <4>1. PICK d \in Entries : Repeated(d)
        BY <3>3
      <4>2. pc = "rest" /\ verdict \in Outcomes \ {"generated"}
        BY <2>1, <4>1 DEF Repeated, RunTyped
      <4>3. task'.status # "completed"
        BY <2>1, <4>1, <4>2 DEF Repeated, RunTyped, Tasks, Outcomes, Terminal
      <4> QED
        BY <2>1, <4>1, <4>3 DEF RowsInOrder, Repeated
    <3> QED
      BY <3>1, <3>2, <3>3 DEF RowsInOrder
  <2>4. RecordedAtEnd'
    BY <2>1 DEF RecordedAtEnd
  <2>5. FileFollows'
    BY <2>1 DEF FileFollows, Empty, Writing
  <2> QED
    BY <2>2, <2>3, <2>4, <2>5
<1>2. CASE (Loads /\ pc' = "done") \/ Refuses
  <2>1. /\ pc = "load" /\ pc' = "done" /\ UNCHANGED <<rows, processed, file>>
        /\ cause' = "over" /\ verdict' = "none"
        /\ task' \in Tasks /\ task'.status # "completed"
    <3>1. CASE Loads /\ pc' = "done"
      BY <3>1 DEF Loads, Rest, Leaves, Stay, RunTyped, EndsLast, Over, Terminal
    <3>2. CASE Refuses
      BY <3>2 DEF Refuses, Ends, Leaves, RunTyped, Tasks, Termination, Terminal
    <3> QED
      BY <1>2, <3>1, <3>2
  <2>2. \A e \in Entries : rows[e] = <<>>
    <3>1. processed = 0 /\ Recorded(processed)
      BY <2>1 DEF RecordedAtEnd, RowsInOrder, Unread, Repeated
    <3>2. \A e \in Entries : Len(rows[e]) = 0 /\ rows[e] \in Seq(Outcomes)
      BY <3>1 DEF Recorded, RunTyped, Entries
    <3> QED
      BY <3>2
  <2>3. RunTyped' /\ EndsLast'
    BY <2>1 DEF RunTyped, EndsLast, Empty, Writing, Full
  <2>4. RowsInOrder'
    BY <2>1 DEF RowsInOrder, Recorded, Unread, Repeated
  <2>5. RecordedAtEnd'
    BY <2>1, <2>2 DEF RecordedAtEnd
  <2>6. FileFollows'
    BY <2>1 DEF FileFollows, Empty, Writing
  <2> QED
    BY <2>3, <2>4, <2>5, <2>6
<1> QED
  BY <1>1, <1>2

LEMMA RegisterKept ==
  ASSUME GenInv, Registers
  PROVE  GenInv'
<1> USE DEF GenInv
<1>1. RunTyped' /\ EndsLast'
  BY DEF Registers, GoTo, Stay, RunTyped, EndsLast, Empty, Writing, Full
<1>2. RowsInOrder' /\ RecordedAtEnd'
  BY DEF Registers, GoTo, Stay, RowsInOrder, Recorded, Unread, Repeated, RecordedAtEnd
<1>3. FileFollows'
  BY DEF Registers, GoTo, Stay, FileFollows, Empty, Writing
<1>4. InMapOrNot'
  <2>1. registered' = TRUE
    BY Zenon DEF Registers
  <2> QED
    BY ONLY <2>1 DEF InMapOrNot
<1> QED
  BY <1>1, <1>2, <1>3, <1>4

LEMMA AroundKept ==
  ASSUME GenInv, Surroundings \/ ShutsDown
  PROVE  GenInv'
<1> USE DEF GenInv, runVars, archiveVars
<1>4. InMapOrNot'
  BY Zenon DEF InMapOrNot, Surroundings, ShutsDown, Cancels, ServiceCloses, Takes, Served
<1>1. UNCHANGED <<task, rows, pc, processed, verdict>>
      /\ cause' \in {"live", "cancelled", "interrupted", "over"}
  BY DEF Surroundings, ShutsDown, Cancels, ServiceCloses, Takes, Served, RunTyped
<1>2. RunTyped' /\ EndsLast'
  BY <1>1 DEF RunTyped, EndsLast
<1>5. RowsInOrder' /\ RecordedAtEnd'
  BY <1>1 DEF RowsInOrder, Recorded, Unread, Repeated, RecordedAtEnd
<1>3. FileFollows'
  <2> USE <1>1 DEF FileFollows, Empty, Writing, RunTyped, Full
  <2>1. CASE Cancels \/ ShutsDown
    BY <2>1 DEF Cancels, ShutsDown
  <2>2. CASE ServiceCloses
    BY <2>2 DEF ServiceCloses
  <2>3. CASE Takes
    <3>1. pc = "done"
      BY <2>3 DEF Takes, Ready, EndsLast, Over, Terminal
    <3> QED
      BY <2>3, <3>1 DEF Takes
  <2>4. CASE Served
    BY <2>4 DEF Served
  <2> QED
    BY <2>1, <2>2, <2>3, <2>4 DEF Surroundings
<1> QED
  BY <1>2, <1>3, <1>4, <1>5

\* What a step of the stream does to the execution.
GenStep ==
  \/ Running \/ Registers \/ Surroundings \/ ShutsDown
  \/ UNCHANGED <<runVars, archiveVars, stopping>>

LEMMA GenInvKept == GenInv /\ GenStep => GenInv'
<1> SUFFICES ASSUME GenInv, GenStep PROVE GenInv'
  OBVIOUS
<1>1. CASE Running
  <2>1. CASE Loads \/ Refuses \/ Finishes
    BY <1>1, <2>1, BetweenKept, EndKept DEF Running, Between
  <2>2. CASE RecordsEntry \/ ReadsEntry \/ RecordsRest
    BY <1>1, <2>2, RecordKept, ReadBackKept, RestKept, BetweenKept DEF Running, Between
  <2>3. CASE ~(Loads \/ Refuses \/ Finishes \/ RecordsEntry \/ ReadsEntry \/ RecordsRest)
    BY <1>1, <2>3, BetweenKept DEF Running, Between
  <2> QED
    BY <2>1, <2>2, <2>3
<1>2. CASE Registers
  BY <1>2, RegisterKept
<1>3. CASE Surroundings \/ ShutsDown
  BY <1>3, AroundKept
<1>4. CASE UNCHANGED <<runVars, archiveVars, stopping>>
  BY <1>4 DEF GenInv, RunTyped, InMapOrNot, EndsLast, RowsInOrder, Recorded, Unread, Repeated,
              RecordedAtEnd, FileFollows, runVars, archiveVars
<1> QED
  BY <1>1, <1>2, <1>3, <1>4 DEF GenStep

-----------------------------------------------------------------------------
(* The hub, the stream and the report *)

USE DEF vars, genVars, hubVars, streamVars, tabVars

LEMMA StepsExecution ==
  ASSUME [Next]_vars
  PROVE  GenStep
BY DEF Next, Execution, Marks, Hub, HubWakes, HubCollects, HubReads, HubSends, Stops, Handler,
       Connects, SendsSnapshot, Forwards, StreamEnds, Breaks, Views, Request, Reads, Loaded,
       GenStep, runVars, archiveVars

\* Once the execution is over its rows stay, and its archive cannot come back.
LEMMA OverStaysOver ==
  ASSUME GenInv, GenStep, pc = "done"
  PROVE  pc' = "done" /\ rows' = rows /\ task' = task /\ (registered' => registered)
<1>1. ~Running /\ ~Registers
  BY DEF Running, Loads, Refuses, Begins, SharesDocuments, OpensArchive, PreparesEntry,
         RecordsEntry, ReadsEntry, CountsEntry, ClosesArchive, Fails, RecordsRest, TalliesRest, Finishes, Registers, GoTo
<1> QED
  BY <1>1 DEF GenStep, Surroundings, Cancels, ServiceCloses, Takes, Served, ShutsDown,
              runVars, archiveVars

\* A step leaves the latest report request alone, replaces it by a new one or
\* by none, or is a read of it, during which nothing else changes.
LEMMA CallSteps ==
  ASSUME [Next]_vars
  PROVE  \/ call' = call
         \/ call' = NoCall
         \/ \E again \in BOOLEAN : Ask(again)
         \/ ReportReads /\ UNCHANGED <<runVars, archiveVars>>
BY DEF Next, Execution, Marks, Hub, HubWakes, HubCollects, HubReads, HubSends, Stops, Handler,
       Connects, SendsSnapshot, Forwards, StreamEnds, Breaks, Views, Request, Reads, Loaded,
       TabReceives

\* What the rows of an execution that is over say.
LEMMA EndAccounted ==
  ASSUME GenInv, pc = "done"
  PROVE  Accounted
<1> USE DEF GenInv
<1>1. CASE processed # Total
  BY <1>1 DEF RecordedAtEnd, Accounted
<1>2. CASE processed = Total
  <2>1. 1 \in Entries /\ \A e \in Entries : e <= processed
    BY <1>2, GenerationAssumption DEF Entries
  <2>2. CASE Recorded(processed)
    <3>1. \A e \in Entries : Len(rows[e]) = 1
      BY <2>1, <2>2 DEF Recorded
    <3>2. rows[1] # <<>>
      BY <2>1, <3>1
    <3> QED
      BY <2>1, <3>1, <3>2 DEF Accounted
  <2>3. CASE Unread
    BY <2>3 DEF Unread
  <2>4. CASE \E d \in Entries : Repeated(d)
    <3>1. PICK d \in Entries : Repeated(d)
      BY <2>4
    <3>2. /\ \A e \in Entries : Len(rows[e]) = IF e = d THEN 2 ELSE 1
          /\ rows[d][2] # "generated" /\ task.status # "completed"
      BY <2>1, <3>1 DEF Repeated
    <3>3. rows[d] # <<>>
      BY <3>2
    <3>4. ASSUME NEW e \in Entries
          PROVE  /\ Len(rows[e]) = 1 \/ Len(rows[e]) = 2
                 /\ Len(rows[e]) = 2 => e = d
      <4>1. CASE e = d
        BY <3>2, <4>1
      <4>2. CASE e # d
        <5>1. Len(rows[e]) = 1
          BY <3>2, <4>2, Zenon
        <5> QED
          BY <5>1
      <4> QED
        BY <4>1, <4>2
    <3> QED
      BY <3>2, <3>3, <3>4, Zenon DEF Accounted
  <2> QED
    BY <2>2, <2>3, <2>4 DEF RowsInOrder
<1> QED
  BY <1>1, <1>2

LEMMA CallKept ==
  ASSUME IInv, [Next]_vars, GenInv'
  PROVE  CallTyped' /\ ReadAfterEnd' /\ ReportWhole'
<1> USE DEF IInv
<1>1. GenStep
  BY StepsExecution
<1>2. pc = "done" => pc' = "done" /\ rows' = rows /\ task' = task /\ (registered' => registered)
  BY <1>1, OverStaysOver
<1>3. CASE call' = call
  <2>1. CallTyped' /\ ReadAfterEnd'
    BY <1>2, <1>3 DEF CallTyped, ReadAfterEnd
  <2>2. ReportWhole'
    BY <1>2, <1>3 DEF ReportWhole, Accounted, ReadAfterEnd
  <2> QED
    BY <2>1, <2>2
<1>4. CASE call' = NoCall
  BY <1>4 DEF NoCall, None, CallTyped, ReadAfterEnd, ReportWhole, Over, Terminal
<1>5. CASE \E again \in BOOLEAN : Ask(again)
  BY <1>5 DEF Ask, NoCall, None, CallTyped, ReadAfterEnd, ReportWhole, Over, Terminal
<1>6. CASE ReportReads /\ UNCHANGED <<runVars, archiveVars>>
  <2> USE DEF runVars, archiveVars, CallTyped
  <2>1. UNCHANGED <<task, rows, pc, processed, registered>>
    BY <1>6
  <2>2. CASE call.at = "asked" /\ call' = [call EXCEPT !.at = "task", !.task = task.status]
    <3>1. Over(call'.task) => pc = "done"
      BY <2>2 DEF GenInv, EndsLast
    <3> QED
      BY <2>1, <2>2, <3>1 DEF GenInv, RunTyped, Tasks, ReadAfterEnd, ReportWhole
  <2>3. CASE call.at = "task" /\ call' = [call EXCEPT !.at = "rows", !.rows = rows]
    <3>1. Over(call.task) => Accounted
      BY <2>3, EndAccounted DEF ReadAfterEnd
    <3> QED
      BY <2>1, <2>3, <3>1 DEF GenInv, RunTyped, ReadAfterEnd, ReportWhole, Accounted
  <2>4. CASE call.at = "rows" /\ call' = [call EXCEPT !.at = "back", !.archive = registered]
    BY <2>1, <2>4 DEF GenInv, InMapOrNot, ReadAfterEnd, ReportWhole, Accounted
  <2> QED
    BY <1>6, <2>2, <2>3, <2>4 DEF ReportReads
<1> QED
  BY <1>3, <1>4, <1>5, <1>6, CallSteps

LEMMA IInvInvariant == Spec => []IInv
<1>1. Init => IInv
  BY GenInvInit DEF Init, IInv, CallTyped, ReadAfterEnd, ReportWhole, NoCall, None
<1>2. IInv /\ [Next]_vars => IInv'
  <2> SUFFICES ASSUME IInv, [Next]_vars PROVE IInv'
    OBVIOUS
  <2>1. GenInv'
    BY StepsExecution, GenInvKept DEF IInv
  <2> QED
    BY <2>1, CallKept DEF IInv
<1> QED
  BY <1>1, <1>2, PTL DEF Spec

-----------------------------------------------------------------------------
(* What the runs check, for every size of a campaign *)

\* The archive's file is whole from its registration until the one request
\* that has taken it has served it, and is removed when nobody has it: from
\* FileFollows, and from a taken archive's task being over.
THEOREM ArchiveIsKept == Spec => []ArchiveKept
<1>1. IInv => ArchiveKept
  BY DEF IInv, GenInv, FileFollows, ArchiveKept
<1> QED
  BY <1>1, IInvInvariant, PTL

\* A task that can be seen to have ended with an archive offers it until it
\* is taken: it is registered before the end is recorded.
THEOREM ArchiveIsOffered == Spec => []ArchiveOffered
<1>1. IInv => ArchiveOffered
  BY DEF IInv, GenInv, EndsLast, FileFollows, ArchiveOffered
<1> QED
  BY <1>1, IInvInvariant, PTL

\* A report that says the task has ended holds the final outcomes, and the archive
\* if it is still there, although it is read in three statements: the task is read
\* first, and nothing is recorded after its end.  The outcomes account for every
\* entry, although CreateDelivery can leave a row that executeGeneration does not
\* count: at most one entry has a second, and then the task has not completed.
THEOREM ReportIsWhole == Spec => []ReportWhole
<1>1. IInv => ReportWhole
  BY DEF IInv
<1> QED
  BY <1>1, IInvInvariant, PTL
=============================================================================
