----------------------------- MODULE TaskStream -----------------------------
(***************************************************************************)
(* What a browser sees of a generation task: the event hub of the server,  *)
(* which coalesces changes and drops subscribers that are slow, the stream *)
(* of one tab, the task list the tab keeps from it, and the report it      *)
(* reads in three statements while the task goes on.                       *)
(*                                                                         *)
(* Of a task, events and reports carry the status here: it is all the      *)
(* tab's logic looks at.                                                   *)
(* Reads of the database succeed until the hub is closed.  The tab shows   *)
(* this task's report; of its report requests only the latest is kept,     *)
(* because the answers of the others are dropped (reportRequestID).        *)
(***************************************************************************)
EXTENDS Generation

CONSTANTS Buffer,     \* the capacity of a subscriber's channel
          MaxViews    \* bound: how often the user opens the report

ASSUME StreamAssumption == Buffer \in Nat \ {0} /\ MaxViews \in Nat

VARIABLES
  dirty,    \* hub.dirty holds the task
  wake,     \* a token is in hub.wake
  hub,      \* where hub.run is; [at |-> "send", event |-> the task it has read]
  channel,  \* the subscriber's channel: <<>> or what is queued
  sub,      \* is the channel subscribed, closed after what is queued, or gone?
  conn,     \* the handler of the stream: "down", "snapshot", "stream"
  view,     \* the task in the tab's task list
  call,     \* the latest report request
  shown,    \* the report in the tab
  views     \* reports opened so far

hubVars == <<dirty, wake, hub>>
streamVars == <<channel, sub, conn>>
tabVars == <<view, call, shown, views>>
vars == <<genVars, hubVars, streamVars, tabVars>>

None == "nothing"
NoCall == [at |-> "none", again |-> FALSE, task |-> None, rows |-> <<>>, archive |-> FALSE]
NoReport == [task |-> None, rows |-> <<>>]
Over(status) == status \in Terminal

Init ==
  /\ GenInit
  /\ dirty = FALSE /\ wake = FALSE /\ hub = [at |-> "idle"]
  /\ channel = <<>> /\ sub = "gone" /\ conn = "down"
  /\ view = None /\ call = NoCall /\ shown = NoReport /\ views = 0

-----------------------------------------------------------------------------
(* taskEventHub *)

\* MarkChanged, which does nothing once the hub is closed.
Marks ==
  /\ unmarked /\ unmarked' = FALSE
  /\ dirty' = (dirty \/ ~stopping) /\ wake' = (wake \/ ~stopping)
  /\ UNCHANGED <<runVars, archiveVars, stopping, hub, streamVars, tabVars>>

\* run: the first token starts the timer, others are swallowed by it.
HubWakes ==
  /\ wake /\ hub.at \in {"idle", "armed"}
  /\ wake' = FALSE /\ hub' = [at |-> "armed"]
  /\ UNCHANGED <<genVars, dirty, streamVars, tabVars>>

\* publishDirty: the set is emptied, then the tasks are read, then sent.
HubCollects ==
  /\ hub.at = "armed"
  /\ hub' = [at |-> IF dirty THEN "read" ELSE "idle"] /\ dirty' = FALSE
  /\ UNCHANGED <<genVars, wake, streamVars, tabVars>>

HubReads ==
  /\ hub.at = "read"
  /\ hub' = [at |-> "send", event |-> task.status]
  /\ UNCHANGED <<genVars, dirty, wake, streamVars, tabVars>>

\* broadcast: a subscriber whose channel is full is dropped.
HubSends ==
  /\ hub.at = "send" /\ hub' = [at |-> "idle"]
  /\ CASE sub = "open" /\ Len(channel) < Buffer ->
            channel' = Append(channel, hub.event) /\ UNCHANGED sub
       [] sub = "open" /\ Len(channel) = Buffer -> sub' = "closed" /\ UNCHANGED channel
       [] OTHER -> UNCHANGED <<channel, sub>>
  /\ UNCHANGED <<genVars, dirty, wake, conn, tabVars>>

Hub == HubWakes \/ HubCollects \/ HubReads \/ HubSends

\* Shutdown waits for the hub's loop, which closes the subscribers, before it
\* stops the queue.  What the handler still sends then is not followed.
Stops ==
  /\ ShutsDown /\ hub.at # "send"
  /\ hub' = [at |-> "stopped"] /\ dirty' = FALSE /\ wake' = FALSE
  /\ sub' = "gone" /\ channel' = <<>> /\ conn' = "down"
  /\ UNCHANGED tabVars

-----------------------------------------------------------------------------
(* handleTaskEvents, and the tab at its other end *)

Ask(again) == call' = [NoCall EXCEPT !.at = "asked", !.again = again]

\* TaskList: replaceAll and upsert put the task into the list, whatever it was.
Listed(status) == view' = status

\* The watcher shows the task in the report, and loads the report again when
\* it has just ended.
TabReceives(status) ==
  /\ Listed(status)
  /\ shown' = IF shown = NoReport THEN shown ELSE [shown EXCEPT !.task = status]
  /\ IF shown # NoReport /\ ~Over(view) /\ Over(status) THEN Ask(FALSE) ELSE UNCHANGED call
  /\ UNCHANGED views

\* The tab connects, again if it has to: the handler subscribes ...
Connects ==
  /\ conn = "down" /\ ~stopping
  /\ conn' = "snapshot" /\ sub' = "open" /\ channel' = <<>>
  /\ UNCHANGED <<genVars, hubVars, tabVars>>

\* ... then it reads the snapshot and sends it.
SendsSnapshot ==
  /\ conn = "snapshot"
  /\ conn' = "stream" /\ TabReceives(task.status)
  /\ UNCHANGED <<genVars, hubVars, channel, sub>>

Forwards ==
  /\ conn = "stream" /\ channel # <<>>
  /\ channel' = Tail(channel) /\ TabReceives(Head(channel))
  /\ UNCHANGED <<genVars, hubVars, sub, conn>>

\* The handler has sent what a closed channel held, and returns.
StreamEnds ==
  /\ conn = "stream" /\ channel = <<>> /\ sub = "closed"
  /\ conn' = "down" /\ sub' = "gone"
  /\ UNCHANGED <<genVars, hubVars, channel, tabVars>>

\* The connection breaks, and what is queued is lost with it.
Breaks ==
  /\ conn = "stream"
  /\ conn' = "down" /\ sub' = "gone" /\ channel' = <<>>
  /\ UNCHANGED <<genVars, hubVars, tabVars>>

-----------------------------------------------------------------------------
(* The report of the tab *)

\* viewSelectedTaskReport of a task that is in the list.
Views ==
  /\ view # None /\ views < MaxViews
  /\ views' = views + 1 /\ Ask(FALSE)
  /\ UNCHANGED <<genVars, hubVars, streamVars, view, shown>>

\* writeTaskReport: three reads, of the task, of its rows, of the map.
\* Mutant: the rows are read before the task.
RowsFirst ==
  \/ call.at = "asked" /\ call' = [call EXCEPT !.at = "task", !.rows = rows]
  \/ call.at = "task" /\ call' = [call EXCEPT !.at = "rows", !.task = task.status]
  \/ call.at = "rows" /\ call' = [call EXCEPT !.at = "back", !.archive = registered]

ReportReads ==
  \/ call.at = "asked" /\ call' = [call EXCEPT !.at = "task", !.task = task.status]
  \/ call.at = "task" /\ call' = [call EXCEPT !.at = "rows", !.rows = rows]
  \/ call.at = "rows" /\ call' = [call EXCEPT !.at = "back", !.archive = registered]

Reads == ReportReads /\ UNCHANGED <<genVars, hubVars, streamVars, view, shown, views>>

\* Mutant: the report is shown as it was read.
AsRead == TRUE

\* Is a report that was read before the list learned of the end read again?
Current == call.again \/ ~(Over(view) /\ ~Over(call.task))

\* loadSelectedTaskReport goes on with the answer.
Loaded ==
  /\ call.at = "back"
  /\ IF Current
     THEN /\ shown' = [task |-> view, rows |-> call.rows]
          /\ call' = NoCall
     ELSE Ask(TRUE) /\ UNCHANGED shown
  /\ UNCHANGED <<genVars, hubVars, streamVars, view, views>>

Execution == ((Running \/ Registers) /\ UNCHANGED <<hubVars, streamVars, tabVars>>) \/ Marks
Handler == Connects \/ SendsSnapshot \/ Forwards \/ StreamEnds
Request == Reads \/ Loaded

Next ==
  \/ Execution \/ Hub \/ Handler \/ Request
  \/ Surroundings /\ UNCHANGED <<hubVars, streamVars, tabVars>>
  \/ Stops \/ Breaks \/ Views

\* The execution outside of the attachment budget, the hub's goroutine and its timer,
\* the handler with the browser's reconnection, and the request the tab waits for go
\* on if they can.
Fairness ==
  WF_vars(Execution /\ ~AtBudget) /\ WF_vars(Hub) /\ WF_vars(Handler) /\ WF_vars(Request)

Spec == Init /\ [][Next]_vars /\ Fairness

-----------------------------------------------------------------------------
(* Properties *)

\* A report that says the task has ended holds the final outcomes, which account
\* for every entry, and offers the archive if it is still there, although its parts
\* are read one after the other while the task goes on.
ReportWhole ==
  /\ call.at \in {"rows", "back"} /\ Over(call.task) =>
       call.rows = rows /\ Accounted
  /\ call.at = "back" /\ Over(call.task) /\ registered => call.archive

\* The archive of a task that ended with one is on offer from the moment the
\* end can be seen until it is taken, or the service stops.
ArchiveOffered ==
  Over(task.status) /\ file = "complete" => registered \/ taken \/ stopping

\* A tab with a report open ends up with the final report of a task that has
\* ended -- whether the end comes before, between or after the reads, whether
\* its events are coalesced, overtaken by a snapshot, dropped with a full
\* channel or lost with the connection -- unless the server is shut down.
ReportShowsEnd ==
  <>[](\/ stopping \/ views = 0 \/ ~Over(task.status)
       \/ shown # NoReport /\ shown.task = task.status /\ shown.rows = rows)
=============================================================================
