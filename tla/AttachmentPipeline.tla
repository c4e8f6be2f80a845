------------------------- MODULE AttachmentPipeline -------------------------
(***************************************************************************)
(* The two goroutines of executeSend: the producer prepares the            *)
(* attachments of the entries ahead of the consumer, which sends them.     *)
(* They share the memory budget of the campaign, a channel of prepared     *)
(* items and a channel of admission tokens.                                *)
(*                                                                         *)
(* What is recorded of an entry is the subject of CampaignSend; here an    *)
(* item is what it holds.  Bytes are counted in units that tell apart what *)
(* fits into the budget.  A step is a critical section of the budget's     *)
(* mutex, an operation of a channel, or the work between two of them.      *)
(***************************************************************************)
EXTENDS Naturals, Sequences, FiniteSets

CONSTANTS
  Total,      \* the number of address entries
  Sizes,      \* what the documents prepared for the entries may take
  Static,     \* the bytes of the attachments that are not documents
  Converted,  \* the sizes the documents all entries share may be converted to
  Limit,      \* preparedAttachmentBudgetBytes
  Admission,  \* the capacity of the channel admission
  Ready,      \* the capacity of the channel ready
  MayCancel   \* may the task be cancelled?

Entries == 1 .. Total

ASSUME SizesAssumption ==
  /\ Total \in Nat \ {0} /\ Sizes \subseteq [Entries -> Nat]
  /\ Converted \subseteq Nat /\ Limit \in Nat /\ Static \in 0 .. Limit
ASSUME CapacitiesAssumption == Admission \in Nat \ {0} /\ Ready \in Nat \ {0}
ASSUME MayCancelAssumption == MayCancel \in BOOLEAN

VARIABLES
  used,        \* budget.used
  waits,       \* waits[t]: thread t waits for the budget to change
  tokens,      \* the tokens in the channel admission
  ready,       \* the items in the channel ready
  closed,      \* has the producer closed it?
  producer,    \* where the producer is
  making,      \* the item it is making
  consumer,    \* where the consumer is
  taken,       \* the item it has taken
  shared,      \* the bytes reserved for the shared attachments
  cancelled,   \* has the context of the task ended?
  stopped,     \* has stopPipeline been called?
  suppressed,  \* the entries on the suppression list
  converted,   \* the bytes of the shared documents, once they are converted
  docs         \* docs[e]: the bytes of the documents prepared for entry e

budget == <<used, waits>>
channels == <<tokens, ready, closed>>
contexts == <<cancelled, stopped>>
inputs == <<suppressed, converted, docs>>
vars == <<budget, channels, producer, making, consumer, taken, shared, contexts, inputs>>

Threads == {"producer", "consumer"}
Item == [index : 0 .. Total, bytes : Nat, early : BOOLEAN, bad : BOOLEAN]
NewItem(e) == [index |-> e, bytes |-> 0, early |-> FALSE, bad |-> FALSE]

\* The context a thread looks at: the producer's is derived from the task's.
Ended(t) == cancelled \/ (t = "producer" /\ stopped)

Init ==
  /\ used = 0
  /\ waits = [t \in Threads |-> FALSE]
  /\ tokens = 0
  /\ ready = <<>>
  /\ closed = FALSE
  /\ producer = "idle"
  /\ making = NewItem(0)
  /\ consumer = "static"
  /\ taken = NewItem(0)
  /\ shared = 0
  /\ cancelled = FALSE
  /\ stopped = FALSE
  /\ suppressed \in SUBSET Entries
  /\ converted \in Converted
  /\ docs \in Sizes
-----------------------------------------------------------------------------
(* The budget *)

\* One turn of the loop of acquire: take the bytes, or take hold of the channel
\* that the next release will close, both under the mutex.
Acquire(t, size) ==
  /\ ~waits[t]
  /\ size <= Limit
  /\ used + size <= Limit
  /\ used' = used + size
  /\ UNCHANGED waits

Await(t, size) ==
  /\ ~waits[t]
  /\ size <= Limit
  /\ used + size > Limit
  /\ waits' = [waits EXCEPT ![t] = TRUE]
  /\ UNCHANGED used

\* acquire returns an error.
Refuse(t, size) ==
  /\ \/ size > Limit
     \/ waits[t] /\ Ended(t)
  /\ waits' = [waits EXCEPT ![t] = FALSE]
  /\ UNCHANGED used

\* Mutant: a release wakes one waiter only.
ReleaseOne(size) ==
  /\ used' = used - size
  /\ IF size > 0 /\ waits["producer"]
       THEN waits' = [waits EXCEPT !["producer"] = FALSE]
       ELSE UNCHANGED waits

\* release closes the channel every waiter holds.
Release(size) ==
  /\ used' = used - size
  /\ IF size > 0 THEN waits' = [t \in Threads |-> FALSE] ELSE UNCHANGED waits
-----------------------------------------------------------------------------
(* prepareCampaignItems *)

\* Mutant: no token is asked for.
AdmitFreely ==
  /\ producer = "waiting"
  /\ making.index < Total
  /\ tokens' = tokens + 1
  /\ making' = NewItem(making.index + 1)
  /\ producer' = "inspecting"
  /\ UNCHANGED <<budget, ready, closed, consumer, taken, shared, contexts, inputs>>

Admit ==
  /\ producer = "waiting"
  /\ making.index < Total
  /\ tokens < Admission
  /\ tokens' = tokens + 1
  /\ making' = NewItem(making.index + 1)
  /\ producer' = "inspecting"
  /\ UNCHANGED <<budget, ready, closed, consumer, taken, shared, contexts, inputs>>

\* After the last entry, or when the context has ended.
Close ==
  /\ producer = "waiting"
  /\ making.index = Total \/ Ended("producer")
  /\ producer' = "finished"
  /\ closed' = TRUE
  /\ UNCHANGED <<budget, tokens, ready, making, consumer, taken, shared, contexts, inputs>>

\* Mutant: an entry that cannot be inspected is not handed over.
InspectSkipping ==
  /\ producer = "inspecting"
  /\ \/ /\ making.index \notin suppressed
        /\ producer' = "preparing" /\ UNCHANGED making
     \/ /\ making.index \in suppressed
        /\ producer' = "handing" /\ making' = [making EXCEPT !.early = TRUE]
     \/ producer' = "waiting" /\ UNCHANGED making
  /\ UNCHANGED <<budget, channels, consumer, taken, shared, contexts, inputs>>

\* IsSuppressed; an entry that is suppressed now is not prepared.
Inspect ==
  /\ producer = "inspecting"
  /\ \/ /\ making.index \notin suppressed
        /\ producer' = "preparing" /\ UNCHANGED making
     \/ /\ making.index \in suppressed
        /\ producer' = "handing" /\ making' = [making EXCEPT !.early = TRUE]
     \/ producer' = "handing" /\ making' = [making EXCEPT !.bad = TRUE]
  /\ UNCHANGED <<budget, channels, consumer, taken, shared, contexts, inputs>>

\* prepareAddressEntryAttachments: the documents are converted, or not, then
\* their bytes are reserved ...
Prepare ==
  /\ producer = "preparing"
  /\ \/ /\ Acquire("producer", docs[making.index])
        /\ producer' = "handing" /\ making' = [making EXCEPT !.bytes = docs[making.index]]
     \/ /\ Await("producer", docs[making.index])
        /\ UNCHANGED <<producer, making>>
     \/ /\ Refuse("producer", docs[making.index])
        /\ producer' = "handing" /\ making' = [making EXCEPT !.bad = TRUE]
     \/ /\ ~waits["producer"]
        /\ producer' = "handing" /\ making' = [making EXCEPT !.bad = TRUE]
        /\ UNCHANGED budget
  /\ UNCHANGED <<channels, consumer, taken, shared, contexts, inputs>>

\* Mutant: the bytes stay reserved.
PrepareFailsKeeping ==
  /\ producer = "handing" /\ making.bytes > 0
  /\ making' = [making EXCEPT !.bytes = 0, !.bad = TRUE]
  /\ UNCHANGED <<budget, channels, producer, consumer, taken, shared, contexts, inputs>>

\* ... and returned if the prepared files cannot be read.
PrepareFails ==
  /\ producer = "handing" /\ making.bytes > 0
  /\ Release(making.bytes)
  /\ making' = [making EXCEPT !.bytes = 0, !.bad = TRUE]
  /\ UNCHANGED <<channels, producer, consumer, taken, shared, contexts, inputs>>

HandOver ==
  /\ producer = "handing"
  /\ Len(ready) < Ready
  /\ ready' = Append(ready, making)
  /\ producer' = "waiting"
  /\ making' = [making EXCEPT !.bytes = 0]
  /\ UNCHANGED <<budget, tokens, closed, consumer, taken, shared, contexts, inputs>>

\* The context ends while ready is full: the item is released and ready closed.
Withdraw ==
  /\ producer = "handing" /\ Ended("producer")
  /\ Release(making.bytes)
  /\ tokens > 0 /\ tokens' = tokens - 1
  /\ producer' = "finished"
  /\ making' = [making EXCEPT !.bytes = 0]
  /\ closed' = TRUE
  /\ UNCHANGED <<ready, consumer, taken, shared, contexts, inputs>>

Produce == Admit \/ Close \/ Inspect \/ Prepare \/ PrepareFails \/ HandOver \/ Withdraw
-----------------------------------------------------------------------------
(* executeSend *)

\* prepareSharedAttachments reserves twice; the second time it may wait for
\* bytes it holds itself.
PrepareShared ==
  \/ /\ consumer = "static" /\ Acquire("consumer", Static)
     /\ shared' = Static /\ consumer' = "converted" /\ UNCHANGED producer
  \/ /\ consumer = "converted" /\ Acquire("consumer", converted)
     /\ shared' = Static + converted /\ consumer' = "receiving" /\ producer' = "waiting"
  \/ /\ consumer = "converted" /\ Await("consumer", converted)
     /\ UNCHANGED <<shared, consumer, producer>>

\* The conversion or the reservation fails, or the files cannot be read; what was
\* reserved is returned and no producer, the other thread that could be waiting,
\* is started.
SharedFails ==
  /\ consumer = "converted"
  /\ waits["consumer"] => Ended("consumer")
  /\ used' = used - shared
  /\ waits' = [t \in Threads |-> FALSE]
  /\ shared' = 0
  /\ consumer' = "done"
  /\ UNCHANGED producer

StartPipeline ==
  /\ PrepareShared \/ SharedFails
  /\ UNCHANGED <<channels, making, taken, contexts, inputs>>

Receive ==
  /\ consumer = "receiving"
  /\ ready # <<>>
  /\ taken' = Head(ready)
  /\ ready' = Tail(ready)
  /\ consumer' = "deciding"
  /\ UNCHANGED <<budget, tokens, closed, producer, making, shared, contexts, inputs>>

\* An item that was not suppressed when it was prepared is sent; one that was,
\* and is not any more, is prepared now.
Decide ==
  /\ consumer = "deciding"
  /\ ~taken.bad /\ taken.index \notin suppressed
  /\ consumer' = IF taken.early THEN "inline" ELSE "sending"
  /\ UNCHANGED <<budget, channels, producer, making, taken, shared, contexts, inputs>>

PrepareInline ==
  /\ consumer = "inline"
  /\ \/ /\ Acquire("consumer", docs[taken.index])
        /\ consumer' = "sending" /\ taken' = [taken EXCEPT !.bytes = docs[taken.index]]
     \/ /\ Await("consumer", docs[taken.index])
        /\ UNCHANGED <<consumer, taken>>
     \/ /\ Refuse("consumer", docs[taken.index])
        /\ consumer' = "deciding" /\ taken' = [taken EXCEPT !.bad = TRUE]
     \/ /\ ~waits["consumer"]
        /\ consumer' = "deciding" /\ taken' = [taken EXCEPT !.bad = TRUE]
        /\ UNCHANGED budget
  /\ UNCHANGED <<channels, producer, making, shared, contexts, inputs>>

\* Mutant: the token of an item that is dropped before it is sent is kept.
PutBackSentOnly ==
  /\ consumer \in {"deciding", "sending"}
  /\ Release(taken.bytes)
  /\ tokens > 0 /\ tokens' = IF consumer = "sending" THEN tokens - 1 ELSE tokens
  /\ taken' = [taken EXCEPT !.bytes = 0]
  /\ UNCHANGED <<ready, closed, producer, making, shared, cancelled, inputs>>

\* releaseCampaignItem: the item has been sent, or has failed somewhere before.
PutBack ==
  /\ consumer \in {"deciding", "sending"}
  /\ Release(taken.bytes)
  /\ tokens > 0 /\ tokens' = tokens - 1
  /\ taken' = [taken EXCEPT !.bytes = 0]
  /\ UNCHANGED <<ready, closed, producer, making, shared, cancelled, inputs>>

Continue ==
  /\ PutBack
  /\ consumer' = "receiving"
  /\ UNCHANGED stopped

\* A termination, or a configuration failure of the provider.
StopEarly ==
  /\ PutBack
  /\ cancelled \/ consumer = "sending"
  /\ consumer' = "draining"
  /\ stopped' = TRUE

\* drainCampaignItems
Drain ==
  /\ consumer = "draining"
  /\ ready # <<>>
  /\ Release(Head(ready).bytes)
  /\ tokens > 0 /\ tokens' = tokens - 1
  /\ ready' = Tail(ready)
  /\ UNCHANGED <<closed, producer, making, consumer, taken, shared, contexts, inputs>>

\* Mutant: the drain does not wait for the producer to close the channel.
FinishEarly ==
  /\ consumer \in {"receiving", "draining"}
  /\ ready = <<>> /\ (closed \/ consumer = "draining")
  /\ Release(shared)
  /\ shared' = 0
  /\ stopped' = TRUE
  /\ consumer' = "done"
  /\ UNCHANGED <<channels, producer, making, taken, cancelled, inputs>>

\* ready is closed and empty: the deferred calls stop the pipeline and release
\* the shared bytes.
Finish ==
  /\ consumer \in {"receiving", "draining"}
  /\ ready = <<>> /\ closed
  /\ Release(shared)
  /\ shared' = 0
  /\ stopped' = TRUE
  /\ consumer' = "done"
  /\ UNCHANGED <<channels, producer, making, taken, cancelled, inputs>>

Consume ==
  \/ StartPipeline
  \/ Receive
  \/ Decide
  \/ PrepareInline
  \/ Continue
  \/ StopEarly
  \/ Drain
  \/ Finish
-----------------------------------------------------------------------------
Cancel ==
  /\ MayCancel /\ ~cancelled
  /\ cancelled' = TRUE
  /\ UNCHANGED <<budget, channels, producer, making, consumer, taken, shared, stopped, inputs>>

ChangeSuppression(e) ==
  /\ suppressed' = IF e \in suppressed THEN suppressed \ {e} ELSE suppressed \union {e}
  /\ UNCHANGED <<budget, channels, producer, making, consumer, taken, shared, contexts, converted, docs>>

Next ==
  \/ Produce
  \/ Consume
  \/ Cancel
  \/ \E e \in Entries : ChangeSuppression(e)

Spec == Init /\ [][Next]_vars

\* Both goroutines go on: conversions, sends and the store's answers end.
FairSpec == Spec /\ WF_vars(Produce) /\ WF_vars(Consume)
-----------------------------------------------------------------------------
(* Safety *)

\* Every variable stays in its type.
TypeOK ==
  /\ used \in 0 .. Limit
  /\ waits \in [Threads -> BOOLEAN]
  /\ tokens \in 0 .. Admission
  /\ ready \in Seq(Item) /\ Len(ready) <= Ready
  /\ closed \in BOOLEAN
  /\ producer \in {"idle", "waiting", "inspecting", "preparing", "handing", "finished"}
  /\ making \in Item
  /\ consumer \in {"static", "converted", "receiving", "deciding", "inline", "sending",
                   "draining", "done"}
  /\ taken \in Item
  /\ shared \in {0, Static, Static + converted}
  /\ cancelled \in BOOLEAN
  /\ stopped \in BOOLEAN
  /\ suppressed \subseteq Entries
  /\ converted \in Converted
  /\ docs \in Sizes

\* The items between the two goroutines, oldest first.
InFlight ==
  (IF consumer \in {"deciding", "inline", "sending"} THEN <<taken>> ELSE <<>>)
    \o ready
    \o (IF producer \in {"inspecting", "preparing", "handing"} THEN <<making>> ELSE <<>>)

\* What sizes add up to: each byte counted with what it belongs to.
Bytes(sizes) == Cardinality(UNION {{i} \X (1 .. sizes[i]) : i \in DOMAIN sizes})

\* Every reserved byte and every token belongs to an item in flight or to the
\* shared attachments: release never takes the budget below zero, which would
\* panic, and never waits for a token that is not there.
Balanced ==
  /\ used = shared + Bytes([i \in DOMAIN InFlight |-> InFlight[i].bytes])
  /\ tokens = Len(InFlight)

\* The items reach the consumer in the order of the snapshot, none twice and none
\* left out: executeSend takes the entries from the index of an item on to be
\* those nothing has been recorded of.
InOrder ==
  consumer \notin {"draining", "done"} =>
    \A i \in DOMAIN InFlight :
      InFlight[i].index = i + IF consumer = "receiving" THEN taken.index ELSE taken.index - 1

Need(t) ==
  IF t = "producer" THEN docs[making.index]
  ELSE CASE consumer = "static" -> Static
         [] consumer = "converted" -> converted
         [] OTHER -> docs[taken.index]

\* Nobody sleeps while the bytes it waits for are free.
WaitsForBytes == \A t \in Threads : waits[t] => used + Need(t) > Limit

\* The shared attachments and the documents of as many entries as are admitted
\* fit into the budget together.
Fits ==
  \A admitted \in SUBSET Entries :
    Cardinality(admitted) <= Admission =>
      Static + converted + Bytes([e \in admitted |-> docs[e]]) <= Limit

\* If they do, nobody ever has to wait for the budget.
NeverWaits == Fits => \A t \in Threads : ~waits[t]
-----------------------------------------------------------------------------
(* Liveness *)

AllReturned ==
  consumer = "done" /\ producer \in {"idle", "finished"} /\ used = 0 /\ tokens = 0

\* A task that is cancelled ends, leaves no goroutine behind and returns all it
\* has reserved, wherever the two goroutines are, even if they wait for bytes
\* that nobody will release.
CancelReleases == cancelled ~> AllReturned

\* The pipeline comes to its end without being cancelled.
PipelineEnds == <>AllReturned

\* It does if what is prepared at any time fits into the budget, to the byte.
EndsIfFits == Fits => PipelineEnds
=============================================================================
