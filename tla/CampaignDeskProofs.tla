------------------------- MODULE CampaignDeskProofs -------------------------
(***************************************************************************)
(* Proofs about AddressBook and CampaignDesk for any number of concurrent  *)
(* requests, any lists, batches and definitions, and any campaigns.        *)
(***************************************************************************)
EXTENDS CampaignDesk, FiniteSetTheorems, TLAPS

Writes == {"insert", "update", "delete"}

Rows == [id : Nat, email : Emails, filled : SUBSET Keys]
Outcomes ==
  [item : Item, status : {"inserted", "updated", "deleted", "not_found", "invalid",
                          "duplicate", "rejected", "failed"}]

\* What a request holds, by the step it has come to.
Arriving == {Idle}
Over == [op : Writes \cup {"saveList", "deleteList", "saveCampaign", "deleteCampaign", "queue"},
         at : {"ok", "failed"}]
Batching ==
  [op : Writes, at : {"merge", "write"}, list : ListIds, name : Requests \cup {Nobody},
   defs : Fields, items : Seq(Item), last : Nat, done : Seq(Outcomes), before : Seq(Entry)]
Saving == [op : {"saveCampaign"}, at : {"store", "failed"}, id : 0 .. MaxCampaigns,
           list : ListIds, uses : Placeholders]

Reasons == {"missing_field", "never_populated"}
Confirming == [op : {"queue"}, at : {"confirmed"}, id : CampaignIds,
               confirmed : SUBSET (Keys \X Reasons)]
Capturing == [op : {"queue"}, at : {"capture"}, id : CampaignIds,
              confirmed : SUBSET (Keys \X Reasons), list : 0 .. MaxLists,
              uses : Placeholders \cup {{}}]
Captured == [op : {"queue"}, at : {"enqueue", "queued", "running"}, id : CampaignIds,
             confirmed : SUBSET (Keys \X Reasons), list : 0 .. MaxLists,
             uses : Placeholders \cup {{}}, fields : Fields, entries : Seq(Entry)]

Handled == Arriving \cup Over \cup Batching \cup Saving \cup Confirming \cup Capturing \cup Captured

Lists == [live : BOOLEAN, name : Requests \cup {Nobody}, fields : Fields]
Campaigns == [live : BOOLEAN, list : 0 .. MaxLists, uses : Placeholders \cup {{}}]

TypeOK ==
  /\ lists \in [ListIds -> Lists]
  /\ rows \in [ListIds -> SUBSET Rows]
  /\ nextList \in 1 .. MaxLists + 1
  /\ writer \in Requests \cup {Nobody}
  /\ req \in [Requests -> Handled]
  /\ campaigns \in [CampaignIds -> Campaigns]
  /\ nextCampaign \in 1 .. MaxCampaigns + 1

-----------------------------------------------------------------------------
(* The inductive invariant *)

\* The ids of a table are 1 .. n, once each.
Ranked(table, n) ==
  /\ {x.id : x \in table} = 1 .. n
  /\ \A x, y \in table : x.id = y.id => x = y

Unique(table) == \A x, y \in table : x.email = y.email => x = y
Fitted(table, fields) == \A x \in table : x.filled \subseteq DOMAIN fields

Tidy(table, fields) ==
  /\ \E n \in Nat : Ranked(table, n)
  /\ Unique(table)
  /\ Fitted(table, fields)

TablesTidy == \A l \in ListIds : Tidy(rows[l], lists[l].fields)

\* Ids are not given out twice, and a list that is gone has no entries.
Gone ==
  \A l \in ListIds : /\ l >= nextList => ~lists[l].live
                     /\ ~lists[l].live => rows[l] = {}

\* What holds of one request in a state with these lists and campaigns.  What a
\* batch has read may be stale, but a list that is still there has lost none of
\* the fields the batch relies on, and is not another that took its id.
Sound(q, L, next, C) ==
  /\ q.at \in {"merge", "write"} => q.list < next
  /\ q.at = "write" /\ L[q.list].live => DOMAIN q.defs \subseteq DOMAIN L[q.list].fields
  /\ q.at \in {"queued", "running"} => C[q.id].live
  /\ q.at = "running" => ConfirmationMatches(q)

RequestsSound == \A r \in Requests : Sound(req[r], lists, nextList, campaigns)

ListsThere ==
  \A c \in CampaignIds :
    campaigns[c].live => campaigns[c].list \in ListIds /\ lists[campaigns[c].list].live

IInv == TypeOK /\ TablesTidy /\ Gone /\ RequestsSound /\ ListsThere

-----------------------------------------------------------------------------
(* Tables: the ids are 1 .. n, whatever is written *)

\* As many rows are below an id as the id has predecessors.
LEMMA RankedBelow ==
  ASSUME NEW table, NEW n \in Nat, Ranked(table, n), NEW k \in 1 .. n + 1
  PROVE  LET below == {y \in table : y.id < k}
         IN IsFiniteSet(below) /\ Cardinality(below) = k - 1
<1> DEFINE below == {y \in table : y.id < k}
           f == [y \in below |-> y.id]
<1>1. \A i \in 1 .. n : \E x \in table : x.id = i
  BY DEF Ranked
<1>2. \A y \in table : y.id \in 1 .. n
  BY DEF Ranked
<1>3. f \in Injection(below, 1 .. (k - 1))
  <2>1. f \in [below -> 1 .. (k - 1)]
    BY <1>2
  <2>2. \A x, y \in below : f[x] = f[y] => x = y
    BY DEF Ranked
  <2> HIDE DEF f, below
  <2> QED
    BY <2>1, <2>2 DEF Injection, IsInjective
<1>4. f \in Surjection(below, 1 .. (k - 1))
  <2>1. \A i \in 1 .. (k - 1) : \E y \in below : f[y] = i
    <3> TAKE i \in 1 .. (k - 1)
    <3>1. PICK y \in table : y.id = i
      BY <1>1
    <3>2. y \in below /\ f[y] = i
      BY <3>1
    <3> QED
      BY <3>2
  <2> QED
    BY <1>3, <2>1 DEF Injection, Surjection
<1>5. IsFiniteSet(1 .. (k - 1)) /\ Cardinality(1 .. (k - 1)) = k - 1
  BY FS_Interval
<1> HIDE DEF below, f
<1>6. IsFiniteSet(below) /\ Cardinality(below) = k - 1
  BY <1>3, <1>4, <1>5, FS_Injection
<1> QED
  BY <1>6 DEF below

\* The rows of a table are counted by the highest of their ids.
LEMMA RankedCount ==
  ASSUME NEW table, NEW n \in Nat, Ranked(table, n)
  PROVE  IsFiniteSet(table) /\ Cardinality(table) = n
<1> DEFINE below == {y \in table : y.id < n + 1}
<1>1. IsFiniteSet(below) /\ Cardinality(below) = n
  BY RankedBelow
<1>2. below = table
  BY DEF Ranked
<1> QED
  BY <1>1, <1>2

\* What is listed is the entries, each at its id.
LEMMA ListingOf ==
  ASSUME NEW table \in SUBSET Rows, NEW n \in Nat, Ranked(table, n)
  PROVE  /\ Listing(table) \in Seq(Entry) /\ Len(Listing(table)) = n
         /\ \A x \in table : Listing(table)[x.id] = [email |-> x.email, filled |-> x.filled]
<1> DEFINE at(i) == CHOOSE x \in table : Cardinality({y \in table : y.id < x.id}) = i - 1
<1>1. \A x \in table : x.id \in 1 .. n /\ Cardinality({y \in table : y.id < x.id}) = x.id - 1
  <2> TAKE x \in table
  <2>1. x.id \in 1 .. n
    BY DEF Ranked
  <2>2. x.id \in 1 .. n + 1
    BY <2>1
  <2>3. Cardinality({y \in table : y.id < x.id}) = x.id - 1
    BY <2>2, RankedBelow
  <2> QED
    BY <2>1, <2>3
<1>2. \A x \in table : at(x.id) = x
  <2> TAKE x \in table
  <2>1. \A z \in table : Cardinality({y \in table : y.id < z.id}) = x.id - 1 => z = x
    <3> TAKE z \in table
    <3>1. HAVE Cardinality({y \in table : y.id < z.id}) = x.id - 1
    <3>2. z.id - 1 = x.id - 1 /\ z.id \in 1 .. n /\ x.id \in 1 .. n
      BY <1>1, <3>1
    <3>3. z.id = x.id
      BY <3>2
    <3> QED
      BY <3>3 DEF Ranked
  <2> QED
    BY <1>1, <2>1
<1>3. \A i \in 1 .. n : at(i) \in table
  BY <1>2 DEF Ranked
<1>4. Listing(table) = [i \in 1 .. n |-> [email |-> at(i).email, filled |-> at(i).filled]]
  BY RankedCount DEF Listing
<1> HIDE DEF at
<1>5. Listing(table) \in [1 .. n -> Entry]
  BY <1>3, <1>4 DEF Rows, Entry
<1>6. Listing(table) \in Seq(Entry) /\ Len(Listing(table)) = n
  BY <1>5
<1>7. \A x \in table : Listing(table)[x.id] = [email |-> x.email, filled |-> x.filled]
  BY <1>1, <1>2, <1>4
<1> QED
  BY <1>6, <1>7

\* A new entry is numbered after all others.
LEMMA NextIdOf ==
  ASSUME NEW table, NEW n \in Nat, Ranked(table, n)
  PROVE  NextId(table) = n + 1
<1>1. CASE n = 0
  <2>1. table = {}
    BY <1>1 DEF Ranked
  <2> QED
    BY <1>1, <2>1 DEF NextId
<1>2. CASE n > 0
  <2> DEFINE ids == {x.id : x \in table}
  <2>1. table # {} /\ n \in ids /\ \A x \in table : x.id \in 1 .. n
    BY <1>2 DEF Ranked
  <2>2. \A m \in ids : (\A x \in table : x.id <= m) <=> m = n
    BY <2>1
  <2>3. (CHOOSE m \in ids : \A x \in table : x.id <= m) = n
    <3> HIDE DEF ids
    <3> QED
      BY <2>1, <2>2
  <2> QED
    BY <2>1, <2>3 DEF NextId
<1> QED
  BY <1>1, <1>2

\* A deletion leaves no gap.
LEMMA CompactRanked ==
  ASSUME NEW table \in SUBSET Rows, NEW n \in Nat, Ranked(table, n), NEW gone \in table
  PROVE  LET after == Compact(table, gone.id)
         IN /\ after \in SUBSET Rows /\ gone.id \in 1 .. n /\ Ranked(after, n - 1)
            /\ \A z \in after : \E x \in table :
                 /\ z.id = IF x.id > gone.id THEN x.id - 1 ELSE x.id
                 /\ x.id # gone.id /\ z.email = x.email /\ z.filled = x.filled
<1> DEFINE id == gone.id
           down(x) == IF x.id > id THEN [x EXCEPT !.id = @ - 1] ELSE x
           left == {x \in table : x.id # id}
           after == Compact(table, id)
<1>1. Ranked(table, n)
  OBVIOUS
<1>2. after = {down(x) : x \in left}
  BY DEF Compact
<1>3. \A x \in table : x.id \in 1 .. n /\ x \in Rows
  BY <1>1 DEF Ranked
<1>4. id \in 1 .. n
  BY <1>3
<1>5. \A x \in left : /\ down(x).id = IF x.id > id THEN x.id - 1 ELSE x.id
                      /\ down(x).email = x.email /\ down(x).filled = x.filled
                      /\ down(x) \in Rows
  BY <1>3, <1>4 DEF Rows
<1> HIDE DEF down
<1>6. after \in SUBSET Rows
  BY <1>2, <1>5
<1>7. Ranked(after, n - 1)
  <2>1. \A z \in after : z.id \in 1 .. n - 1
    BY <1>2, <1>3, <1>4, <1>5
  <2>2. \A i \in 1 .. n - 1 : \E z \in after : z.id = i
    <3> TAKE i \in 1 .. n - 1
    <3>1. CASE i < id
      <4>1. PICK x \in table : x.id = i
        BY <1>1 DEF Ranked
      <4>2. x \in left /\ down(x).id = i
        BY <3>1, <4>1, <1>4, <1>5
      <4> QED
        BY <1>2, <4>2
    <3>2. CASE i >= id
      <4>1. i + 1 \in 1 .. n
        BY <1>1
      <4>2. PICK x \in table : x.id = i + 1
        BY <1>1, <4>1 DEF Ranked
      <4>3. x \in left /\ down(x).id = i
        BY <3>2, <4>2, <1>4, <1>5
      <4> QED
        BY <1>2, <4>3
    <3> QED
      BY <3>1, <3>2, <1>4
  <2>3. \A y, z \in after : y.id = z.id => y = z
    <3> TAKE y, z \in after
    <3>1. HAVE y.id = z.id
    <3>2. PICK a \in left : y = down(a)
      BY <1>2
    <3>3. PICK b \in left : z = down(b)
      BY <1>2
    <3>4. a.id = b.id
      BY <3>1, <3>2, <3>3, <1>3, <1>4, <1>5
    <3> QED
      BY <3>2, <3>3, <3>4, <1>1 DEF Ranked
  <2> QED
    BY <2>1, <2>2, <2>3 DEF Ranked
<1>8. \A z \in after : \E x \in table :
        /\ z.id = IF x.id > id THEN x.id - 1 ELSE x.id
        /\ x.id # id /\ z.email = x.email /\ z.filled = x.filled
  BY <1>2, <1>5
<1> QED
  BY <1>4, <1>6, <1>7, <1>8

LEMMA CompactTidy ==
  ASSUME NEW table \in SUBSET Rows, NEW fields, Tidy(table, fields), NEW gone \in table
  PROVE  Compact(table, gone.id) \in SUBSET Rows /\ Tidy(Compact(table, gone.id), fields)
<1>1. PICK n \in Nat : Ranked(table, n)
  BY DEF Tidy
<1>2. PICK after : after = Compact(table, gone.id)
  OBVIOUS
<1>3. /\ after \in SUBSET Rows /\ gone.id \in 1 .. n /\ Ranked(after, n - 1)
      /\ \A z \in after : \E x \in table :
           /\ z.id = IF x.id > gone.id THEN x.id - 1 ELSE x.id
           /\ x.id # gone.id /\ z.email = x.email /\ z.filled = x.filled
  BY <1>1, <1>2, CompactRanked
<1>4. Unique(after)
  <2> SUFFICES ASSUME NEW y \in after, NEW z \in after, y.email = z.email
               PROVE  y = z
    BY DEF Unique
  <2>1. y.id = z.id
    BY <1>3 DEF Tidy, Unique
  <2> QED
    BY <1>3, <2>1 DEF Ranked
<1>5. Fitted(after, fields)
  BY <1>3 DEF Fitted, Tidy
<1>6. n - 1 \in Nat
  BY <1>3
<1> QED
  BY <1>2, <1>3, <1>4, <1>5, <1>6 DEF Tidy

\* A new entry is added at the end.
LEMMA InsertTidy ==
  ASSUME NEW table \in SUBSET Rows, NEW fields, Tidy(table, fields), NEW item \in Item,
         item.filled \subseteq DOMAIN fields,
         ~\E x \in table : x.email = item.email
  PROVE  LET after == table \cup {RowOf(NextId(table), item)}
         IN after \in SUBSET Rows /\ Tidy(after, fields)
<1> DEFINE new == RowOf(NextId(table), item)
           after == table \cup {new}
<1>1. PICK n \in Nat : Ranked(table, n)
  BY DEF Tidy
<1>2. /\ new.id = n + 1 /\ new.email = item.email /\ new.filled = item.filled
      /\ new \in Rows
  BY <1>1, NextIdOf DEF RowOf, Rows, Item
<1> HIDE DEF new
<1>3. Ranked(after, n + 1)
  <2>1. {x.id : x \in after} = 1 .. n + 1
    BY <1>1, <1>2 DEF Ranked
  <2>2. \A x, y \in after : x.id = y.id => x = y
    BY <1>1, <1>2 DEF Ranked
  <2> QED
    BY <2>1, <2>2 DEF Ranked
<1>4. Unique(after) /\ Fitted(after, fields)
  BY <1>2 DEF Tidy, Unique, Fitted
<1>5. Tidy(after, fields)
  BY <1>3, <1>4 DEF Tidy
<1> QED
  BY <1>2, <1>5 DEF new

\* An update keeps the id.
LEMMA UpdateTidy ==
  ASSUME NEW table \in SUBSET Rows, NEW fields, Tidy(table, fields), NEW item \in Item,
         item.filled \subseteq DOMAIN fields,
         \E x \in table : x.id = item.id,
         ~\E x \in table : x.email = item.email /\ x.id # item.id
  PROVE  LET after == {x \in table : x.id # item.id} \cup {RowOf(item.id, item)}
         IN after \in SUBSET Rows /\ Tidy(after, fields)
<1> DEFINE new == RowOf(item.id, item)
           after == {x \in table : x.id # item.id} \cup {new}
<1>1. PICK n \in Nat : Ranked(table, n)
  BY DEF Tidy
<1>2. /\ new.id = item.id /\ new.email = item.email /\ new.filled = item.filled
      /\ new \in Rows
  BY DEF RowOf, Rows, Item
<1> HIDE DEF new
<1>3. Ranked(after, n)
  <2>1. \A i : i \in {x.id : x \in after} <=> i \in {x.id : x \in table}
    BY <1>2
  <2>2. \A x, y \in after : x.id = y.id => x = y
    BY <1>1, <1>2 DEF Ranked
  <2> QED
    BY <1>1, <2>1, <2>2 DEF Ranked
<1>4. Unique(after) /\ Fitted(after, fields)
  BY <1>2 DEF Tidy, Unique, Fitted
<1>5. Tidy(after, fields)
  BY <1>3, <1>4 DEF Tidy
<1> QED
  BY <1>2, <1>5 DEF new

\* One write of a batch, whatever it is asked to write.
LEMMA WriteTidy ==
  ASSUME NEW table \in SUBSET Rows, NEW fields, Tidy(table, fields), NEW item \in Item,
         NEW op \in Writes, NEW live \in BOOLEAN, NEW defs, NEW status,
         status = Status(op, table, live, defs, item) \/ status = "not_found",
         ~live => table = {},
         live => DOMAIN defs \subseteq DOMAIN fields
  PROVE  LET after == WriteEntry(table, item, status)
         IN after \in SUBSET Rows /\ Tidy(after, fields) /\ (~live => after = {})
<1>1. CASE status = "deleted"
  <2>1. PICK x \in table : x.id = item.id
    BY <1>1 DEF Status, Writes
  <2>2. WriteEntry(table, item, status) = Compact(table, x.id)
    BY <1>1, <2>1 DEF WriteEntry
  <2>3. live
    BY <2>1
  <2> QED
    BY <2>2, <2>3, CompactTidy
<1>2. CASE status = "inserted"
  <2>1. /\ live /\ item.filled \subseteq DOMAIN defs
        /\ ~\E x \in table : x.email = item.email
    BY <1>2 DEF Status, Writes, Fitting
  <2>2. WriteEntry(table, item, status) = table \cup {RowOf(NextId(table), item)}
    BY <1>2 DEF WriteEntry
  <2> QED
    BY <2>1, <2>2, InsertTidy
<1>3. CASE status = "updated"
  <2>1. /\ item.filled \subseteq DOMAIN defs
        /\ \E x \in table : x.id = item.id
        /\ ~\E x \in table : x.email = item.email /\ x.id # item.id
    BY <1>3 DEF Status, Writes, Fitting
  <2>2. live
    BY <2>1
  <2>3. WriteEntry(table, item, status)
          = {x \in table : x.id # item.id} \cup {RowOf(item.id, item)}
    BY <1>3 DEF WriteEntry
  <2> QED
    BY <2>1, <2>2, <2>3, UpdateTidy
<1>4. CASE status \notin {"deleted", "inserted", "updated"}
  BY <1>4 DEF WriteEntry
<1> QED
  BY <1>1, <1>2, <1>3, <1>4

-----------------------------------------------------------------------------
(* Requests *)

\* The shape of a request follows from the step it has come to.
LEMMA ShapeOf ==
  ASSUME TypeOK, NEW r \in Requests
  PROVE  /\ req[r] \in Handled
         /\ req[r].at \in {"merge", "write"} => req[r] \in Batching
         /\ req[r].at = "store" => req[r] \in Saving
         /\ req[r].at = "confirmed" => req[r] \in Confirming
         /\ req[r].at = "capture" => req[r] \in Capturing
         /\ req[r].at \in {"enqueue", "queued", "running"} => req[r] \in Captured
<1> DEFINE q == req[r]
<1>1. q \in Handled
  BY DEF TypeOK
<1> HIDE DEF q
<1>2. /\ q.at \in {"merge", "write"} => q \in Batching
      /\ q.at = "store" => q \in Saving
      /\ q.at = "confirmed" => q \in Confirming
      /\ q.at = "capture" => q \in Capturing
      /\ q.at \in {"enqueue", "queued", "running"} => q \in Captured
  BY <1>1 DEF Handled, Arriving, Idle, Over, Batching, Saving, Confirming, Capturing, Captured
<1> QED
  BY <1>1, <1>2 DEF q

\* A request that waits for nothing is sound, whatever the lists are.
LEMMA OverSound ==
  ASSUME NEW op, NEW at \in {"ok", "failed"}, NEW L, NEW next, NEW C
  PROVE  Sound([op |-> op, at |-> at], L, next, C)
BY DEF Sound

\* A step that moves one request, and leaves what the others rely on.
LEMMA OneMoves ==
  ASSUME TypeOK, NEW r \in Requests, NEW q \in Handled, req' = [req EXCEPT ![r] = q],
         Sound(q, lists', nextList', campaigns'),
         \A s \in Requests : s # r => Sound(req[s], lists', nextList', campaigns')
  PROVE  req' \in [Requests -> Handled] /\ RequestsSound'
<1>1. \A s \in Requests : req'[s] = IF s = r THEN q ELSE req[s]
  BY DEF TypeOK
<1>2. \A s \in Requests : Sound(req'[s], lists', nextList', campaigns')
  BY <1>1
<1>3. req' \in [Requests -> Handled]
  BY DEF TypeOK
<1> QED
  BY <1>2, <1>3 DEF RequestsSound

\* A step that moves one request and leaves the tables alone.
LEMMA OnlyMoves ==
  ASSUME IInv, NEW r \in Requests, NEW q \in Handled, req' = [req EXCEPT ![r] = q],
         UNCHANGED <<lists, rows, nextList, deskVars>>, writer' \in Requests \cup {Nobody},
         Sound(q, lists, nextList, campaigns)
  PROVE  IInv'
<1>1. req' \in [Requests -> Handled] /\ RequestsSound'
  BY OneMoves DEF IInv, RequestsSound, deskVars
<1>2. TypeOK'
  BY <1>1 DEF IInv, TypeOK, deskVars
<1>3. TablesTidy' /\ Gone' /\ ListsThere'
  BY DEF IInv, TablesTidy, Gone, ListsThere, deskVars
<1> QED
  BY <1>1, <1>2, <1>3 DEF IInv

\* A request that has begun ends.
LEMMA EndsOnly ==
  ASSUME IInv, NEW r \in Requests, NEW at \in {"ok", "failed"}, Done(r, at),
         req[r] \in Batching \cup Saving \cup Confirming \cup Capturing \cup Captured,
         UNCHANGED <<lists, rows, nextList, deskVars>>, writer' \in Requests \cup {Nobody}
  PROVE  IInv'
<1>1. PICK q : q = [op |-> req[r].op, at |-> at]
  OBVIOUS
<1>2. q \in Handled
  BY <1>1 DEF Handled, Over, Writes, Batching, Saving, Confirming, Capturing, Captured
<1>3. Sound(q, lists, nextList, campaigns)
  BY <1>1 DEF Sound
<1>4. req' = [req EXCEPT ![r] = q]
  BY <1>1 DEF Done
<1> QED
  BY <1>2, <1>3, <1>4, OnlyMoves

\* A captured submission goes on.
LEMMA GoesOnly ==
  ASSUME IInv, NEW r \in Requests, NEW at \in {"queued", "running"}, Goes(r, at),
         req[r] \in Captured, UNCHANGED <<bookVars, deskVars>>,
         campaigns[req[r].id].live, at = "running" => ConfirmationMatches(req[r])
  PROVE  IInv'
<1>1. PICK q : q = [req[r] EXCEPT !.at = at]
  OBVIOUS
<1>2. /\ q \in Captured /\ q.at = at /\ q.id = req[r].id
      /\ q.uses = req[r].uses /\ q.fields = req[r].fields /\ q.entries = req[r].entries
      /\ q.confirmed = req[r].confirmed
  BY <1>1 DEF Captured
<1>3. q \in Handled
  BY <1>2 DEF Handled
<1>4. Sound(q, lists, nextList, campaigns)
  BY <1>2 DEF Sound, ConfirmationMatches
<1>5. req' = [req EXCEPT ![r] = q]
  BY <1>1 DEF Goes
<1>6. writer' \in Requests \cup {Nobody} /\ UNCHANGED <<lists, rows, nextList>>
  BY DEF bookVars, IInv, TypeOK
<1> QED
  BY <1>3, <1>4, <1>5, <1>6, OnlyMoves

-----------------------------------------------------------------------------
(* One lemma for each action *)

\* What a usable list holds.
LEMMA UsableOf ==
  ASSUME IInv, NEW list \in 0 .. MaxLists, Usable(list)
  PROVE  /\ list \in ListIds /\ lists[list].fields \in Fields
         /\ Listing(rows[list]) \in Seq(Entry)
<1>1. list \in ListIds
  BY DEF Usable, Loads, ListIds
<1>2. rows[list] \in SUBSET Rows /\ lists[list].fields \in Fields
  BY <1>1 DEF IInv, TypeOK, Lists
<1>3. PICK n \in Nat : Ranked(rows[list], n)
  BY <1>1 DEF IInv, TablesTidy, Tidy
<1> QED
  BY <1>1, <1>2, <1>3, ListingOf

LEMMA UnresolvedTyped ==
  ASSUME NEW uses \in SUBSET Keys, NEW fields, NEW entries
  PROVE  Unresolved(uses, fields, entries) \in SUBSET (Keys \X Reasons)
BY DEF Unresolved, Reasons

LEMMA CampaignChecksInv ==
  ASSUME IInv, NEW r \in Requests, CampaignChecks(r)
  PROVE  IInv'
<1>1. PICK id \in 0 .. MaxCampaigns, list \in ListIds, uses \in Placeholders :
        Arrives(r, [op |-> "saveCampaign", id |-> id, list |-> list, uses |-> uses,
                    at |-> IF lists[list].live THEN "store" ELSE "failed"])
  BY DEF CampaignChecks
<1>2. PICK q : q = [op |-> "saveCampaign", id |-> id, list |-> list, uses |-> uses,
                    at |-> IF lists[list].live THEN "store" ELSE "failed"]
  OBVIOUS
<1>3. q.at \in {"store", "failed"}
  BY <1>2
<1>4. q \in Handled
  BY <1>2, <1>3 DEF Handled, Saving
<1>5. Sound(q, lists, nextList, campaigns)
  BY <1>3 DEF Sound
<1>6. req' = [req EXCEPT ![r] = q]
  BY <1>1, <1>2 DEF Arrives
<1>7. writer' \in Requests \cup {Nobody} /\ UNCHANGED <<lists, rows, nextList, deskVars>>
  BY DEF CampaignChecks, bookVars, IInv, TypeOK
<1> QED
  BY <1>4, <1>5, <1>6, <1>7, OnlyMoves

LEMMA PreflightInv ==
  ASSUME IInv, NEW r \in Requests, Preflight(r)
  PROVE  IInv'
<1>1. PICK id \in CampaignIds :
        /\ campaigns[id].live
        /\ Arrives(r, IF Usable(campaigns[id].list)
                      THEN [op |-> "queue", at |-> "confirmed", id |-> id,
                            confirmed |-> Unresolved(campaigns[id].uses,
                                                     lists[campaigns[id].list].fields,
                                                     Listing(rows[campaigns[id].list]))]
                      ELSE [op |-> "queue", at |-> "failed"])
  BY DEF Preflight
<1>2. writer' \in Requests \cup {Nobody} /\ UNCHANGED <<lists, rows, nextList, deskVars>>
  BY DEF Preflight, bookVars, IInv, TypeOK
<1>3. CASE Usable(campaigns[id].list)
  <2>1. PICK u : u = Unresolved(campaigns[id].uses, lists[campaigns[id].list].fields,
                                Listing(rows[campaigns[id].list]))
    OBVIOUS
  <2>2. campaigns[id].uses \in SUBSET Keys
    BY CampaignDeskAssumption DEF IInv, TypeOK, Campaigns
  <2>3. u \in SUBSET (Keys \X Reasons)
    BY <2>1, <2>2, UnresolvedTyped
  <2>4. PICK q : q = [op |-> "queue", at |-> "confirmed", id |-> id, confirmed |-> u]
    OBVIOUS
  <2>5. q \in Handled
    BY <2>3, <2>4 DEF Handled, Confirming
  <2>6. Sound(q, lists, nextList, campaigns)
    BY <2>4 DEF Sound
  <2>7. req' = [req EXCEPT ![r] = q]
    BY <1>1, <1>3, <2>1, <2>4 DEF Arrives
  <2> QED
    BY <1>2, <2>5, <2>6, <2>7, OnlyMoves
<1>4. CASE ~Usable(campaigns[id].list)
  <2>1. PICK q : q = [op |-> "queue", at |-> "failed"]
    OBVIOUS
  <2>2. q \in Handled
    BY <2>1 DEF Handled, Over
  <2>3. Sound(q, lists, nextList, campaigns)
    BY <2>1 DEF Sound
  <2>4. req' = [req EXCEPT ![r] = q]
    BY <1>1, <1>4, <2>1 DEF Arrives
  <2> QED
    BY <1>2, <2>2, <2>3, <2>4, OnlyMoves
<1> QED
  BY <1>3, <1>4

LEMMA QueueReadsInv ==
  ASSUME IInv, NEW r \in Requests, QueueReads(r)
  PROVE  IInv'
<1> DEFINE c == campaigns[req[r].id]
<1>1. req[r] \in Confirming
  BY ShapeOf DEF IInv, QueueReads, At
<1>2. writer' \in Requests \cup {Nobody} /\ UNCHANGED <<lists, rows, nextList, deskVars>>
  BY DEF QueueReads, bookVars, IInv, TypeOK
<1>3. CASE c.live
  <2>1. PICK q : q = [op |-> "queue", at |-> "capture", id |-> req[r].id,
                      confirmed |-> req[r].confirmed, list |-> c.list, uses |-> c.uses]
    OBVIOUS
  <2>2. req[r].id \in CampaignIds /\ req[r].confirmed \in SUBSET (Keys \X Reasons)
    BY <1>1 DEF Confirming
  <2>3. c.list \in 0 .. MaxLists /\ c.uses \in Placeholders \cup {{}}
    BY <2>2 DEF IInv, TypeOK, Campaigns
  <2>4. q \in Handled
    BY <2>1, <2>2, <2>3 DEF Handled, Capturing
  <2>5. Sound(q, lists, nextList, campaigns)
    BY <2>1 DEF Sound
  <2>6. req' = [req EXCEPT ![r] = q]
    BY <1>3, <2>1 DEF QueueReads, IInv, TypeOK
  <2> QED
    BY <1>2, <2>4, <2>5, <2>6, OnlyMoves
<1>4. CASE ~c.live
  <2>1. Done(r, "failed")
    BY <1>4 DEF QueueReads
  <2> QED
    BY <1>1, <1>2, <2>1, EndsOnly
<1> QED
  BY <1>3, <1>4

LEMMA QueueCapturesInv ==
  ASSUME IInv, NEW r \in Requests, QueueCaptures(r)
  PROVE  IInv'
<1>1. req[r] \in Capturing
  BY ShapeOf DEF IInv, QueueCaptures, At
<1>2. writer' \in Requests \cup {Nobody} /\ UNCHANGED <<lists, rows, nextList, deskVars>>
  BY DEF QueueCaptures, bookVars, IInv, TypeOK
<1>3. CASE Usable(req[r].list)
  <2>1. PICK q : q = [op |-> "queue", at |-> "enqueue", id |-> req[r].id,
                      confirmed |-> req[r].confirmed, uses |-> req[r].uses,
                      list |-> req[r].list, fields |-> lists[req[r].list].fields,
                      entries |-> Listing(rows[req[r].list])]
    OBVIOUS
  <2>2. /\ req[r].id \in CampaignIds /\ req[r].confirmed \in SUBSET (Keys \X Reasons)
        /\ req[r].list \in 0 .. MaxLists /\ req[r].uses \in Placeholders \cup {{}}
    BY <1>1 DEF Capturing
  <2>3. lists[req[r].list].fields \in Fields /\ Listing(rows[req[r].list]) \in Seq(Entry)
    BY <1>3, <2>2, UsableOf
  <2>4. q \in Handled
    BY <2>1, <2>2, <2>3 DEF Handled, Captured
  <2>5. Sound(q, lists, nextList, campaigns)
    BY <2>1 DEF Sound
  <2>6. req' = [req EXCEPT ![r] = q]
    BY <1>3, <2>1 DEF QueueCaptures
  <2> QED
    BY <1>2, <2>4, <2>5, <2>6, OnlyMoves
<1>4. CASE ~Usable(req[r].list)
  <2>1. Done(r, "failed")
    BY <1>4 DEF QueueCaptures
  <2> QED
    BY <1>1, <1>2, <2>1, EndsOnly
<1> QED
  BY <1>3, <1>4

LEMMA QueueEnqueuesInv ==
  ASSUME IInv, NEW r \in Requests, QueueEnqueues(r)
  PROVE  IInv'
<1>1. req[r] \in Captured
  BY ShapeOf DEF IInv, QueueEnqueues, At
<1>2. UNCHANGED <<bookVars, deskVars>>
  BY DEF QueueEnqueues
<1>3. CASE Goes(r, "queued") /\ campaigns[req[r].id].live
  BY <1>1, <1>2, <1>3, GoesOnly
<1>4. CASE Done(r, "failed")
  <2>1. writer' \in Requests \cup {Nobody} /\ UNCHANGED <<lists, rows, nextList>>
    BY <1>2 DEF bookVars, IInv, TypeOK
  <2> QED
    BY <1>1, <1>2, <1>4, <2>1, EndsOnly
<1> QED
  BY <1>3, <1>4 DEF QueueEnqueues

LEMMA StartsInv ==
  ASSUME IInv, NEW r \in Requests, Starts(r)
  PROVE  IInv'
<1>1. req[r] \in Captured
  BY ShapeOf DEF IInv, Starts, At
<1>2. UNCHANGED <<bookVars, deskVars>> /\ req[r].at = "queued"
  BY DEF Starts, At
<1>3. CASE ConfirmationMatches(req[r])
  <2>1. campaigns[req[r].id].live
    BY <1>2 DEF IInv, RequestsSound, Sound
  <2>2. Goes(r, "running")
    BY <1>3 DEF Starts
  <2> QED
    BY <1>1, <1>2, <1>3, <2>1, <2>2, GoesOnly
<1>4. CASE ~ConfirmationMatches(req[r])
  <2>1. writer' \in Requests \cup {Nobody} /\ UNCHANGED <<lists, rows, nextList>>
    BY <1>2 DEF bookVars, IInv, TypeOK
  <2>2. Done(r, "failed")
    BY <1>4 DEF Starts
  <2> QED
    BY <1>1, <1>2, <2>1, <2>2, EndsOnly
<1> QED
  BY <1>3, <1>4

LEMMA SettlesInv ==
  ASSUME IInv, NEW r \in Requests, Settles(r)
  PROVE  IInv'
<1>1. req[r] \in Captured
  BY ShapeOf DEF IInv, Settles, Active
<1>2. writer' \in Requests \cup {Nobody} /\ UNCHANGED <<lists, rows, nextList, deskVars>>
  BY DEF Settles, bookVars, IInv, TypeOK
<1> QED
  BY <1>1, <1>2, EndsOnly DEF Settles

\* Campaigns stay as live as they were for every request but the one that moves.
LEMMA CampaignStoresInv ==
  ASSUME IInv, NEW r \in Requests, CampaignStores(r)
  PROVE  IInv'
<1> DEFINE c == req[r]
           id == IF c.id = 0 THEN nextCampaign ELSE c.id
           valid == lists[c.list].live /\ (c.id > 0 => campaigns[c.id].live)
           row == [live |-> TRUE, list |-> c.list, uses |-> c.uses]
<1>1. req[r] \in Saving
  BY ShapeOf DEF IInv, CampaignStores, At
<1>2. /\ c.id \in 0 .. MaxCampaigns /\ c.list \in ListIds /\ c.uses \in Placeholders
      /\ id <= MaxCampaigns /\ UNCHANGED bookVars
  BY <1>1 DEF CampaignStores, Saving
<1>3. id \in CampaignIds
  BY <1>2, CampaignDeskAssumption DEF IInv, TypeOK, CampaignIds
<1>4. writer' \in Requests \cup {Nobody} /\ UNCHANGED <<lists, rows, nextList>>
  BY <1>2 DEF bookVars, IInv, TypeOK
<1>5. CASE valid
  <2>1. /\ campaigns' = [campaigns EXCEPT ![id] = row]
        /\ nextCampaign' = nextCampaign + (IF c.id = 0 THEN 1 ELSE 0)
        /\ Done(r, "ok")
    BY <1>5 DEF CampaignStores
  <2>2. row \in Campaigns /\ row.live /\ row.list = c.list
    BY <1>2 DEF Campaigns, ListIds
  <2>3. \A d \in CampaignIds : campaigns'[d] = IF d = id THEN row ELSE campaigns[d]
    BY <2>1 DEF IInv, TypeOK
  <2>4. campaigns' \in [CampaignIds -> Campaigns]
    <3> HIDE DEF row, id
    <3> QED
      BY <2>1, <2>2, <1>3 DEF IInv, TypeOK
  <2>5. nextCampaign' \in 1 .. MaxCampaigns + 1
    BY <1>2, <2>1, CampaignDeskAssumption DEF IInv, TypeOK
  <2>6. PICK q : q = [op |-> req[r].op, at |-> "ok"]
    OBVIOUS
  <2>7. q \in Handled /\ req' = [req EXCEPT ![r] = q]
    BY <1>1, <2>1, <2>6 DEF Handled, Over, Saving, Done
  <2>8. Sound(q, lists', nextList', campaigns')
    BY <2>6 DEF Sound
  <2>9. \A s \in Requests : Sound(req[s], lists', nextList', campaigns')
    <3> TAKE s \in Requests
    <3>1. Sound(req[s], lists, nextList, campaigns)
      BY DEF IInv, RequestsSound
    <3>2. req[s].at \in {"queued", "running"} => req[s].id \in CampaignIds
      BY ShapeOf DEF IInv, Captured
    <3> HIDE DEF row, id
    <3> QED
      BY <1>4, <2>2, <2>3, <3>1, <3>2 DEF Sound
  <2>10. req' \in [Requests -> Handled] /\ RequestsSound'
    BY <2>7, <2>8, <2>9, OneMoves DEF IInv
  <2>11. TypeOK'
    BY <1>4, <2>4, <2>5, <2>10 DEF IInv, TypeOK
  <2>12. ListsThere'
    <3>1. \A d \in CampaignIds : campaigns'[d].live =>
            campaigns'[d].list \in ListIds /\ lists[campaigns'[d].list].live
      <4> HIDE DEF row, id
      <4> QED
        BY <1>2, <1>5, <2>2, <2>3 DEF IInv, ListsThere
    <3> QED
      BY <1>4, <3>1 DEF ListsThere
  <2>13. TablesTidy' /\ Gone'
    BY <1>4 DEF IInv, TablesTidy, Gone
  <2> QED
    BY <2>10, <2>11, <2>12, <2>13 DEF IInv
<1>6. CASE ~valid
  <2>1. Done(r, "failed") /\ UNCHANGED deskVars
    BY <1>6 DEF CampaignStores
  <2> QED
    BY <1>1, <1>4, <2>1, EndsOnly
<1> QED
  BY <1>5, <1>6

\* A campaign that goes has no task that is still to end.
LEMMA DeleteCampaignInv ==
  ASSUME IInv, NEW r \in Requests, DeleteCampaign(r)
  PROVE  IInv'
<1>1. PICK id \in CampaignIds :
        LET deleted == /\ campaigns[id].live
                       /\ ~\E q \in Requests : Active(q) /\ req[q].id = id
        IN /\ Arrives(r, [op |-> "deleteCampaign", at |-> IF deleted THEN "ok" ELSE "failed"])
           /\ campaigns' = [campaigns EXCEPT ![id] = IF deleted THEN NoCampaign ELSE @]
  BY DEF DeleteCampaign
<1> DEFINE deleted == /\ campaigns[id].live
                      /\ ~\E q \in Requests : Active(q) /\ req[q].id = id
<1>2. writer' \in Requests \cup {Nobody} /\ UNCHANGED <<lists, rows, nextList, nextCampaign>>
  BY DEF DeleteCampaign, bookVars, IInv, TypeOK
<1>3. PICK q : q = [op |-> "deleteCampaign", at |-> IF deleted THEN "ok" ELSE "failed"]
  OBVIOUS
<1>4. q.at \in {"ok", "failed"} /\ q \in Handled /\ req' = [req EXCEPT ![r] = q]
  BY <1>1, <1>3 DEF Arrives, Handled, Over
<1>5. Sound(q, lists', nextList', campaigns')
  BY <1>4 DEF Sound
<1>6. \A c \in CampaignIds :
        campaigns'[c] = IF c = id /\ deleted THEN NoCampaign ELSE campaigns[c]
  BY <1>1 DEF IInv, TypeOK
<1>7. NoCampaign \in Campaigns /\ ~NoCampaign.live
  BY AddressBookAssumption DEF NoCampaign, Campaigns
<1>8. campaigns' \in [CampaignIds -> Campaigns]
  <2> HIDE DEF deleted
  <2>1. \A c \in CampaignIds : campaigns'[c] \in Campaigns
    BY <1>6, <1>7 DEF IInv, TypeOK
  <2>2. campaigns' = [c \in CampaignIds |-> campaigns'[c]]
    BY <1>1 DEF IInv, TypeOK
  <2> QED
    BY <2>1, <2>2
<1>9. \A s \in Requests : Sound(req[s], lists', nextList', campaigns')
  <2> TAKE s \in Requests
  <2>1. Sound(req[s], lists, nextList, campaigns)
    BY DEF IInv, RequestsSound
  <2>2. req[s].at \in {"queued", "running"} =>
          req[s].id \in CampaignIds /\ campaigns'[req[s].id] = campaigns[req[s].id]
    <3>1. HAVE req[s].at \in {"queued", "running"}
    <3>2. req[s].id \in CampaignIds /\ Active(s)
      BY <3>1, ShapeOf DEF IInv, Captured, Active
    <3>3. ~(req[s].id = id /\ deleted)
      BY <3>2
    <3> HIDE DEF deleted
    <3> QED
      BY <1>6, <3>2, <3>3
  <2> QED
    BY <1>2, <2>1, <2>2 DEF Sound
<1>10. req' \in [Requests -> Handled] /\ RequestsSound'
  BY <1>4, <1>5, <1>9, OneMoves DEF IInv
<1>11. TypeOK'
  BY <1>2, <1>8, <1>10 DEF IInv, TypeOK
<1>12. ListsThere'
  <2>1. \A c \in CampaignIds : campaigns'[c].live =>
          campaigns'[c].list \in ListIds /\ lists[campaigns'[c].list].live
    <3> HIDE DEF deleted
    <3> QED
      BY <1>6, <1>7 DEF IInv, ListsThere
  <2> QED
    BY <1>2, <2>1 DEF ListsThere
<1>13. TablesTidy' /\ Gone'
  BY <1>2 DEF IInv, TablesTidy, Gone
<1> QED
  BY <1>10, <1>11, <1>12, <1>13 DEF IInv

\* No campaign uses a list that goes, and its entries go with it.
LEMMA DeleteListInv ==
  ASSUME IInv, NEW r \in Requests, DeleteList(r, Referenced), UNCHANGED deskVars
  PROVE  IInv'
<1>1. PICK id \in ListIds :
        LET deleted == lists[id].live /\ id \notin Referenced
        IN /\ Arrives(r, [op |-> "deleteList", at |-> IF deleted THEN "ok" ELSE "failed"])
           /\ lists' = [lists EXCEPT ![id] = IF deleted THEN NoList ELSE @]
           /\ rows'  = [rows EXCEPT ![id] = IF deleted THEN {} ELSE @]
           /\ UNCHANGED <<nextList, writer>>
  BY DEF DeleteList
<1> DEFINE deleted == lists[id].live /\ id \notin Referenced
<1>2. writer' \in Requests \cup {Nobody} /\ UNCHANGED <<nextList, campaigns, nextCampaign>>
  BY <1>1 DEF deskVars, IInv, TypeOK
<1>3. PICK q : q = [op |-> "deleteList", at |-> IF deleted THEN "ok" ELSE "failed"]
  OBVIOUS
<1>4. q.at \in {"ok", "failed"} /\ q \in Handled /\ req' = [req EXCEPT ![r] = q]
  BY <1>1, <1>3 DEF Arrives, Handled, Over
<1>5. Sound(q, lists', nextList', campaigns')
  BY <1>4 DEF Sound
<1>6. \A l \in ListIds :
        /\ lists'[l] = IF l = id /\ deleted THEN NoList ELSE lists[l]
        /\ rows'[l] = IF l = id /\ deleted THEN {} ELSE rows[l]
  BY <1>1 DEF IInv, TypeOK
<1>7. NoList \in Lists /\ ~NoList.live
  <2>1. <<>> \in [{} -> Labels]
    OBVIOUS
  <2>2. <<>> \in Fields
    BY <2>1 DEF Fields
  <2> QED
    BY <2>2 DEF NoList, Lists
<1> HIDE DEF deleted
<1>8. lists' \in [ListIds -> Lists] /\ rows' \in [ListIds -> SUBSET Rows]
  <2>1. \A l \in ListIds : lists'[l] \in Lists /\ rows'[l] \in SUBSET Rows
    BY <1>6, <1>7 DEF IInv, TypeOK
  <2>2. lists' = [l \in ListIds |-> lists'[l]] /\ rows' = [l \in ListIds |-> rows'[l]]
    BY <1>1 DEF IInv, TypeOK
  <2> QED
    BY <2>1, <2>2
<1>9. \A s \in Requests : Sound(req[s], lists', nextList', campaigns')
  <2> TAKE s \in Requests
  <2>1. Sound(req[s], lists, nextList, campaigns)
    BY DEF IInv, RequestsSound
  <2>2. req[s].at = "write" => req[s].list \in ListIds
    BY ShapeOf DEF IInv, Batching
  <2> QED
    BY <1>2, <1>6, <1>7, <2>1, <2>2 DEF Sound
<1>10. req' \in [Requests -> Handled] /\ RequestsSound'
  BY <1>4, <1>5, <1>9, OneMoves DEF IInv
<1>11. TypeOK'
  BY <1>2, <1>8, <1>10 DEF IInv, TypeOK
<1>12. TablesTidy'
  <2>1. Tidy({}, NoList.fields)
    <3>1. Ranked({}, 0)
      BY DEF Ranked
    <3> QED
      BY <3>1 DEF Tidy, Unique, Fitted
  <2>2. \A l \in ListIds : Tidy(rows'[l], lists'[l].fields)
    BY <1>6, <2>1 DEF IInv, TablesTidy
  <2> QED
    BY <2>2 DEF TablesTidy
<1>13. Gone'
  BY <1>2, <1>6, <1>7 DEF IInv, Gone
<1>14. ListsThere'
  <2>1. \A c \in CampaignIds : campaigns[c].live =>
          campaigns[c].list \in ListIds /\ lists'[campaigns[c].list].live
    <3> TAKE c \in CampaignIds
    <3>1. HAVE campaigns[c].live
    <3>2. campaigns[c].list \in ListIds /\ lists[campaigns[c].list].live
      BY <3>1 DEF IInv, ListsThere
    <3>3. campaigns[c].list \in Referenced
      BY <3>1 DEF Referenced
    <3>4. ~(campaigns[c].list = id /\ deleted)
      BY <3>3 DEF deleted
    <3> QED
      BY <1>6, <3>2, <3>4
  <2> QED
    BY <1>2, <2>1 DEF ListsThere
<1> QED
  BY <1>10, <1>11, <1>12, <1>13, <1>14 DEF IInv

-----------------------------------------------------------------------------
(* Orders: counting what comes before *)

\* In a strict total order of a finite set, given by what comes before each
\* element, each number below the size of the set counts the predecessors of
\* exactly one element.
LEMMA Ranking ==
  ASSUME NEW S, IsFiniteSet(S), NEW before \in [S -> SUBSET S],
         \A x \in S : x \notin before[x],
         \A x \in S : \A y \in before[x] : before[y] \subseteq before[x],
         \A x, y \in S : x = y \/ x \in before[y] \/ y \in before[x]
  PROVE  /\ \A x \in S : Cardinality(before[x]) \in 0 .. (Cardinality(S) - 1)
         /\ \A x, y \in S : Cardinality(before[x]) = Cardinality(before[y]) => x = y
         /\ \A n \in 1 .. Cardinality(S) : \E x \in S : Cardinality(before[x]) = n - 1
         /\ \A x \in S : \A y \in before[x] : Cardinality(before[y]) < Cardinality(before[x])
<1> DEFINE rank == [x \in S |-> Cardinality(before[x]) + 1]
<1>1. Cardinality(S) \in Nat
  BY FS_CardinalityType
<1>2. \A x \in S : before[x] \in SUBSET S
  OBVIOUS
<1>3. \A x \in S : IsFiniteSet(before[x]) /\ Cardinality(before[x]) \in Nat
  BY <1>2, FS_Subset, FS_CardinalityType
<1>4. \A x \in S : Cardinality(before[x]) \in 0 .. (Cardinality(S) - 1)
  <2> TAKE x \in S
  <2>1. Cardinality(S \ {x}) = Cardinality(S) - 1 /\ IsFiniteSet(S \ {x})
    BY FS_RemoveElement
  <2>2. before[x] \in SUBSET (S \ {x})
    BY <1>2
  <2>3. Cardinality(before[x]) <= Cardinality(S \ {x})
    BY <2>1, <2>2, FS_Subset
  <2> QED
    BY <1>1, <1>3, <2>1, <2>3
<1>5. \A x \in S : \A y \in before[x] : Cardinality(before[y]) < Cardinality(before[x])
  <2> TAKE x \in S
  <2> TAKE y \in before[x]
  <2>1. y \in S
    BY <1>2
  <2>2. before[y] \in SUBSET (before[x] \ {y})
    BY <2>1
  <2>3. IsFiniteSet(before[x] \ {y}) /\ Cardinality(before[x] \ {y}) = Cardinality(before[x]) - 1
    BY <1>3, FS_RemoveElement
  <2>4. Cardinality(before[y]) <= Cardinality(before[x] \ {y})
    BY <2>2, <2>3, FS_Subset
  <2> QED
    BY <1>3, <2>1, <2>3, <2>4
<1>6. \A x, y \in S : Cardinality(before[x]) = Cardinality(before[y]) => x = y
  BY <1>3, <1>5
<1>7. rank \in Injection(S, 1 .. Cardinality(S))
  <2>1. rank \in [S -> 1 .. Cardinality(S)]
    BY <1>1, <1>3, <1>4
  <2>2. \A x, y \in S : rank[x] = rank[y] => x = y
    BY <1>3, <1>6
  <2> HIDE DEF rank
  <2> QED
    BY <2>1, <2>2 DEF Injection, IsInjective
<1>8. \A n \in 1 .. Cardinality(S) : \E x \in S : rank[x] = n
  <2>1. /\ IsFiniteSet(1 .. Cardinality(S))
        /\ Cardinality(1 .. Cardinality(S)) = Cardinality(S)
    BY <1>1, FS_Interval
  <2> HIDE DEF rank
  <2>2. rank \in Surjection(S, 1 .. Cardinality(S))
    BY <1>7, <2>1, FS_Injection
  <2> QED
    BY <2>2 DEF Surjection
<1>9. \A n \in 1 .. Cardinality(S) : \E x \in S : Cardinality(before[x]) = n - 1
  <2> TAKE n \in 1 .. Cardinality(S)
  <2>1. PICK x \in S : rank[x] = n
    BY <1>8
  <2>2. Cardinality(before[x]) = n - 1
    BY <1>3, <2>1
  <2> QED
    BY <2>2
<1> QED
  BY <1>4, <1>5, <1>6, <1>9

\* Deletions are ordered, and are those that were requested.
LEMMA OrderedOf ==
  ASSUME NEW items \in Seq(Item), NEW op
  PROVE  /\ Ordered(op, items) \in Seq(Item)
         /\ op = "delete" =>
              \A i, j \in DOMAIN Ordered(op, items) :
                i < j => Ordered(op, items)[i].id >= Ordered(op, items)[j].id
<1> DEFINE S == DOMAIN items
           before == [i \in S |-> Sooner(items, i)]
           nth(n) == CHOOSE i \in S : Cardinality(Sooner(items, i)) = n - 1
<1>1. /\ S = 1 .. Len(items) /\ Len(items) \in Nat
      /\ \A i \in S : items[i].id \in Nat /\ items[i] \in Item
  <2>1. S = 1 .. Len(items) /\ Len(items) \in Nat
    OBVIOUS
  <2>2. \A i \in S : items[i] \in Item
    OBVIOUS
  <2>3. \A item \in Item : item.id \in Nat
    BY DEF Item
  <2> QED
    BY <2>1, <2>2, <2>3
<1>2. IsFiniteSet(S) /\ Cardinality(S) = Len(items)
  BY <1>1, FS_Interval
<1>3. /\ before \in [S -> SUBSET S]
      /\ \A i \in S : i \notin before[i]
      /\ \A i \in S : \A j \in before[i] : before[j] \subseteq before[i]
      /\ \A i, j \in S : i = j \/ i \in before[j] \/ j \in before[i]
  <2>1. before \in [S -> SUBSET S]
    BY DEF Sooner
  <2>2. \A i, j \in S : j \in before[i] <=> \/ items[j].id > items[i].id
                                            \/ items[j].id = items[i].id /\ j < i
    BY DEF Sooner
  <2>3. \A i \in S : items[i].id \in Nat /\ i \in Nat
    BY <1>1
  <2> HIDE DEF before, S
  <2>4. \A i \in S : i \notin before[i]
    BY <2>2, <2>3
  <2>5. \A i, j, k \in S : j \in before[i] /\ k \in before[j] => k \in before[i]
    BY <2>2, <2>3
  <2>6. \A i \in S : \A j \in before[i] : before[j] \subseteq before[i]
    BY <2>1, <2>5
  <2>7. \A i, j \in S : i = j \/ i \in before[j] \/ j \in before[i]
    BY <2>2, <2>3
  <2> QED
    BY <2>1, <2>4, <2>6, <2>7
<1>4. \A n \in 1 .. Len(items) : \E i \in S : Cardinality(before[i]) = n - 1
  <2> HIDE DEF before, S
  <2>1. \A n \in 1 .. Cardinality(S) : \E i \in S : Cardinality(before[i]) = n - 1
    BY <1>2, <1>3, Ranking
  <2> QED
    BY <1>2, <2>1
<1>5. \A i \in S : \A j \in before[i] : Cardinality(before[j]) < Cardinality(before[i])
  BY <1>2, <1>3, Ranking
<1>6. \A n \in 1 .. Len(items) : nth(n) \in S /\ Cardinality(before[nth(n)]) = n - 1
  BY <1>4
<1>7. Highest(items) = [n \in 1 .. Len(items) |-> items[nth(n)]]
  BY <1>1 DEF Highest
<1> HIDE DEF nth
<1>8. Highest(items) \in Seq(Item)
  <2>1. \A n \in 1 .. Len(items) : items[nth(n)] \in Item
    BY <1>1, <1>6
  <2>2. Highest(items) \in [1 .. Len(items) -> Item]
    BY <1>7, <2>1
  <2> QED
    BY <1>1, <2>2
<1>9. \A i, j \in DOMAIN Highest(items) : i < j => Highest(items)[i].id >= Highest(items)[j].id
  <2> SUFFICES ASSUME NEW i \in 1 .. Len(items), NEW j \in 1 .. Len(items), i < j
               PROVE  items[nth(i)].id >= items[nth(j)].id
    BY <1>7
  <2>1. nth(j) \notin before[nth(i)]
    <3>1. /\ nth(i) \in S /\ Cardinality(before[nth(i)]) = i - 1
          /\ nth(j) \in S /\ Cardinality(before[nth(j)]) = j - 1
      BY <1>6
    <3>2. ~(j - 1 < i - 1)
      OBVIOUS
    <3> HIDE DEF before, S
    <3> QED
      BY <1>5, <3>1, <3>2
  <2>2. nth(i) \in S /\ nth(j) \in S
    BY <1>6
  <2>3. ~(items[nth(j)].id > items[nth(i)].id)
    BY <2>1, <2>2 DEF Sooner
  <2> QED
    BY <1>1, <2>2, <2>3
<1> QED
  BY <1>8, <1>9 DEF Ordered

-----------------------------------------------------------------------------
(* The actions on lists *)

\* Definitions are added, never lost.
LEMMA MergedOf ==
  ASSUME NEW stored \in Fields, NEW incoming \in Fields
  PROVE  /\ Merged(stored, incoming) \in Fields
         /\ DOMAIN Merged(stored, incoming) = DOMAIN stored \cup DOMAIN incoming
<1>1. DOMAIN stored \cup DOMAIN incoming \in SUBSET Keys
  BY DEF Fields
<1>2. Merged(stored, incoming) \in [DOMAIN stored \cup DOMAIN incoming -> Labels]
  BY DEF Fields, Merged
<1> QED
  BY <1>1, <1>2 DEF Fields

\* A step that changes lists so that none is lost, and none loses a field.
LEMMA ListsGrow ==
  ASSUME IInv, NEW r \in Requests, NEW q \in Handled, req' = [req EXCEPT ![r] = q],
         lists' \in [ListIds -> Lists], nextList' \in 1 .. MaxLists + 1,
         nextList' >= nextList, UNCHANGED <<rows, deskVars>>,
         writer' \in Requests \cup {Nobody},
         \A l \in ListIds : /\ DOMAIN lists[l].fields \subseteq DOMAIN lists'[l].fields
                            /\ lists[l].live => lists'[l].live
                            /\ lists'[l].live => lists[l].live \/ (l = nextList /\ l < nextList'),
         Sound(q, lists', nextList', campaigns)
  PROVE  IInv'
<1>1. UNCHANGED <<campaigns, nextCampaign>>
  BY DEF deskVars
<1>2. \A s \in Requests : Sound(req[s], lists', nextList', campaigns)
  <2> TAKE s \in Requests
  <2>1. Sound(req[s], lists, nextList, campaigns)
    BY DEF IInv, RequestsSound
  <2>2. req[s].at \in {"merge", "write"} => req[s].list \in ListIds
    BY ShapeOf DEF IInv, Batching
  <2>3. nextList \in Nat /\ nextList' \in Nat /\ ListIds \subseteq Nat
    BY DEF IInv, TypeOK, ListIds
  <2>4. req[s].at \in {"merge", "write"} =>
          req[s].list < nextList /\ req[s].list < nextList'
    <3>1. HAVE req[s].at \in {"merge", "write"}
    <3>2. req[s].list < nextList /\ req[s].list \in Nat
      BY <2>1, <2>2, <2>3, <3>1 DEF Sound
    <3> QED
      BY <2>3, <3>2
  <2>5. req[s].at = "write" /\ lists'[req[s].list].live =>
          DOMAIN req[s].defs \subseteq DOMAIN lists'[req[s].list].fields
    <3>1. HAVE req[s].at = "write" /\ lists'[req[s].list].live
    <3>2. req[s].list \in ListIds /\ req[s].list # nextList
      BY <2>2, <2>3, <2>4, <3>1
    <3>3. lists[req[s].list].live
      BY <3>1, <3>2
    <3> QED
      BY <2>1, <3>1, <3>2, <3>3 DEF Sound
  <2> QED
    BY <2>1, <2>4, <2>5 DEF Sound
<1>3. req' \in [Requests -> Handled] /\ RequestsSound'
  BY <1>1, <1>2, OneMoves DEF IInv
<1>4. TypeOK'
  BY <1>1, <1>3 DEF IInv, TypeOK
<1>5. TablesTidy'
  <2>1. \A l \in ListIds : Tidy(rows[l], lists'[l].fields)
    BY DEF IInv, TablesTidy, Tidy, Fitted
  <2> QED
    BY <2>1 DEF TablesTidy
<1>6. Gone'
  <2>1. nextList \in Nat /\ nextList' \in Nat /\ ListIds \subseteq Nat
    BY DEF IInv, TypeOK, ListIds
  <2>2. \A l \in ListIds : /\ l >= nextList' => ~lists'[l].live
                           /\ ~lists'[l].live => rows[l] = {}
    BY <2>1 DEF IInv, Gone
  <2> QED
    BY <2>2 DEF Gone
<1>7. ListsThere'
  BY <1>1 DEF IInv, ListsThere
<1> QED
  BY <1>3, <1>4, <1>5, <1>6, <1>7 DEF IInv

LEMMA SaveListInv ==
  ASSUME IInv, NEW r \in Requests, SaveList(r), UNCHANGED deskVars
  PROVE  IInv'
<1> DEFINE target(i) == IF i = 0 THEN nextList ELSE i
           valid(i, f) == /\ i = 0 => nextList <= MaxLists
                          /\ i > 0 => lists[i].live
                          /\ Mergeable(IF i = 0 THEN <<>> ELSE lists[i].fields, f)
<1>1. PICK id \in 0 .. MaxLists, fields \in Definitions :
        /\ id = 0 => nextList <= MaxLists
        /\ Arrives(r, [op |-> "saveList", at |-> IF valid(id, fields) THEN "ok" ELSE "failed"])
        /\ IF valid(id, fields)
           THEN /\ lists' = [lists EXCEPT ![target(id)] =
                      [live |-> TRUE, name |-> r, fields |-> Merged(@.fields, fields)]]
                /\ nextList' = nextList + (IF id = 0 THEN 1 ELSE 0)
           ELSE UNCHANGED <<lists, nextList>>
        /\ UNCHANGED <<rows, writer>>
  BY DEF SaveList
<1>2. PICK q : q = [op |-> "saveList", at |-> IF valid(id, fields) THEN "ok" ELSE "failed"]
  OBVIOUS
<1>3. q.at \in {"ok", "failed"} /\ q \in Handled /\ req' = [req EXCEPT ![r] = q]
  BY <1>1, <1>2 DEF Arrives, Handled, Over
<1>4. Sound(q, lists', nextList', campaigns)
  BY <1>3 DEF Sound
<1>5. writer' \in Requests \cup {Nobody}
  BY <1>1 DEF IInv, TypeOK
<1>6. CASE valid(id, fields)
  <2> DEFINE t == target(id)
  <2>1. t \in ListIds /\ nextList \in 1 .. MaxLists + 1
    BY <1>1 DEF IInv, TypeOK, ListIds
  <2>2. lists[t].fields \in Fields /\ fields \in Fields
    BY <2>1, AddressBookAssumption DEF IInv, TypeOK, Lists
  <2>3. PICK m \in Fields : m = Merged(lists[t].fields, fields)
    BY <2>2, MergedOf
  <2>4. DOMAIN lists[t].fields \subseteq DOMAIN m
    <3>1. DOMAIN Merged(lists[t].fields, fields) = DOMAIN lists[t].fields \cup DOMAIN fields
      BY <2>2, MergedOf
    <3> HIDE DEF t
    <3> QED
      BY <2>3, <3>1
  <2>5. PICK row : row = [live |-> TRUE, name |-> r, fields |-> m]
    OBVIOUS
  <2>6. /\ row \in Lists /\ row.live /\ row.fields = m
        /\ lists' = [lists EXCEPT ![t] = row]
    <3>1. row \in Lists
      BY <2>5 DEF Lists
    <3>2. row.live /\ row.fields = m
      BY <2>5
    <3>3. lists' = [lists EXCEPT ![t] = row]
      BY <1>1, <1>6, <2>3, <2>5
    <3> QED
      BY <3>1, <3>2, <3>3
  <2>7. /\ nextList' \in 1 .. MaxLists + 1 /\ nextList' >= nextList
        /\ id = 0 => t = nextList /\ t < nextList'
        /\ id > 0 => lists[t].live
    <3>1. nextList' = nextList + (IF id = 0 THEN 1 ELSE 0)
      BY <1>1, <1>6
    <3>2. id = 0 => nextList <= MaxLists
      BY <1>1
    <3>3. MaxLists \in Nat
      BY AddressBookAssumption
    <3>4. id > 0 => lists[t].live
      BY <1>6
    <3> QED
      BY <2>1, <3>1, <3>2, <3>3, <3>4
  <2> HIDE DEF t
  <2>8. \A l \in ListIds : lists'[l] = IF l = t THEN row ELSE lists[l]
    BY <2>6 DEF IInv, TypeOK
  <2>9. lists' \in [ListIds -> Lists]
    BY <2>6 DEF IInv, TypeOK
  <2>10. id = 0 \/ id > 0
    OBVIOUS
  <2>11. \A l \in ListIds :
           /\ DOMAIN lists[l].fields \subseteq DOMAIN lists'[l].fields
           /\ lists[l].live => lists'[l].live
           /\ lists'[l].live => lists[l].live \/ (l = nextList /\ l < nextList')
    <3> TAKE l \in ListIds
    <3>1. CASE l = t
      BY <2>4, <2>6, <2>7, <2>8, <2>10, <3>1
    <3>2. CASE l # t
      <4>1. lists'[l] = lists[l]
        BY <2>8, <3>2
      <4> QED
        BY <4>1
    <3> QED
      BY <3>1, <3>2
  <2> QED
    BY <1>1, <1>3, <1>4, <1>5, <2>7, <2>9, <2>11, ListsGrow
<1>7. CASE ~valid(id, fields)
  <2>1. UNCHANGED <<lists, rows, nextList, deskVars>>
    BY <1>1, <1>7
  <2>2. Sound(q, lists, nextList, campaigns)
    BY <1>3 DEF Sound
  <2> QED
    BY <1>3, <1>5, <2>1, <2>2, OnlyMoves
<1> QED
  BY <1>6, <1>7

\* The definitions a batch has at hand are those of its list, or more that it
\* has still to save.
LEMMA BatchStartsInv ==
  ASSUME IInv, NEW r \in Requests, BatchStarts(r), UNCHANGED deskVars
  PROVE  IInv'
<1>1. PICK id \in ListIds, b \in Batches :
        LET accepted == lists[id].live /\ Mergeable(lists[id].fields, b.fields)
        IN \/ /\ accepted
              /\ Arrives(r, [op |-> b.op, at |-> IF b.fields = <<>> THEN "write" ELSE "merge",
                             list |-> id, name |-> lists[id].name,
                             defs |-> Merged(lists[id].fields, b.fields),
                             items |-> Ordered(b.op, b.items), last |-> 0,
                             done |-> <<>>, before |-> Listing(rows[id])])
              /\ writer' = r
           \/ /\ ~accepted
              /\ Arrives(r, [op |-> b.op, at |-> "failed"])
              /\ UNCHANGED writer
  BY DEF BatchStarts
<1>2. UNCHANGED <<lists, rows, nextList, deskVars>>
  BY DEF BatchStarts
<1>3. writer' \in Requests \cup {Nobody}
  BY <1>1 DEF IInv, TypeOK
<1>4. b.op \in Writes /\ b.fields \in Fields /\ b.items \in Seq(Item)
  BY AddressBookAssumption DEF Writes
<1>5. CASE Arrives(r, [op |-> b.op, at |-> "failed"])
  <2>1. PICK q : q = [op |-> b.op, at |-> "failed"]
    OBVIOUS
  <2>2. q \in Handled /\ req' = [req EXCEPT ![r] = q]
    BY <1>4, <1>5, <2>1 DEF Arrives, Handled, Over
  <2>3. Sound(q, lists, nextList, campaigns)
    BY <2>1 DEF Sound
  <2> QED
    BY <1>2, <1>3, <2>2, <2>3, OnlyMoves
<1>6. CASE /\ lists[id].live
           /\ Arrives(r, [op |-> b.op, at |-> IF b.fields = <<>> THEN "write" ELSE "merge",
                          list |-> id, name |-> lists[id].name,
                          defs |-> Merged(lists[id].fields, b.fields),
                          items |-> Ordered(b.op, b.items), last |-> 0,
                          done |-> <<>>, before |-> Listing(rows[id])])
  <2>1. PICK q : q = [op |-> b.op, at |-> IF b.fields = <<>> THEN "write" ELSE "merge",
                      list |-> id, name |-> lists[id].name,
                      defs |-> Merged(lists[id].fields, b.fields),
                      items |-> Ordered(b.op, b.items), last |-> 0,
                      done |-> <<>>, before |-> Listing(rows[id])]
    OBVIOUS
  <2>2. lists[id] \in Lists /\ rows[id] \in SUBSET Rows
    BY DEF IInv, TypeOK
  <2>3. lists[id].fields \in Fields /\ lists[id].name \in Requests \cup {Nobody}
    BY <2>2 DEF Lists
  <2>4. PICK n \in Nat : Ranked(rows[id], n)
    BY DEF IInv, TablesTidy, Tidy
  <2>5. /\ q.op \in Writes /\ q.at \in {"merge", "write"} /\ q.list = id
        /\ q.name \in Requests \cup {Nobody} /\ q.defs = Merged(lists[id].fields, b.fields)
        /\ q.at = "write" => b.fields = <<>>
    BY <1>4, <2>1, <2>3
  <2>6. q.defs \in Fields /\ DOMAIN q.defs = DOMAIN lists[id].fields \cup DOMAIN b.fields
    BY <1>4, <2>3, <2>5, MergedOf
  <2>7. Listing(rows[id]) \in Seq(Entry) /\ Ordered(b.op, b.items) \in Seq(Item)
    BY <1>4, <2>2, <2>4, ListingOf, OrderedOf
  <2>8. q \in Batching
    BY <1>4, <2>1, <2>3, <2>5, <2>6, <2>7 DEF Batching
  <2>9. q \in Handled /\ req' = [req EXCEPT ![r] = q]
    BY <1>6, <2>1, <2>8 DEF Arrives, Handled
  <2>10. q.list < nextList
    BY <1>6, <2>5 DEF IInv, Gone, TypeOK, ListIds
  <2>11. q.at = "write" => DOMAIN q.defs = DOMAIN lists[id].fields
    <3>1. DOMAIN <<>> = {}
      OBVIOUS
    <3> QED
      BY <2>5, <2>6, <3>1
  <2>12. Sound(q, lists, nextList, campaigns)
    BY <2>5, <2>10, <2>11 DEF Sound
  <2> QED
    BY <1>2, <1>3, <2>9, <2>12, OnlyMoves
<1> QED
  BY <1>1, <1>5, <1>6

\* Where a batch is and what it goes on to.
LEMMA GoesBatch ==
  ASSUME NEW q \in Batching, NEW at \in {"merge", "write"}
  PROVE  LET p == [q EXCEPT !.at = at]
         IN /\ p \in Batching /\ p.at = at /\ p.list = q.list /\ p.defs = q.defs
            /\ p.op = q.op /\ p.items = q.items /\ p.last = q.last
            /\ p.done = q.done /\ p.before = q.before
BY DEF Batching

LEMMA BatchMergesInv ==
  ASSUME IInv, NEW r \in Requests, BatchMerges(r), UNCHANGED deskVars
  PROVE  IInv'
<1> DEFINE b == req[r]
           valid == lists[b.list].live /\ Mergeable(lists[b.list].fields, b.defs)
<1>1. b \in Batching /\ b.at = "merge"
  BY ShapeOf DEF IInv, BatchMerges, At
<1>2. UNCHANGED <<rows, nextList, deskVars>>
  BY DEF BatchMerges
<1>3. /\ b.list \in ListIds /\ b.defs \in Fields /\ b.name \in Requests \cup {Nobody}
      /\ b.list < nextList
  <2>1. Sound(b, lists, nextList, campaigns)
    BY DEF IInv, RequestsSound
  <2> QED
    BY <1>1, <2>1 DEF Batching, Sound
<1>4. lists[b.list] \in Lists /\ lists[b.list].fields \in Fields
  BY <1>3 DEF IInv, TypeOK, Lists
<1>5. CASE valid
  <2>1. PICK m \in Fields : m = Merged(lists[b.list].fields, b.defs)
    BY <1>3, <1>4, MergedOf
  <2>2. DOMAIN m = DOMAIN lists[b.list].fields \cup DOMAIN b.defs
    BY <1>3, <1>4, <2>1, MergedOf
  <2>3. PICK row : row = [lists[b.list] EXCEPT !.name = b.name, !.fields = m]
    OBVIOUS
  <2>4. row \in Lists /\ row.fields = m /\ (lists[b.list].live => row.live)
    <3>1. PICK old : old = lists[b.list]
      OBVIOUS
    <3>2. old \in Lists /\ row = [old EXCEPT !.name = b.name, !.fields = m]
      BY <1>4, <2>3, <3>1
    <3>3. row \in Lists /\ row.fields = m
      BY <1>3, <3>2 DEF Lists
    <3>4. row.live = old.live
      BY <3>2 DEF Lists
    <3>5. lists[b.list].live => row.live
      BY <3>1, <3>4
    <3> QED
      BY <3>3, <3>5
  <2>5. lists' = [lists EXCEPT ![b.list] = row]
    BY <1>5, <2>1, <2>3 DEF BatchMerges
  <2>6. \A l \in ListIds : lists'[l] = IF l = b.list THEN row ELSE lists[l]
    BY <2>5 DEF IInv, TypeOK
  <2>7. lists' \in [ListIds -> Lists]
    BY <2>4, <2>5 DEF IInv, TypeOK
  <2>8. \A l \in ListIds :
          /\ DOMAIN lists[l].fields \subseteq DOMAIN lists'[l].fields
          /\ lists[l].live => lists'[l].live
          /\ lists'[l].live => lists[l].live \/ (l = nextList /\ l < nextList')
    <3> TAKE l \in ListIds
    <3>1. CASE l = b.list
      BY <1>5, <2>2, <2>4, <2>6, <3>1
    <3>2. CASE l # b.list
      <4>1. lists'[l] = lists[l]
        BY <2>6, <3>2
      <4> QED
        BY <4>1
    <3> QED
      BY <3>1, <3>2
  <2>9. PICK q : q = [b EXCEPT !.at = "write"]
    OBVIOUS
  <2>10. q \in Batching /\ q.at = "write" /\ q.list = b.list /\ q.defs = b.defs
    BY <1>1, <2>9, GoesBatch
  <2>11. q \in Handled /\ req' = [req EXCEPT ![r] = q]
    BY <1>5, <2>9, <2>10 DEF BatchMerges, Goes, Handled
  <2>12. Sound(q, lists', nextList', campaigns)
    <3>1. lists'[b.list].fields = m /\ nextList' = nextList
      BY <1>2, <1>3, <2>4, <2>6
    <3> QED
      BY <1>3, <2>2, <2>10, <3>1 DEF Sound
  <2>13. /\ nextList' \in 1 .. MaxLists + 1 /\ nextList' >= nextList
         /\ writer' \in Requests \cup {Nobody}
    <3>1. UNCHANGED writer
      BY <1>5 DEF BatchMerges
    <3> QED
      BY <1>2, <3>1 DEF IInv, TypeOK
  <2> QED
    BY <1>2, <2>7, <2>8, <2>11, <2>12, <2>13, ListsGrow
<1>6. CASE ~valid
  <2>1. Done(r, "failed") /\ writer' = Nobody /\ UNCHANGED lists
    BY <1>6 DEF BatchMerges
  <2> QED
    BY <1>1, <1>2, <2>1, EndsOnly
<1> QED
  BY <1>5, <1>6

\* The one request that moves when a batch stops.
LEMMA StopsOf ==
  ASSUME IInv, NEW r \in Requests, BatchStops(r)
  PROVE  \E q \in Batching : \E o \in Outcomes :
           LET b == req[r]
           IN /\ b \in Batching /\ b.at = "write"
              /\ req' = [req EXCEPT ![r] = q] /\ o.status = "failed"
              /\ q.at = "write" /\ q.op = b.op /\ q.list = b.list /\ q.defs = b.defs
              /\ q.before = b.before /\ q.items = <<>> /\ q.last = b.last
              /\ q.done = Append(b.done, o)
<1> DEFINE b == req[r]
<1>1. b \in Batching /\ b.at = "write" /\ b.items # <<>>
  BY ShapeOf DEF IInv, BatchStops, At
<1>2. Head(b.items) \in Item /\ <<>> \in Seq(Item)
  BY <1>1 DEF Batching
<1>3. PICK o : o = [item |-> Head(b.items), status |-> "failed"]
  OBVIOUS
<1>4. o \in Outcomes /\ o.status = "failed"
  BY <1>2, <1>3 DEF Outcomes
<1>5. PICK q : q = [b EXCEPT !.items = <<>>, !.done = Append(b.done, o)]
  OBVIOUS
<1>6. /\ q \in Batching /\ q.at = b.at /\ q.list = b.list /\ q.defs = b.defs
      /\ q.op = b.op /\ q.before = b.before /\ q.items = <<>> /\ q.last = b.last
      /\ q.done = Append(b.done, o)
  <2>1. PICK c : c = b
    OBVIOUS
  <2>2. c \in Batching /\ <<>> \in Seq(Item)
    BY <1>1, <1>2, <2>1
  <2>3. PICK d : d = Append(c.done, o)
    OBVIOUS
  <2>4. d \in Seq(Outcomes)
    BY <1>4, <2>2, <2>3 DEF Batching
  <2>5. q = [c EXCEPT !.items = <<>>, !.done = d]
    BY <1>5, <2>1, <2>3
  <2>6. q \in Batching
    BY <2>2, <2>4, <2>5 DEF Batching
  <2>7. /\ q.at = c.at /\ q.list = c.list /\ q.defs = c.defs /\ q.op = c.op
        /\ q.before = c.before /\ q.items = <<>> /\ q.last = c.last /\ q.done = d
    BY <2>2, <2>5 DEF Batching
  <2> QED
    BY <2>1, <2>3, <2>6, <2>7
<1>7. req' = [req EXCEPT ![r] = q]
  BY <1>1, <1>3, <1>5 DEF BatchStops
<1> QED
  BY <1>1, <1>4, <1>6, <1>7

LEMMA BatchStopsInv ==
  ASSUME IInv, NEW r \in Requests, BatchStops(r), UNCHANGED deskVars
  PROVE  IInv'
<1> DEFINE b == req[r]
<1>1. PICK q \in Batching : /\ b.at = "write" /\ req' = [req EXCEPT ![r] = q]
                            /\ q.at = "write" /\ q.list = b.list /\ q.defs = b.defs
  BY StopsOf
<1>2. Sound(q, lists, nextList, campaigns)
  <2>1. Sound(b, lists, nextList, campaigns)
    BY DEF IInv, RequestsSound
  <2> QED
    BY <1>1, <2>1 DEF Sound
<1>3. writer' \in Requests \cup {Nobody} /\ UNCHANGED <<lists, rows, nextList, deskVars>>
  BY DEF BatchStops, bookVars, IInv, TypeOK
<1>4. q \in Handled
  BY DEF Handled
<1> QED
  BY <1>1, <1>2, <1>3, <1>4, OnlyMoves

LEMMA BatchEndsInv ==
  ASSUME IInv, NEW r \in Requests, BatchEnds(r), UNCHANGED deskVars
  PROVE  IInv'
<1>1. req[r] \in Batching
  BY ShapeOf DEF IInv, BatchEnds, At
<1>2. UNCHANGED <<lists, rows, nextList, deskVars>> /\ writer' = Nobody /\ Done(r, "ok")
  BY DEF BatchEnds
<1> QED
  BY <1>1, <1>2, EndsOnly

\* What a write finds and what it leaves, with the names of BatchWrites.
Found(b, t, live) ==
  IF b.op = "delete" /\ b.last > 0 /\ Head(b.items).id = b.last THEN "not_found"
  ELSE Status(b.op, t, live, b.defs, Head(b.items))

LEMMA StatusTyped ==
  ASSUME NEW op \in Writes, NEW t, NEW live, NEW defs, NEW item
  PROVE  /\ Status(op, t, live, defs, item) \in
              {"inserted", "updated", "deleted", "not_found", "invalid", "duplicate", "rejected"}
         /\ Status(op, t, live, defs, item) = "deleted" => op = "delete"
         /\ Status(op, t, live, defs, item) = "inserted" => op = "insert"
         /\ Status(op, t, live, defs, item) = "updated" => op = "update"
BY DEF Status, Writes

\* The one request that a write moves, and the one table it changes.
LEMMA WritesOf ==
  ASSUME IInv, NEW r \in Requests, BatchWrites(r)
  PROVE  \E q \in Batching : \E status \in {"inserted", "updated", "deleted", "not_found",
                                            "invalid", "duplicate", "rejected"} :
           LET b == req[r]
               t == rows[b.list]
               item == Head(b.items)
           IN /\ b \in Batching /\ b.at = "write" /\ b.items # <<>>
              /\ b.list \in ListIds /\ item \in Item
              /\ status = Found(b, t, lists[b.list].live)
              /\ rows' = [rows EXCEPT ![b.list] = WriteEntry(t, item, status)]
              /\ req' = [req EXCEPT ![r] = q]
              /\ q.at = "write" /\ q.op = b.op /\ q.list = b.list /\ q.defs = b.defs
              /\ q.before = b.before /\ q.items = Tail(b.items)
              /\ q.last = IF status = "deleted" THEN item.id ELSE b.last
              /\ q.done = Append(b.done, [item |-> item, status |-> status])
<1> DEFINE b == req[r]
           t == rows[b.list]
           item == Head(b.items)
<1>1. b \in Batching /\ b.at = "write" /\ b.items # <<>>
  BY ShapeOf DEF IInv, BatchWrites, At
<1>2. /\ item \in Item /\ item.id \in Nat /\ Tail(b.items) \in Seq(Item) /\ b.op \in Writes
      /\ b.list \in ListIds /\ b.last \in Nat
  <2>1. b.items \in Seq(Item) /\ b.op \in Writes /\ b.list \in ListIds /\ b.last \in Nat
    BY <1>1 DEF Batching
  <2>2. item \in Item /\ Tail(b.items) \in Seq(Item)
    BY <1>1, <2>1
  <2>3. item.id \in Nat
    BY <2>2 DEF Item
  <2> QED
    BY <2>1, <2>2, <2>3
<1>3. PICK status : status = Found(b, t, lists[b.list].live)
  OBVIOUS
<1>4. status \in {"inserted", "updated", "deleted", "not_found", "invalid", "duplicate", "rejected"}
  BY <1>2, <1>3, StatusTyped DEF Found
<1>5. PICK o : o = [item |-> item, status |-> status]
  OBVIOUS
<1>6. o \in Outcomes
  BY <1>2, <1>4, <1>5 DEF Outcomes
<1>7. PICK last : last = IF status = "deleted" THEN item.id ELSE b.last
  OBVIOUS
<1>8. last \in Nat
  BY <1>2, <1>7
<1>9. PICK q : q = [b EXCEPT !.items = Tail(b.items), !.last = last, !.done = Append(b.done, o)]
  OBVIOUS
<1>10. /\ q \in Batching /\ q.at = b.at /\ q.list = b.list /\ q.defs = b.defs
       /\ q.op = b.op /\ q.items = Tail(b.items) /\ q.last = last
       /\ q.done = Append(b.done, o) /\ q.before = b.before
  <2>1. PICK c : c = b
    OBVIOUS
  <2>2. PICK rest : rest = Tail(b.items)
    OBVIOUS
  <2>3. c \in Batching /\ rest \in Seq(Item)
    BY <1>1, <1>2, <2>1, <2>2
  <2>4. PICK d : d = Append(c.done, o)
    OBVIOUS
  <2>5. d \in Seq(Outcomes)
    BY <1>6, <2>3, <2>4 DEF Batching
  <2>6. q = [c EXCEPT !.items = rest, !.last = last, !.done = d]
    BY <1>9, <2>1, <2>2, <2>4
  <2>7. q \in Batching
    BY <1>8, <2>3, <2>5, <2>6 DEF Batching
  <2>8. /\ q.at = c.at /\ q.list = c.list /\ q.defs = c.defs /\ q.op = c.op
        /\ q.items = rest /\ q.last = last /\ q.done = d /\ q.before = c.before
    BY <2>3, <2>6 DEF Batching
  <2> QED
    BY <2>1, <2>2, <2>4, <2>7, <2>8
<1>11. /\ rows' = [rows EXCEPT ![b.list] = WriteEntry(t, item, status)]
       /\ req' = [req EXCEPT ![r].items = Tail(b.items), ![r].last = last,
                             ![r].done = Append(b.done, o)]
  BY <1>3, <1>5, <1>7 DEF BatchWrites, Found
<1>12. req' = [req EXCEPT ![r] = q]
  BY <1>9, <1>11 DEF IInv, TypeOK
<1> QED
  BY <1>1, <1>2, <1>3, <1>4, <1>5, <1>7, <1>10, <1>11, <1>12

\* A write leaves its table tidy, although what it knows of the list is stale.
LEMMA BatchWritesInv ==
  ASSUME IInv, NEW r \in Requests, BatchWrites(r), UNCHANGED deskVars
  PROVE  IInv'
<1> DEFINE b == req[r]
           t == rows[b.list]
           item == Head(b.items)
           live == lists[b.list].live
           fields == lists[b.list].fields
<1>1. PICK q \in Batching :
        \E status \in {"inserted", "updated", "deleted", "not_found",
                       "invalid", "duplicate", "rejected"} :
          /\ b \in Batching /\ b.at = "write" /\ b.items # <<>>
          /\ b.list \in ListIds /\ item \in Item
          /\ status = Found(b, t, live)
          /\ rows' = [rows EXCEPT ![b.list] = WriteEntry(t, item, status)]
          /\ req' = [req EXCEPT ![r] = q]
          /\ q.at = "write" /\ q.op = b.op /\ q.list = b.list /\ q.defs = b.defs
  BY WritesOf
<1>2. PICK status \in {"inserted", "updated", "deleted", "not_found",
                       "invalid", "duplicate", "rejected"} :
          /\ b \in Batching /\ b.at = "write" /\ b.items # <<>>
          /\ b.list \in ListIds /\ item \in Item
          /\ status = Found(b, t, live)
          /\ rows' = [rows EXCEPT ![b.list] = WriteEntry(t, item, status)]
          /\ req' = [req EXCEPT ![r] = q]
          /\ q.at = "write" /\ q.op = b.op /\ q.list = b.list /\ q.defs = b.defs
  BY <1>1
<1>3. UNCHANGED <<lists, nextList, writer, campaigns, nextCampaign>>
  BY DEF BatchWrites, deskVars
<1>4. Sound(b, lists, nextList, campaigns)
  BY DEF IInv, RequestsSound
<1>5. /\ t \in SUBSET Rows /\ Tidy(t, fields) /\ b.op \in Writes /\ live \in BOOLEAN
      /\ ~live => t = {}
      /\ live => DOMAIN b.defs \subseteq DOMAIN fields
  <2>1. t \in SUBSET Rows /\ lists[b.list] \in Lists
    BY <1>2 DEF IInv, TypeOK
  <2>2. live \in BOOLEAN
    BY <2>1 DEF Lists
  <2>3. Tidy(t, fields)
    BY <1>2 DEF IInv, TablesTidy
  <2>4. ~live => t = {}
    BY <1>2 DEF IInv, Gone
  <2>5. live => DOMAIN b.defs \subseteq DOMAIN fields
    BY <1>2, <1>4 DEF Sound
  <2>6. b.op \in Writes
    BY <1>2 DEF Batching
  <2> QED
    BY <2>1, <2>2, <2>3, <2>4, <2>5, <2>6
<1>6. PICK after : after = WriteEntry(t, item, status)
  OBVIOUS
<1>7. after \in SUBSET Rows /\ Tidy(after, fields) /\ (~live => after = {})
  <2>1. status = Status(b.op, t, live, b.defs, item) \/ status = "not_found"
    BY <1>2 DEF Found
  <2>2. live => DOMAIN b.defs \subseteq DOMAIN fields
    BY <1>5
  <2>3. PICK T, x, L, F, op, D : /\ T = t /\ x = item /\ L = live /\ F = fields
                                 /\ op = b.op /\ D = b.defs
    OBVIOUS
  <2>4. T \in SUBSET Rows /\ x \in Item /\ op \in Writes
    BY <1>2, <1>5, <2>3
  <2>5. Tidy(T, F)
    BY <1>5, <2>3
  <2>6. status = Status(op, T, L, D, x) \/ status = "not_found"
    BY <2>1, <2>3
  <2>7. L \in BOOLEAN /\ (~L => T = {})
    BY <1>5, <2>3
  <2>8. L => DOMAIN D \subseteq DOMAIN F
    BY <2>2, <2>3
  <2>9. after = WriteEntry(T, x, status)
    BY <1>6, <2>3
  <2>10. after \in SUBSET Rows /\ Tidy(after, F) /\ (~L => after = {})
    BY <2>4, <2>5, <2>6, <2>7, <2>8, <2>9, WriteTidy
  <2>11. after \in SUBSET Rows /\ Tidy(after, fields)
    BY <2>3, <2>10
  <2>12. ~live => after = {}
    BY <2>3, <2>10
  <2> QED
    BY <2>11, <2>12
<1>8. rows' = [rows EXCEPT ![b.list] = after]
  BY <1>2, <1>6
<1>9. \A l \in ListIds : rows'[l] = IF l = b.list THEN after ELSE rows[l]
  BY <1>8 DEF IInv, TypeOK
<1>10. rows' \in [ListIds -> SUBSET Rows]
  BY <1>7, <1>8 DEF IInv, TypeOK
<1>11. Sound(q, lists', nextList', campaigns')
  BY <1>2, <1>3, <1>4 DEF Sound
<1>12. \A s \in Requests : Sound(req[s], lists', nextList', campaigns')
  BY <1>3 DEF IInv, RequestsSound
<1>13. req' \in [Requests -> Handled] /\ RequestsSound'
  <2>1. q \in Handled
    BY DEF Handled
  <2> QED
    BY <1>2, <1>11, <1>12, <2>1, OneMoves DEF IInv
<1>14. TypeOK'
  BY <1>3, <1>10, <1>13 DEF IInv, TypeOK
<1>15. TablesTidy'
  <2>1. \A l \in ListIds : Tidy(rows'[l], lists[l].fields)
    <3> TAKE l \in ListIds
    <3>1. CASE l = b.list
      BY <1>7, <1>9, <3>1
    <3>2. CASE l # b.list
      BY <1>9, <3>2 DEF IInv, TablesTidy
    <3> QED
      BY <3>1, <3>2
  <2> QED
    BY <1>3, <2>1 DEF TablesTidy
<1>16. Gone'
  <2>1. \A l \in ListIds : ~lists[l].live => rows'[l] = {}
    BY <1>7, <1>9 DEF IInv, Gone
  <2> QED
    BY <1>3, <2>1 DEF IInv, Gone
<1>17. ListsThere'
  BY <1>3 DEF IInv, ListsThere
<1> QED
  BY <1>13, <1>14, <1>15, <1>16, <1>17 DEF IInv

-----------------------------------------------------------------------------
(* The invariant and what follows from it *)

\* The entries a list starts with are numbered 1, 2, ... in their order.
LEMMA NumberedTidy ==
  ASSUME NEW book \in Books
  PROVE  /\ Numbered(book.entries) \in SUBSET Rows
         /\ Tidy(Numbered(book.entries), book.fields)
<1> DEFINE entries == book.entries
           table == Numbered(entries)
           n == Len(entries)
<1>1. /\ entries \in Seq(Entry) /\ n \in Nat /\ DOMAIN entries = 1 .. n
      /\ \A i, j \in 1 .. n : entries[i].email = entries[j].email => i = j
      /\ \A i \in 1 .. n : entries[i].filled \subseteq DOMAIN book.fields
      /\ \A i \in 1 .. n : entries[i] \in Entry
  BY BooksAssumption
<1>2. table = {RowOf(i, entries[i]) : i \in 1 .. n}
  BY <1>1 DEF Numbered
<1>3. \A i \in 1 .. n : /\ RowOf(i, entries[i]).id = i
                        /\ RowOf(i, entries[i]).email = entries[i].email
                        /\ RowOf(i, entries[i]).filled = entries[i].filled
                        /\ RowOf(i, entries[i]) \in Rows
  BY <1>1 DEF RowOf, Rows, Entry
<1> HIDE DEF table, entries, n
<1>4. table \in SUBSET Rows
  BY <1>2, <1>3
<1>5. Ranked(table, n)
  <2>1. {x.id : x \in table} = 1 .. n
    BY <1>2, <1>3
  <2>2. \A x, y \in table : x.id = y.id => x = y
    BY <1>2, <1>3
  <2> QED
    BY <2>1, <2>2 DEF Ranked
<1>6. Unique(table)
  BY <1>1, <1>2, <1>3 DEF Unique
<1>7. Fitted(table, book.fields)
  BY <1>1, <1>2, <1>3 DEF Fitted
<1> QED
  BY <1>1, <1>4, <1>5, <1>6, <1>7 DEF Tidy, table, entries

LEMMA InitInv ==
  ASSUME Init
  PROVE  IInv
<1>1. PICK book \in Books :
        /\ rows = [l \in ListIds |-> IF l = 1 THEN Numbered(book.entries) ELSE {}]
        /\ lists = [l \in ListIds |->
                      IF l = 1 THEN [live |-> TRUE, name |-> Nobody, fields |-> book.fields]
                      ELSE NoList]
  BY DEF Init, BookInit
<1>2. nextList = 2 /\ writer = Nobody /\ req = [r \in Requests |-> Idle] /\ nextCampaign = 2
  BY DEF Init, BookInit
<1>3. PICK uses \in Placeholders :
        campaigns = [c \in CampaignIds |->
                       IF c = 1 THEN [live |-> TRUE, list |-> 1, uses |-> uses] ELSE NoCampaign]
  BY DEF Init
<1>4. MaxLists \in Nat \ {0} /\ MaxCampaigns \in Nat \ {0}
  BY AddressBookAssumption, CampaignDeskAssumption
<1>5. Tidy({}, NoList.fields)
  <2>1. Ranked({}, 0)
    BY DEF Ranked
  <2> QED
    BY <2>1 DEF Tidy, Unique, Fitted
<1>6. /\ Numbered(book.entries) \in SUBSET Rows /\ Tidy(Numbered(book.entries), book.fields)
      /\ book.fields \in Fields
  BY NumberedTidy, BooksAssumption
<1>7. <<>> \in Fields
  <2>1. <<>> \in [{} -> Labels]
    OBVIOUS
  <2> QED
    BY <2>1 DEF Fields
<1>8. TypeOK
  <2>1. lists \in [ListIds -> Lists]
    BY <1>1, <1>6, <1>7 DEF Lists, NoList
  <2>2. rows \in [ListIds -> SUBSET Rows]
    BY <1>1, <1>6
  <2>3. req \in [Requests -> Handled]
    BY <1>2 DEF Handled, Arriving
  <2>4. campaigns \in [CampaignIds -> Campaigns]
    BY <1>3, <1>4 DEF Campaigns, NoCampaign
  <2> QED
    BY <1>2, <1>4, <2>1, <2>2, <2>3, <2>4 DEF TypeOK
<1>9. TablesTidy
  <2> SUFFICES ASSUME NEW l \in ListIds
               PROVE  Tidy(rows[l], lists[l].fields)
    BY DEF TablesTidy
  <2>1. CASE l = 1
    BY <1>1, <1>6, <2>1
  <2>2. CASE l # 1
    BY <1>1, <1>5, <2>2
  <2> QED
    BY <2>1, <2>2
<1>10. Gone
  <2> SUFFICES ASSUME NEW l \in ListIds
               PROVE  /\ l >= nextList => ~lists[l].live
                      /\ ~lists[l].live => rows[l] = {}
    BY DEF Gone
  <2>1. CASE l = 1
    BY <1>1, <1>2, <2>1
  <2>2. CASE l # 1
    BY <1>1, <2>2 DEF NoList
  <2> QED
    BY <2>1, <2>2
<1>11. RequestsSound
  BY <1>2 DEF RequestsSound, Sound, Idle
<1>12. ListsThere
  <2> SUFFICES ASSUME NEW c \in CampaignIds, campaigns[c].live
               PROVE  campaigns[c].list \in ListIds /\ lists[campaigns[c].list].live
    BY DEF ListsThere
  <2>1. c = 1
    BY <1>3 DEF NoCampaign
  <2>2. campaigns[c].list = 1 /\ 1 \in ListIds
    BY <1>3, <1>4, <2>1 DEF ListIds
  <2>3. lists[1].live
    BY <1>1, <2>2
  <2> QED
    BY <2>2, <2>3
<1> QED
  BY <1>8, <1>9, <1>10, <1>11, <1>12 DEF IInv

LEMMA NextInv ==
  ASSUME IInv, [Next]_vars
  PROVE  IInv'
<1>1. CASE UNCHANGED vars
  <2>1. UNCHANGED <<lists, rows, nextList, writer, req, campaigns, nextCampaign>>
    BY <1>1 DEF vars, bookVars, deskVars
  <2> QED
    BY <2>1 DEF IInv, TypeOK, TablesTidy, Gone, RequestsSound, ListsThere
<1>2. ASSUME NEW r \in Requests, BookStep(r), UNCHANGED deskVars
      PROVE  IInv'
  BY <1>2, SaveListInv, BatchStartsInv, BatchMergesInv, BatchWritesInv, BatchStopsInv,
     BatchEndsInv DEF BookStep
<1>3. ASSUME NEW r \in Requests, DeleteList(r, Referenced), UNCHANGED deskVars
      PROVE  IInv'
  BY <1>3, DeleteListInv
<1>4. ASSUME NEW r \in Requests,
             \/ CampaignChecks(r) \/ CampaignStores(r) \/ DeleteCampaign(r)
             \/ Preflight(r) \/ QueueReads(r) \/ QueueCaptures(r) \/ QueueEnqueues(r)
             \/ Starts(r) \/ Settles(r)
      PROVE  IInv'
  BY <1>4, CampaignChecksInv, CampaignStoresInv, DeleteCampaignInv, PreflightInv,
     QueueReadsInv, QueueCapturesInv, QueueEnqueuesInv, StartsInv, SettlesInv
<1> QED
  BY <1>1, <1>2, <1>3, <1>4 DEF Next

LEMMA Invariance == Spec => []IInv
<1>1. Init => IInv
  BY InitInv
<1>2. IInv /\ [Next]_vars => IInv'
  BY NextInv
<1> QED
  BY <1>1, <1>2, PTL DEF Spec

\* Requests, lists and campaigns keep their types, for any number of requests
\* and whatever they bring.
THEOREM DeskTypeCorrect == Spec => []TypeOK
<1>1. IInv => TypeOK
  BY DEF IInv
<1> QED
  BY <1>1, Invariance, PTL

\* The ids of a list are 1, 2, ... after every write of every batch, no address
\* occurs twice, and no entry holds a field its list does not define, although
\* WriteAddressEntries reads the definitions once and SaveAddressList and
\* DeleteAddressList do not take its mutex.
THEOREM ListsWellFormed == Spec => []ListWellFormed
<1>1. IInv => ListWellFormed
  <2> SUFFICES ASSUME IInv, NEW l \in ListIds
               PROVE  /\ {x.id : x \in rows[l]} = 1 .. Cardinality(rows[l])
                      /\ \A x, y \in rows[l] : x.email = y.email => x = y
                      /\ \A x \in rows[l] : x.filled \subseteq DOMAIN lists[l].fields
    BY DEF ListWellFormed
  <2>1. Tidy(rows[l], lists[l].fields)
    BY DEF IInv, TablesTidy
  <2>2. PICK n \in Nat : Ranked(rows[l], n)
    BY <2>1 DEF Tidy
  <2>3. Cardinality(rows[l]) = n
    BY <2>2, RankedCount
  <2>4. {x.id : x \in rows[l]} = 1 .. Cardinality(rows[l])
    BY <2>2, <2>3 DEF Ranked
  <2> QED
    BY <2>1, <2>4 DEF Tidy, Unique, Fitted
<1> QED
  BY <1>1, Invariance, PTL

\* A saved campaign's list exists, and so does the campaign of every task that
\* is not over: DeleteAddressList and DeleteCampaign refuse in the transaction
\* that would break the reference, whatever was checked before it.
THEOREM ReferencesAreHeld == Spec => []ReferencesHold
<1>1. IInv => ReferencesHold
  <2> SUFFICES ASSUME IInv
               PROVE  ReferencesHold
    OBVIOUS
  <2>1. \A c \in CampaignIds : campaigns[c].live => lists[campaigns[c].list].live
    BY DEF IInv, ListsThere
  <2>2. \A r \in Requests : Active(r) => campaigns[req[r].id].live
    BY DEF IInv, RequestsSound, Sound, Active
  <2> QED
    BY <2>1, <2>2 DEF ReferencesHold
<1> QED
  BY <1>1, Invariance, PTL

\* No run starts with a placeholder left unfilled that the operator has not
\* confirmed: what ExecuteCampaignTask compares is the snapshot, which no later
\* edit reaches.
THEOREM NothingIsUnconfirmed == Spec => []NothingUnconfirmed
<1>1. IInv => NothingUnconfirmed
  <2> SUFFICES ASSUME IInv, NEW r \in Requests, req[r].op = "queue", At(r, "running"),
                      NEW k \in req[r].uses,
                      ~\E i \in DOMAIN req[r].entries : k \in req[r].entries[i].filled
               PROVE  \E reason \in Reasons : <<k, reason>> \in req[r].confirmed
    BY DEF NothingUnconfirmed, Reasons
  <2> DEFINE q == req[r]
  <2>1. Unresolved(q.uses, q.fields, q.entries) = q.confirmed
    BY DEF IInv, RequestsSound, Sound, ConfirmationMatches, At
  <2>2. CASE k \notin DOMAIN q.fields
    <3>1. <<k, "missing_field">> \in Unresolved(q.uses, q.fields, q.entries)
      BY <2>2 DEF Unresolved
    <3> QED
      BY <2>1, <3>1 DEF Reasons
  <2>3. CASE k \in DOMAIN q.fields
    <3>1. NeverPopulated(k, q.entries)
      BY DEF NeverPopulated
    <3>2. <<k, "never_populated">> \in Unresolved(q.uses, q.fields, q.entries)
      BY <2>3, <3>1 DEF Unresolved
    <3> QED
      BY <2>1, <3>2 DEF Reasons
  <2> QED
    BY <2>2, <2>3
<1> QED
  BY <1>1, Invariance, PTL

-----------------------------------------------------------------------------
(* Numbers in order *)

LEMMA AscendingOf ==
  ASSUME NEW S \in SUBSET Nat, IsFiniteSet(S)
  PROVE  /\ Cardinality(S) \in Nat /\ DOMAIN Ascending(S) = 1 .. Cardinality(S)
         /\ \A n \in 1 .. Cardinality(S) : Ascending(S)[n] \in S
         /\ \A n \in 1 .. Cardinality(S) : \A i \in S :
              Ascending(S)[n] = i <=> Cardinality({j \in S : j < i}) = n - 1
<1> DEFINE before == [i \in S |-> {j \in S : j < i}]
           nth(n) == CHOOSE i \in S : Cardinality({j \in S : j < i}) = n - 1
<1>1. /\ before \in [S -> SUBSET S]
      /\ \A i \in S : i \notin before[i]
      /\ \A i \in S : \A j \in before[i] : before[j] \subseteq before[i]
      /\ \A i, j \in S : i = j \/ i \in before[j] \/ j \in before[i]
  <2>1. before \in [S -> SUBSET S]
    OBVIOUS
  <2>2. \A i, j \in S : j \in before[i] <=> j < i
    OBVIOUS
  <2> HIDE DEF before
  <2>3. \A i \in S : i \notin before[i]
    BY <2>2
  <2>4. \A i, j \in S : i = j \/ i \in before[j] \/ j \in before[i]
    BY <2>2
  <2>5. \A i, j, k \in S : j \in before[i] /\ k \in before[j] => k \in before[i]
    BY <2>2
  <2>6. \A i \in S : \A j \in before[i] : before[j] \subseteq before[i]
    BY <2>1, <2>5
  <2> QED
    BY <2>1, <2>3, <2>4, <2>6
<1>2. /\ \A n \in 1 .. Cardinality(S) : \E i \in S : Cardinality(before[i]) = n - 1
      /\ \A i, j \in S : Cardinality(before[i]) = Cardinality(before[j]) => i = j
  <2> HIDE DEF before
  <2>1. \A n \in 1 .. Cardinality(S) : \E i \in S : Cardinality(before[i]) = n - 1
    BY <1>1, Ranking
  <2>2. \A i, j \in S : Cardinality(before[i]) = Cardinality(before[j]) => i = j
    BY <1>1, Ranking
  <2> QED
    BY <2>1, <2>2
<1>3. \A i \in S : before[i] = {j \in S : j < i}
  OBVIOUS
<1>4. \A n \in 1 .. Cardinality(S) : nth(n) \in S /\ Cardinality(before[nth(n)]) = n - 1
  <2> TAKE n \in 1 .. Cardinality(S)
  <2>1. \E i \in S : Cardinality({j \in S : j < i}) = n - 1
    BY <1>2, <1>3
  <2> QED
    BY <1>3, <2>1
<1>5. Ascending(S) = [n \in 1 .. Cardinality(S) |-> nth(n)]
  BY DEF Ascending
<1> HIDE DEF nth, before
<1>6. \A n \in 1 .. Cardinality(S) : \A i \in S :
        nth(n) = i <=> Cardinality({j \in S : j < i}) = n - 1
  <2> SUFFICES ASSUME NEW n \in 1 .. Cardinality(S), NEW i \in S
               PROVE  nth(n) = i <=> Cardinality(before[i]) = n - 1
    BY <1>3
  <2> QED
    BY <1>2, <1>4
<1>7. Cardinality(S) \in Nat
  BY FS_CardinalityType
<1> QED
  BY <1>4, <1>5, <1>6, <1>7

\* The numbers up to m are in order.
LEMMA AscendingInterval ==
  ASSUME NEW m \in Nat
  PROVE  /\ IsFiniteSet(1 .. m) /\ Cardinality(1 .. m) = m
         /\ \A n \in 1 .. m : Ascending(1 .. m)[n] = n
<1>1. IsFiniteSet(1 .. m) /\ Cardinality(1 .. m) = m /\ 1 .. m \in SUBSET Nat
  BY FS_Interval
<1>2. \A n \in 1 .. m : Cardinality({j \in 1 .. m : j < n}) = n - 1
  <2> TAKE n \in 1 .. m
  <2>1. {j \in 1 .. m : j < n} = 1 .. n - 1
    OBVIOUS
  <2>2. Cardinality(1 .. n - 1) = n - 1
    BY FS_Interval
  <2> QED
    BY <2>1, <2>2
<1>3. \A n \in 1 .. m : Ascending(1 .. m)[n] = n
  <2> TAKE n \in 1 .. m
  <2>1. n \in 1 .. Cardinality(1 .. m)
    BY <1>1
  <2>2. Cardinality({j \in 1 .. m : j < n}) = n - 1
    BY <1>2
  <2> QED
    BY <1>1, <2>1, <2>2, AscendingOf
<1> QED
  BY <1>1, <1>3

\* A number above all others comes last.
LEMMA AscendingAdd ==
  ASSUME NEW S \in SUBSET Nat, IsFiniteSet(S), NEW k \in Nat, \A i \in S : i < k
  PROVE  /\ IsFiniteSet(S \cup {k}) /\ Cardinality(S \cup {k}) = Cardinality(S) + 1
         /\ Ascending(S \cup {k})[Cardinality(S) + 1] = k
         /\ \A n \in 1 .. Cardinality(S) : Ascending(S \cup {k})[n] = Ascending(S)[n]
<1> DEFINE T == S \cup {k}
           c == Cardinality(S)
<1>1. c \in Nat /\ k \notin S /\ T \in SUBSET Nat
  BY FS_CardinalityType
<1>2. IsFiniteSet(T) /\ Cardinality(T) = c + 1
  BY <1>1, FS_AddElement
<1>3. {j \in T : j < k} = S
  <2>1. \A j : j \in S => j \in T /\ j < k
    OBVIOUS
  <2>2. ~(k < k)
    OBVIOUS
  <2>3. \A j : j \in T /\ j < k => j \in S
    BY <2>2
  <2> HIDE DEF T
  <2> QED
    BY <2>1, <2>3
<1>4. \A i \in S : {j \in T : j < i} = {j \in S : j < i}
  OBVIOUS
<1>5. Ascending(T)[c + 1] = k
  <2>1. Cardinality({j \in T : j < k}) = (c + 1) - 1
    <3>1. Cardinality({j \in T : j < k}) = c
      BY <1>3
    <3> HIDE DEF T, c
    <3> QED
      BY <1>1, <3>1
  <2>2. c + 1 \in 1 .. Cardinality(T) /\ k \in T
    BY <1>1, <1>2
  <2> HIDE DEF T, c
  <2> QED
    BY <1>1, <1>2, <2>1, <2>2, AscendingOf
<1>6. \A n \in 1 .. c : Ascending(T)[n] = Ascending(S)[n]
  <2> TAKE n \in 1 .. c
  <2>1. PICK i \in S : i = Ascending(S)[n]
    BY AscendingOf
  <2>2. Cardinality({j \in S : j < i}) = n - 1
    BY <2>1, AscendingOf
  <2>3. Cardinality({j \in T : j < i}) = n - 1
    BY <1>4, <2>2
  <2>4. n \in 1 .. Cardinality(T) /\ i \in T
    BY <1>1, <1>2
  <2>5. Ascending(T)[n] = i
    <3> HIDE DEF T, c
    <3> QED
      BY <1>1, <1>2, <2>3, <2>4, AscendingOf
  <2> QED
    BY <2>1, <2>5
<1> QED
  BY <1>2, <1>5, <1>6

\* Without d, which was the d-th, those above it move down by one.
LEMMA AscendingRemove ==
  ASSUME NEW S \in SUBSET Nat, IsFiniteSet(S), 0 \notin S, NEW d \in S, 1 .. d \subseteq S
  PROVE  /\ IsFiniteSet(S \ {d}) /\ Cardinality(S \ {d}) = Cardinality(S) - 1
         /\ \A n \in 1 .. Cardinality(S) - 1 :
              Ascending(S \ {d})[n] = Ascending(S)[IF n < d THEN n ELSE n + 1]
<1> DEFINE T == S \ {d}
           c == Cardinality(S)
<1>1. c \in Nat /\ T \in SUBSET Nat /\ d \in Nat /\ d > 0
  BY FS_CardinalityType
<1>2. IsFiniteSet(T) /\ Cardinality(T) = c - 1
  BY <1>1, FS_RemoveElement
<1>3. \A n \in 1 .. c : /\ Ascending(S)[n] \in S
                        /\ Cardinality({j \in S : j < Ascending(S)[n]}) = n - 1
  BY AscendingOf
<1>4. \A n \in 1 .. c : /\ n <= d => Ascending(S)[n] = n
                        /\ n > d => Ascending(S)[n] > d
  <2> TAKE n \in 1 .. c
  <2>1. \A m \in 1 .. d : Cardinality({j \in S : j < m}) = m - 1
    <3> TAKE m \in 1 .. d
    <3>1. {j \in S : j < m} = 1 .. m - 1
      <4>1. m \in Nat
        BY <1>1
      <4>2. \A j : j \in S /\ j < m => j \in 1 .. m - 1
        BY <4>1
      <4>3. \A j : j \in 1 .. m - 1 => j \in 1 .. d /\ j < m
        BY <1>1
      <4>4. \A j : j \in 1 .. m - 1 => j \in S /\ j < m
        BY <4>3
      <4> QED
        BY <4>2, <4>4
    <3>2. Cardinality(1 .. m - 1) = m - 1
      BY <1>1, FS_Interval
    <3> QED
      BY <3>1, <3>2
  <2>2. CASE n <= d
    <3>1. n \in S /\ Cardinality({j \in S : j < n}) = n - 1
      BY <1>1, <2>1, <2>2
    <3>2. Ascending(S)[n] = n
      BY <3>1, AscendingOf
    <3> QED
      BY <1>1, <2>2, <3>2
  <2>3. CASE n > d
    <3>1. PICK i \in S : i = Ascending(S)[n]
      BY <1>3
    <3>2. Cardinality({j \in S : j < i}) = n - 1
      BY <1>3, <3>1
    <3>3. ~(i <= d)
      <4> SUFFICES ASSUME i <= d
                   PROVE  FALSE
        OBVIOUS
      <4>1. i \in 1 .. d
        BY <1>1
      <4> QED
        BY <1>1, <2>1, <2>3, <3>2, <4>1
    <3> QED
      BY <1>1, <2>3, <3>1, <3>3
  <2> QED
    BY <1>1, <2>2, <2>3
<1>5. \A n \in 1 .. c - 1 : Ascending(T)[n] = Ascending(S)[IF n < d THEN n ELSE n + 1]
  <2> TAKE n \in 1 .. c - 1
  <2>1. CASE n < d
    <3>1. n \in T /\ n \in 1 .. c /\ Ascending(S)[n] = n
      BY <1>1, <1>4, <2>1
    <3>2. {j \in T : j < n} = {j \in S : j < n}
      BY <2>1
    <3>3. Cardinality({j \in T : j < n}) = n - 1
      BY <1>3, <3>1, <3>2
    <3>4. Ascending(T)[n] = n
      <4> HIDE DEF T, c
      <4> QED
        BY <1>1, <1>2, <3>1, <3>3, AscendingOf
    <3> QED
      BY <2>1, <3>1, <3>4
  <2>2. CASE n >= d
    <3>1. n + 1 \in 1 .. c /\ n + 1 > d
      BY <1>1, <2>2
    <3>2. PICK i \in S : i = Ascending(S)[n + 1]
      BY <1>3, <3>1
    <3>3. i > d /\ Cardinality({j \in S : j < i}) = n
      <4>1. Cardinality({j \in S : j < i}) = (n + 1) - 1
        BY <1>3, <3>1, <3>2
      <4> QED
        BY <1>4, <3>1, <3>2, <4>1
    <3>4. {j \in T : j < i} = {j \in S : j < i} \ {d}
      OBVIOUS
    <3>5. IsFiniteSet({j \in S : j < i}) /\ d \in {j \in S : j < i}
      BY <3>3, FS_Subset
    <3>6. Cardinality({j \in T : j < i}) = n - 1
      <4> DEFINE B == {j \in S : j < i}
      <4>1. Cardinality(B \ {d}) = Cardinality(B) - 1
        <5> HIDE DEF B
        <5> QED
          BY <3>5, FS_RemoveElement DEF B
      <4> QED
        BY <3>3, <3>4, <4>1
    <3>7. i \in T
      BY <1>1, <3>3
    <3>8. Ascending(T)[n] = i
      <4>1. n \in 1 .. Cardinality(T)
        BY <1>2
      <4> HIDE DEF T, c
      <4> QED
        BY <1>1, <1>2, <3>6, <3>7, <4>1, AscendingOf
    <3> QED
      BY <1>1, <2>2, <3>2, <3>8
  <2> QED
    BY <1>1, <2>1, <2>2
<1> QED
  BY <1>2, <1>5

-----------------------------------------------------------------------------
(* What is listed after a write *)

LEMMA ListingCompact ==
  ASSUME NEW table \in SUBSET Rows, NEW n \in Nat, Ranked(table, n), NEW gone \in table
  PROVE  /\ Len(Listing(table)) = n /\ gone.id \in 1 .. n
         /\ Listing(Compact(table, gone.id)) \in Seq(Entry)
         /\ Len(Listing(Compact(table, gone.id))) = n - 1
         /\ \A i \in 1 .. n - 1 : Listing(Compact(table, gone.id))[i] =
              Listing(table)[IF i < gone.id THEN i ELSE i + 1]
<1> DEFINE d == gone.id
<1>1. PICK after : after = Compact(table, d)
  OBVIOUS
<1>2. /\ after \in SUBSET Rows /\ d \in 1 .. n /\ Ranked(after, n - 1)
      /\ \A z \in after : \E x \in table :
           /\ z.id = IF x.id > d THEN x.id - 1 ELSE x.id
           /\ x.id # d /\ z.email = x.email /\ z.filled = x.filled
  BY <1>1, CompactRanked
<1>3. n - 1 \in Nat
  BY <1>2
<1>4. /\ Len(Listing(table)) = n
      /\ \A x \in table : Listing(table)[x.id] = [email |-> x.email, filled |-> x.filled]
  BY ListingOf
<1>5. /\ Listing(after) \in Seq(Entry) /\ Len(Listing(after)) = n - 1
      /\ \A z \in after : Listing(after)[z.id] = [email |-> z.email, filled |-> z.filled]
  BY <1>2, <1>3, ListingOf
<1>6. ASSUME NEW i \in 1 .. n - 1
      PROVE  Listing(after)[i] = Listing(table)[IF i < d THEN i ELSE i + 1]
  <2>1. PICK z \in after : z.id = i
    BY <1>2 DEF Ranked
  <2>2. PICK x \in table : /\ z.id = IF x.id > d THEN x.id - 1 ELSE x.id
                           /\ x.id # d /\ z.email = x.email /\ z.filled = x.filled
    BY <1>2
  <2>3. x.id \in 1 .. n
    BY DEF Ranked
  <2>4. x.id = IF i < d THEN i ELSE i + 1
    BY <1>2, <2>1, <2>2, <2>3
  <2>5. Listing(after)[i] = [email |-> x.email, filled |-> x.filled]
    BY <1>5, <2>1, <2>2
  <2> QED
    BY <1>4, <2>4, <2>5
<1> QED
  BY <1>1, <1>2, <1>4, <1>5, <1>6

LEMMA ListingInsert ==
  ASSUME NEW table \in SUBSET Rows, NEW n \in Nat, Ranked(table, n), NEW item \in Item
  PROVE  LET after == table \cup {RowOf(NextId(table), item)}
         IN /\ Len(Listing(table)) = n
            /\ Listing(after) \in Seq(Entry) /\ Len(Listing(after)) = n + 1
            /\ \A i \in 1 .. n : Listing(after)[i] = Listing(table)[i]
            /\ Listing(after)[n + 1] = [email |-> item.email, filled |-> item.filled]
<1> DEFINE new == RowOf(NextId(table), item)
<1>1. PICK after : after = table \cup {new}
  OBVIOUS
<1>2. /\ new.id = n + 1 /\ new.email = item.email /\ new.filled = item.filled
      /\ new \in Rows
  BY NextIdOf DEF RowOf, Rows, Item
<1> HIDE DEF new
<1>3. after \in SUBSET Rows /\ Ranked(after, n + 1) /\ new \in after
  <2>1. {x.id : x \in after} = 1 .. n + 1
    BY <1>1, <1>2 DEF Ranked
  <2>2. \A x \in table : x.id # n + 1
    BY DEF Ranked
  <2>3. \A x, y \in after : x.id = y.id => x = y
    BY <1>1, <1>2, <2>2 DEF Ranked
  <2> QED
    BY <1>1, <1>2, <2>1, <2>3 DEF Ranked
<1>4. /\ Len(Listing(table)) = n
      /\ \A x \in table : Listing(table)[x.id] = [email |-> x.email, filled |-> x.filled]
  BY ListingOf
<1>5. /\ Listing(after) \in Seq(Entry) /\ Len(Listing(after)) = n + 1
      /\ \A z \in after : Listing(after)[z.id] = [email |-> z.email, filled |-> z.filled]
  BY <1>3, ListingOf
<1>6. ASSUME NEW i \in 1 .. n
      PROVE  Listing(after)[i] = Listing(table)[i]
  <2>1. PICK x \in table : x.id = i
    BY DEF Ranked
  <2> QED
    BY <1>1, <1>4, <1>5, <2>1
<1>7. Listing(after)[n + 1] = [email |-> item.email, filled |-> item.filled]
  BY <1>2, <1>3, <1>5
<1> QED
  BY <1>1, <1>4, <1>5, <1>6, <1>7 DEF new

\* The rows after an update of the row of an item.
Rewritten(table, item) == {x \in table : x.id # item.id} \cup {RowOf(item.id, item)}

LEMMA ListingUpdate ==
  ASSUME NEW table \in SUBSET Rows, NEW n \in Nat, Ranked(table, n), NEW item \in Item,
         NEW old \in table, old.id = item.id
  PROVE  LET after == Rewritten(table, item)
         IN /\ Len(Listing(table)) = n /\ item.id \in 1 .. n
            /\ Listing(after) \in Seq(Entry) /\ Len(Listing(after)) = n
            /\ \A i \in 1 .. n : Listing(after)[i] =
                 IF i = item.id THEN [email |-> item.email, filled |-> item.filled]
                 ELSE Listing(table)[i]
<1> DEFINE new == RowOf(item.id, item)
<1>1. PICK after : after = Rewritten(table, item) /\ after = {x \in table : x.id # item.id} \cup {new}
  BY DEF Rewritten
<1>2. /\ new.id = item.id /\ new.email = item.email /\ new.filled = item.filled
      /\ new \in Rows
  BY DEF RowOf, Rows, Item
<1> HIDE DEF new
<1>3. after \in SUBSET Rows /\ Ranked(after, n) /\ new \in after /\ item.id \in 1 .. n
  <2>1. \A i : i \in {x.id : x \in after} <=> i \in {x.id : x \in table}
    BY <1>1, <1>2
  <2>2. \A x, y \in after : x.id = y.id => x = y
    BY <1>1, <1>2 DEF Ranked
  <2>3. item.id \in 1 .. n
    BY DEF Ranked
  <2> QED
    BY <1>1, <1>2, <2>1, <2>2, <2>3 DEF Ranked
<1>4. /\ Len(Listing(table)) = n
      /\ \A x \in table : Listing(table)[x.id] = [email |-> x.email, filled |-> x.filled]
  BY ListingOf
<1>5. /\ Listing(after) \in Seq(Entry) /\ Len(Listing(after)) = n
      /\ \A z \in after : Listing(after)[z.id] = [email |-> z.email, filled |-> z.filled]
  BY <1>3, ListingOf
<1>6. ASSUME NEW i \in 1 .. n, i # item.id
      PROVE  Listing(after)[i] = Listing(table)[i]
  <2>1. PICK x \in table : x.id = i
    BY DEF Ranked
  <2> QED
    BY <1>1, <1>4, <1>5, <1>6, <2>1
<1>7. Listing(after)[item.id] = [email |-> item.email, filled |-> item.filled]
  BY <1>2, <1>3, <1>5
<1>8. \A i \in 1 .. n : Listing(after)[i] =
        IF i = item.id THEN [email |-> item.email, filled |-> item.filled]
        ELSE Listing(table)[i]
  BY <1>6, <1>7
<1> QED
  BY <1>1, <1>3, <1>4, <1>5, <1>8 DEF new

-----------------------------------------------------------------------------
(* What a batch accounts for *)

LEMMA MaxOf ==
  ASSUME NEW S \in SUBSET Nat, IsFiniteSet(S), S # {}
  PROVE  Max(S) \in S /\ \A y \in S : y <= Max(S)
<1> DEFINE c == Cardinality(S)
<1>1. c \in Nat /\ c # 0
  BY FS_CardinalityType, FS_EmptySet
<1>2. PICK x \in S : Cardinality({j \in S : j < x}) = c - 1
  <2>1. c \in 1 .. c
    BY <1>1
  <2>2. Ascending(S)[c] \in S
    BY <2>1, AscendingOf
  <2>3. Cardinality({j \in S : j < Ascending(S)[c]}) = c - 1
    BY <2>1, <2>2, AscendingOf
  <2> QED
    BY <2>2, <2>3
<1>3. {j \in S : j < x} = S \ {x}
  <2>1. IsFiniteSet(S \ {x}) /\ Cardinality(S \ {x}) = c - 1
    BY FS_RemoveElement
  <2>2. {j \in S : j < x} \in SUBSET (S \ {x})
    OBVIOUS
  <2> QED
    BY <1>2, <2>1, <2>2, FS_Subset
<1>4. \A y \in S : x >= y
  BY <1>3
<1>5. \E m \in S : \A y \in S : m >= y
  BY <1>4
<1> QED
  BY <1>5 DEF Max

Updates(q, i) == {k \in With(q, "updated") : q.done[k].item.id = i}
Kept(q, i) == IF Updates(q, i) = {} THEN q.before[i] ELSE Wanted(q, Max(Updates(q, i)))
Left(q) == DOMAIN q.before \ {q.done[k].item.id : k \in With(q, "deleted")}

\* Two sequences that agree are the same.
LEMMA SameSeq ==
  ASSUME NEW S, NEW s \in Seq(S), NEW t \in Seq(S), Len(s) = Len(t),
         \A i \in 1 .. Len(s) : s[i] = t[i]
  PROVE  s = t
OBVIOUS

LEMMA Joined ==
  ASSUME NEW S, NEW s \in Seq(S), NEW t \in Seq(S)
  PROVE  /\ s \o t \in Seq(S) /\ Len(s \o t) = Len(s) + Len(t)
         /\ \A i \in 1 .. Len(s) : (s \o t)[i] = s[i]
         /\ \A i \in 1 .. Len(t) : (s \o t)[Len(s) + i] = t[i]
<1>1. s \o t \in Seq(S) /\ Len(s \o t) = Len(s) + Len(t)
  OBVIOUS
<1>2. \A i \in 1 .. Len(s) : (s \o t)[i] = s[i]
  OBVIOUS
<1>3. \A i \in 1 .. Len(t) : (s \o t)[Len(s) + i] = t[i]
  OBVIOUS
<1> QED
  BY <1>1, <1>2, <1>3

LEMMA OutcomesOf ==
  ASSUME NEW q \in Batching
  PROVE  /\ \A status : /\ With(q, status) \in SUBSET Nat /\ IsFiniteSet(With(q, status))
                        /\ \A k \in With(q, status) : k \in 1 .. Len(q.done)
         /\ \A k \in 1 .. Len(q.done) : q.done[k] \in Outcomes /\ Wanted(q, k) \in Entry
         /\ \A i \in 1 .. Len(q.before) : q.before[i] \in Entry
         /\ q.before \in Seq(Entry) /\ q.done \in Seq(Outcomes)
<1>1. q.before \in Seq(Entry) /\ q.done \in Seq(Outcomes)
  BY DEF Batching
<1>2. \A k \in 1 .. Len(q.done) : q.done[k] \in Outcomes
  BY <1>1
<1>3. \A k \in 1 .. Len(q.done) : Wanted(q, k) \in Entry
  BY <1>2 DEF Wanted, Entry, Outcomes, Item
<1>4. ASSUME NEW status
      PROVE  /\ With(q, status) \in SUBSET Nat /\ IsFiniteSet(With(q, status))
             /\ \A k \in With(q, status) : k \in 1 .. Len(q.done)
  <2>1. With(q, status) \in SUBSET (1 .. Len(q.done)) /\ Len(q.done) \in Nat
    BY <1>1 DEF With
  <2>2. IsFiniteSet(1 .. Len(q.done))
    BY <2>1, FS_Interval
  <2>3. IsFiniteSet(With(q, status))
    BY <2>1, <2>2, FS_Subset
  <2> QED
    BY <2>1, <2>3
<1>5. \A i \in 1 .. Len(q.before) : q.before[i] \in Entry
  BY <1>1
<1> QED
  BY <1>1, <1>2, <1>3, <1>4, <1>5

LEMMA KeptTyped ==
  ASSUME NEW q \in Batching, NEW i \in 1 .. Len(q.before)
  PROVE  Kept(q, i) \in Entry
<1>1. CASE Updates(q, i) = {}
  BY <1>1, OutcomesOf DEF Kept
<1>2. CASE Updates(q, i) # {}
  <2>1. Updates(q, i) \in SUBSET With(q, "updated")
    BY DEF Updates
  <2>2. IsFiniteSet(Updates(q, i)) /\ Updates(q, i) \in SUBSET Nat
    BY <2>1, OutcomesOf, FS_Subset
  <2>3. Max(Updates(q, i)) \in With(q, "updated")
    BY <1>2, <2>1, <2>2, MaxOf
  <2>4. Wanted(q, Max(Updates(q, i))) \in Entry
    BY <2>3, OutcomesOf
  <2> QED
    BY <1>2, <2>4 DEF Kept
<1> QED
  BY <1>1, <1>2

\* First what is left of the entries there were, then the new ones.
LEMMA AccountedOf ==
  ASSUME NEW q \in Batching
  PROVE  LET left == Left(q)
             new == With(q, "inserted")
         IN /\ left \in SUBSET Nat /\ IsFiniteSet(left) /\ IsFiniteSet(new)
            /\ Cardinality(left) \in Nat /\ Cardinality(new) \in Nat
            /\ Accounted(q) \in Seq(Entry)
            /\ Len(Accounted(q)) = Cardinality(left) + Cardinality(new)
            /\ \A n \in 1 .. Cardinality(left) : Accounted(q)[n] = Kept(q, Ascending(left)[n])
            /\ \A n \in 1 .. Cardinality(new) :
                 Accounted(q)[Cardinality(left) + n] = Wanted(q, Ascending(new)[n])
<1> DEFINE left == Left(q)
           new == With(q, "inserted")
           c == Cardinality(left)
           d == Cardinality(new)
           first == [n \in 1 .. c |-> Kept(q, Ascending(left)[n])]
           second == [n \in 1 .. d |-> Wanted(q, Ascending(new)[n])]
<1>1. left \in SUBSET (1 .. Len(q.before)) /\ Len(q.before) \in Nat
  BY OutcomesOf DEF Left
<1>2. left \in SUBSET Nat /\ IsFiniteSet(left)
  <2>1. IsFiniteSet(1 .. Len(q.before))
    BY <1>1, FS_Interval
  <2> QED
    BY <1>1, <2>1, FS_Subset
<1>3. new \in SUBSET Nat /\ IsFiniteSet(new) /\ \A k \in new : k \in 1 .. Len(q.done)
  BY OutcomesOf
<1> HIDE DEF left, new
<1>4. /\ c \in Nat /\ DOMAIN Ascending(left) = 1 .. c
      /\ \A n \in 1 .. c : Ascending(left)[n] \in left
  BY <1>2, AscendingOf
<1>5. /\ d \in Nat /\ DOMAIN Ascending(new) = 1 .. d
      /\ \A n \in 1 .. d : Ascending(new)[n] \in new
  BY <1>3, AscendingOf
<1>6. first \in Seq(Entry) /\ Len(first) = c
  <2>1. \A n \in 1 .. c : Kept(q, Ascending(left)[n]) \in Entry
    BY <1>1, <1>4, KeptTyped
  <2> QED
    BY <1>4, <2>1
<1>7. second \in Seq(Entry) /\ Len(second) = d
  <2>1. \A n \in 1 .. d : Wanted(q, Ascending(new)[n]) \in Entry
    BY <1>3, <1>5, OutcomesOf
  <2> QED
    BY <1>5, <2>1
<1>8. Accounted(q) = first \o second
  BY <1>4, <1>5 DEF Accounted, Kept, Updates, Left, left, new
<1>9. /\ \A n \in 1 .. c : first[n] = Kept(q, Ascending(left)[n])
      /\ \A n \in 1 .. d : second[n] = Wanted(q, Ascending(new)[n])
  OBVIOUS
<1> HIDE DEF first, second, c, d
<1>10. /\ Accounted(q) \in Seq(Entry) /\ Len(Accounted(q)) = c + d
       /\ \A n \in 1 .. c : Accounted(q)[n] = first[n]
       /\ \A n \in 1 .. d : Accounted(q)[c + n] = second[n]
  <2>1. /\ first \o second \in Seq(Entry) /\ Len(first \o second) = Len(first) + Len(second)
        /\ \A n \in 1 .. Len(first) : (first \o second)[n] = first[n]
        /\ \A n \in 1 .. Len(second) : (first \o second)[Len(first) + n] = second[n]
    <3>1. PICK f \in Seq(Entry) : f = first
      BY <1>6
    <3>2. PICK g \in Seq(Entry) : g = second
      BY <1>7
    <3>3. f \o g \in Seq(Entry)
      BY Joined
    <3>4. Len(f \o g) = Len(f) + Len(g)
      BY Joined
    <3>5. \A n \in 1 .. Len(f) : (f \o g)[n] = f[n]
      BY Joined
    <3>6. \A n \in 1 .. Len(g) : (f \o g)[Len(f) + n] = g[n]
      BY Joined
    <3> QED
      BY <3>1, <3>2, <3>3, <3>4, <3>5, <3>6, Zenon
  <2>2. PICK a : a = first \o second
    OBVIOUS
  <2>3. /\ a \in Seq(Entry) /\ Len(a) = c + d
        /\ \A n \in 1 .. c : a[n] = first[n]
        /\ \A n \in 1 .. d : a[c + n] = second[n]
    BY <1>6, <1>7, <2>1, <2>2
  <2> QED
    BY <1>8, <2>2, <2>3
<1> QED
  BY <1>2, <1>3, <1>4, <1>5, <1>9, <1>10 DEF left, new, c, d

\* Each operation has its own outcomes, and deletions go down.
Kinds(q) ==
  /\ q.op # "insert" => With(q, "inserted") = {}
  /\ q.op # "update" => With(q, "updated") = {}
  /\ q.op # "delete" => With(q, "deleted") = {}

Descending(q) ==
  q.op = "delete" =>
    /\ \A i, j \in DOMAIN q.items : i < j => q.items[i].id >= q.items[j].id
    /\ q.last > 0 => \A i \in DOMAIN q.items : q.items[i].id <= q.last
    /\ \A k \in With(q, "deleted") : q.last > 0 /\ q.last <= q.done[k].item.id

\* A batch holds the mutex, and its list is what it accounts for.
BatchInv ==
  \A r \in Requests : req[r].at \in {"merge", "write"} =>
    /\ writer = r /\ Kinds(req[r]) /\ Descending(req[r])
    /\ lists[req[r].list].live => Listing(rows[req[r].list]) = Accounted(req[r])

\* One more outcome.
LEMMA OneMore ==
  ASSUME NEW b \in Batching, NEW q \in Batching, NEW o \in Outcomes,
         q.done = Append(b.done, o), q.before = b.before
  PROVE  /\ With(q, o.status) = With(b, o.status) \cup {Len(b.done) + 1}
         /\ \A status : status # o.status => With(q, status) = With(b, status)
         /\ \A k \in 1 .. Len(b.done) : q.done[k] = b.done[k] /\ Wanted(q, k) = Wanted(b, k)
         /\ q.done[Len(b.done) + 1] = o
         /\ Wanted(q, Len(b.done) + 1) = [email |-> o.item.email, filled |-> o.item.filled]
<1> DEFINE n == Len(b.done)
<1>1. b.done \in Seq(Outcomes) /\ q.done \in Seq(Outcomes) /\ n \in Nat
  BY DEF Batching
<1>2. DOMAIN q.done = 1 .. n + 1 /\ DOMAIN b.done = 1 .. n
  BY <1>1
<1>3. \A k \in 1 .. n : q.done[k] = b.done[k]
  BY <1>1
<1>4. q.done[n + 1] = o
  BY <1>1
<1>5. ASSUME NEW status
      PROVE  With(q, status) = IF o.status = status THEN With(b, status) \cup {n + 1}
                               ELSE With(b, status)
  <2> HIDE DEF n
  <2>1. \A k : k \in 1 .. n + 1 <=> k \in 1 .. n \/ k = n + 1
    BY <1>1
  <2> QED
    BY <1>2, <1>3, <1>4, <2>1 DEF With
<1>6. \A k \in 1 .. n : Wanted(q, k) = Wanted(b, k)
  BY <1>3 DEF Wanted
<1>7. Wanted(q, n + 1) = [email |-> o.item.email, filled |-> o.item.filled]
  BY <1>4 DEF Wanted
<1>8. With(q, o.status) = With(b, o.status) \cup {n + 1}
  BY <1>5
<1>9. \A status : status # o.status => With(q, status) = With(b, status)
  BY <1>5
<1> QED
  BY <1>3, <1>4, <1>6, <1>7, <1>8, <1>9

\* An outcome that changes nothing leaves the account as it was.
LEMMA AccountedSame ==
  ASSUME NEW b \in Batching, NEW q \in Batching, q.before = b.before,
         \A status \in {"inserted", "updated", "deleted"} : With(q, status) = With(b, status),
         \A k \in 1 .. Len(b.done) : q.done[k] = b.done[k]
  PROVE  Accounted(q) = Accounted(b)
<1> DEFINE S == Left(b)
           N == With(b, "inserted")
<1>1. \A status : \A k \in With(b, status) : k \in 1 .. Len(b.done)
  BY OutcomesOf
<1>2. \A k \in 1 .. Len(b.done) : Wanted(q, k) = Wanted(b, k)
  BY DEF Wanted
<1>3. With(q, "updated") = With(b, "updated") /\ With(q, "deleted") = With(b, "deleted")
      /\ With(q, "inserted") = N
  OBVIOUS
<1>4. Left(q) = S
  BY <1>1, <1>3 DEF Left
<1>5. \A i : Updates(q, i) = Updates(b, i)
  BY <1>1, <1>3 DEF Updates
<1>6. \A i \in 1 .. Len(b.before) : Kept(q, i) = Kept(b, i)
  <2> TAKE i \in 1 .. Len(b.before)
  <2>1. CASE Updates(b, i) = {}
    BY <1>5, <2>1 DEF Kept
  <2>2. CASE Updates(b, i) # {}
    <3>1. Updates(b, i) \in SUBSET With(b, "updated")
      BY DEF Updates
    <3>2. IsFiniteSet(Updates(b, i)) /\ Updates(b, i) \in SUBSET Nat
      BY <3>1, OutcomesOf, FS_Subset
    <3>3. Max(Updates(b, i)) \in 1 .. Len(b.done)
      BY <1>1, <2>2, <3>1, <3>2, MaxOf
    <3> QED
      BY <1>2, <1>5, <2>2, <3>3 DEF Kept
  <2> QED
    BY <2>1, <2>2
<1>7. S \in SUBSET (1 .. Len(b.before))
  BY OutcomesOf DEF Left
<1> HIDE DEF S, N
<1>8. PICK x \in Seq(Entry) : x = Accounted(b)
  BY AccountedOf
<1>9. PICK y \in Seq(Entry) : y = Accounted(q)
  BY AccountedOf
<1>10. /\ S \in SUBSET Nat /\ IsFiniteSet(S) /\ N \in SUBSET Nat /\ IsFiniteSet(N)
       /\ Cardinality(S) \in Nat /\ Cardinality(N) \in Nat
  BY AccountedOf, OutcomesOf DEF S, N
<1>11. /\ Len(x) = Cardinality(S) + Cardinality(N)
       /\ \A n \in 1 .. Cardinality(S) : x[n] = Kept(b, Ascending(S)[n])
       /\ \A n \in 1 .. Cardinality(N) : x[Cardinality(S) + n] = Wanted(b, Ascending(N)[n])
  BY <1>8, AccountedOf DEF S, N
<1>12. /\ Len(y) = Cardinality(S) + Cardinality(N)
       /\ \A n \in 1 .. Cardinality(S) : y[n] = Kept(q, Ascending(S)[n])
       /\ \A n \in 1 .. Cardinality(N) : y[Cardinality(S) + n] = Wanted(q, Ascending(N)[n])
  BY <1>3, <1>4, <1>9, AccountedOf
<1>13. \A n \in 1 .. Cardinality(S) : y[n] = x[n]
  <2>1. \A n \in 1 .. Cardinality(S) : Ascending(S)[n] \in 1 .. Len(b.before)
    BY <1>7, <1>10, AscendingOf
  <2> QED
    BY <1>6, <1>11, <1>12, <2>1
<1>14. \A n \in 1 .. Cardinality(N) : y[Cardinality(S) + n] = x[Cardinality(S) + n]
  <2>1. \A n \in 1 .. Cardinality(N) : Ascending(N)[n] \in 1 .. Len(b.done)
    BY <1>1, <1>10, AscendingOf DEF N
  <2> QED
    BY <1>2, <1>11, <1>12, <2>1
<1>15. \A i \in 1 .. Len(x) : x[i] = y[i]
  <2> TAKE i \in 1 .. Len(x)
  <2>1. CASE i <= Cardinality(S)
    <3>1. i \in 1 .. Cardinality(S)
      BY <1>10, <2>1
    <3> QED
      BY <1>13, <3>1
  <2>2. CASE i > Cardinality(S)
    <3>1. PICK n \in 1 .. Cardinality(N) : i = Cardinality(S) + n
      <4>1. i - Cardinality(S) \in 1 .. Cardinality(N) /\ i = Cardinality(S) + (i - Cardinality(S))
        BY <1>10, <1>11, <2>2
      <4> QED
        BY <4>1
    <3> QED
      BY <1>14, <3>1
  <2> QED
    BY <1>10, <2>1, <2>2
<1>16. x = y
  BY <1>11, <1>12, <1>15, SameSeq
<1> QED
  BY <1>8, <1>9, <1>16

\* Before its first write a batch accounts for the list it has found.
LEMMA AccountedStart ==
  ASSUME NEW q \in Batching, q.done = <<>>
  PROVE  Accounted(q) = q.before /\ Kinds(q)
<1> DEFINE m == Len(q.before)
<1>1. q.before \in Seq(Entry) /\ m \in Nat /\ DOMAIN q.before = 1 .. m
  BY OutcomesOf
<1>2. \A status : With(q, status) = {}
  BY DEF With
<1>3. Left(q) = 1 .. m
  BY <1>1, <1>2 DEF Left
<1>4. \A i : Kept(q, i) = q.before[i]
  BY <1>2 DEF Kept, Updates
<1>5. /\ Cardinality(1 .. m) = m /\ Cardinality(With(q, "inserted")) = 0
      /\ \A n \in 1 .. m : Ascending(1 .. m)[n] = n
  BY <1>1, <1>2, AscendingInterval, FS_EmptySet
<1>6. PICK x \in Seq(Entry) : x = Accounted(q)
  BY AccountedOf
<1>7. PICK y \in Seq(Entry) : y = q.before
  BY <1>1
<1>8. /\ Len(x) = Cardinality(1 .. m) + Cardinality(With(q, "inserted"))
      /\ \A n \in 1 .. Cardinality(1 .. m) : x[n] = Kept(q, Ascending(1 .. m)[n])
  BY <1>3, <1>6, AccountedOf
<1>9. Len(x) = Len(y) /\ \A n \in 1 .. Len(y) : x[n] = y[n]
  BY <1>1, <1>4, <1>5, <1>7, <1>8
<1>10. x = y
  BY <1>9, SameSeq
<1>11. Kinds(q)
  BY <1>2 DEF Kinds
<1> QED
  BY <1>6, <1>7, <1>10, <1>11

\* A deletion takes out the entry that had this id when the batch began,
\* because only greater ids have been deleted before.
LEMMA AccountDelete ==
  ASSUME NEW b \in Batching, NEW q \in Batching, NEW o \in Outcomes,
         q.done = Append(b.done, o), q.before = b.before, b.op = "delete",
         o.status = "deleted", Kinds(b), Descending(b),
         NEW t \in SUBSET Rows, NEW n \in Nat, Ranked(t, n), NEW gone \in t,
         gone.id = o.item.id, b.last > 0 => gone.id < b.last, Listing(t) = Accounted(b)
  PROVE  Listing(Compact(t, gone.id)) = Accounted(q)
<1> DEFINE d == gone.id
           S == Left(b)
           m == Len(b.before)
<1>1. /\ With(b, "inserted") = {} /\ With(q, "inserted") = {}
      /\ With(b, "updated") = {} /\ With(q, "updated") = {}
      /\ With(q, "deleted") = With(b, "deleted") \cup {Len(b.done) + 1}
  <2>1. /\ With(q, o.status) = With(b, o.status) \cup {Len(b.done) + 1}
        /\ \A s : s # o.status => With(q, s) = With(b, s)
    BY OneMore
  <2>2. With(b, "inserted") = {} /\ With(b, "updated") = {}
    BY DEF Kinds
  <2> QED
    BY <2>1, <2>2
<1>2. /\ \A k \in With(b, "deleted") : q.done[k] = b.done[k]
      /\ q.done[Len(b.done) + 1].item.id = d
  BY OneMore, OutcomesOf
<1>3. Left(q) = S \ {d}
  BY <1>1, <1>2 DEF Left
<1>4. \A i : Kept(b, i) = b.before[i] /\ Kept(q, i) = b.before[i]
  BY <1>1 DEF Kept, Updates
<1>5. S \in SUBSET (1 .. m) /\ m \in Nat
  BY OutcomesOf DEF Left
<1>6. PICK x \in Seq(Entry) : x = Accounted(b)
  BY AccountedOf
<1>7. PICK y \in Seq(Entry) : y = Accounted(q)
  BY AccountedOf
<1>8. Cardinality(With(b, "inserted")) = 0 /\ Cardinality(With(q, "inserted")) = 0
  BY <1>1, FS_EmptySet
<1>9. S \in SUBSET Nat /\ IsFiniteSet(S) /\ Cardinality(S) \in Nat
  BY AccountedOf
<1>10. Len(x) = Cardinality(S) /\ \A i \in 1 .. Cardinality(S) : x[i] = b.before[Ascending(S)[i]]
  <2>1. Len(x) = Cardinality(S) + Cardinality(With(b, "inserted"))
    BY <1>6, AccountedOf
  <2>2. \A i \in 1 .. Cardinality(S) : x[i] = Kept(b, Ascending(S)[i])
    BY <1>6, AccountedOf
  <2> QED
    BY <1>4, <1>8, <1>9, <2>1, <2>2
<1>11. /\ Len(y) = Cardinality(S \ {d})
       /\ \A i \in 1 .. Cardinality(S \ {d}) : y[i] = b.before[Ascending(S \ {d})[i]]
  <2>1. Len(y) = Cardinality(Left(q)) + Cardinality(With(q, "inserted"))
    BY <1>7, AccountedOf
  <2>2. \A i \in 1 .. Cardinality(Left(q)) : y[i] = Kept(q, Ascending(Left(q))[i])
    BY <1>7, AccountedOf
  <2>3. Cardinality(Left(q)) \in Nat
    BY AccountedOf
  <2> QED
    <3>1. Len(y) = Cardinality(Left(q))
      BY <1>8, <2>1, <2>3
    <3>2. \A i \in 1 .. Cardinality(Left(q)) : y[i] = b.before[Ascending(Left(q))[i]]
      BY <1>4, <2>2
    <3> QED
      BY <1>3, <3>1, <3>2
<1>12. /\ Len(Listing(t)) = n /\ d \in 1 .. n
       /\ Listing(Compact(t, d)) \in Seq(Entry) /\ Len(Listing(Compact(t, d))) = n - 1
       /\ \A i \in 1 .. n - 1 :
            Listing(Compact(t, d))[i] = Listing(t)[IF i < d THEN i ELSE i + 1]
  BY ListingCompact
<1> HIDE DEF S, m, d
<1>13. Cardinality(S) = n /\ n <= m
  <2>1. IsFiniteSet(1 .. m) /\ Cardinality(1 .. m) = m
    BY <1>5, FS_Interval
  <2>2. Cardinality(S) <= m
    BY <1>5, <2>1, FS_Subset
  <2> QED
    BY <1>6, <1>10, <1>12, <2>2
<1>14. 1 .. d \subseteq S
  <2> SUFFICES ASSUME NEW i \in 1 .. d PROVE i \in S
    OBVIOUS
  <2>1. i \in DOMAIN b.before
    <3>1. DOMAIN b.before = 1 .. m
      BY OutcomesOf DEF m
    <3> QED
      BY <1>5, <1>12, <1>13, <3>1
  <2>2. ASSUME NEW k \in With(b, "deleted") PROVE i # b.done[k].item.id
    <3>1. b.last > 0 /\ b.last <= b.done[k].item.id
      BY DEF Descending
    <3>2. b.last \in Nat /\ b.done[k] \in Outcomes
      BY OutcomesOf DEF Batching
    <3>3. b.done[k].item.id \in Nat
      BY <3>2 DEF Outcomes, Item
    <3>4. d < b.last /\ d \in Nat
      BY <1>12, <3>1 DEF d
    <3> QED
      BY <3>1, <3>2, <3>3, <3>4
  <2> QED
    BY <2>1, <2>2 DEF S, Left
<1>15. d \in S /\ 0 \notin S
  BY <1>5, <1>12, <1>14
<1>16. /\ Cardinality(S \ {d}) = Cardinality(S) - 1
       /\ \A i \in 1 .. Cardinality(S) - 1 :
            Ascending(S \ {d})[i] = Ascending(S)[IF i < d THEN i ELSE i + 1]
  BY <1>9, <1>14, <1>15, AscendingRemove
<1>17. Len(y) = n - 1 /\ \A i \in 1 .. n - 1 : y[i] = x[IF i < d THEN i ELSE i + 1]
  <2>1. Len(y) = n - 1
    BY <1>11, <1>13, <1>16
  <2>2. ASSUME NEW i \in 1 .. n - 1 PROVE y[i] = x[IF i < d THEN i ELSE i + 1]
    <3>1. PICK j : j = IF i < d THEN i ELSE i + 1
      OBVIOUS
    <3>2. j \in 1 .. n
      BY <1>12, <3>1
    <3>3. y[i] = b.before[Ascending(S \ {d})[i]]
      BY <1>11, <1>13, <1>16
    <3>4. Ascending(S \ {d})[i] = Ascending(S)[j]
      BY <1>13, <1>16, <3>1
    <3>5. x[j] = b.before[Ascending(S)[j]]
      BY <1>10, <1>13, <3>2
    <3> QED
      BY <3>1, <3>3, <3>4, <3>5
  <2> QED
    BY <2>1, <2>2
<1>18. PICK z \in Seq(Entry) : z = Listing(Compact(t, d))
  BY <1>12
<1>19. Len(z) = Len(y) /\ \A i \in 1 .. Len(y) : y[i] = z[i]
  <2>1. Len(z) = n - 1 /\ \A i \in 1 .. n - 1 : z[i] = x[IF i < d THEN i ELSE i + 1]
    BY <1>6, <1>12, <1>18
  <2> QED
    BY <1>17, <2>1
<1>20. y = z
  BY <1>19, SameSeq
<1> QED
  BY <1>7, <1>18, <1>20 DEF d

\* An insertion comes last.
LEMMA AccountInsert ==
  ASSUME NEW b \in Batching, NEW q \in Batching, NEW o \in Outcomes,
         q.done = Append(b.done, o), q.before = b.before, b.op = "insert",
         o.status = "inserted", Kinds(b),
         NEW t \in SUBSET Rows, NEW n \in Nat, Ranked(t, n), Listing(t) = Accounted(b)
  PROVE  Listing(t \cup {RowOf(NextId(t), o.item)}) = Accounted(q)
<1> DEFINE S == Left(b)
           N == With(b, "inserted")
           k == Len(b.done) + 1
<1>1. /\ With(q, "inserted") = N \cup {k}
      /\ With(b, "updated") = {} /\ With(q, "updated") = {}
      /\ With(b, "deleted") = {} /\ With(q, "deleted") = {}
  <2>1. /\ With(q, o.status) = With(b, o.status) \cup {Len(b.done) + 1}
        /\ \A s : s # o.status => With(q, s) = With(b, s)
    BY OneMore
  <2>2. With(b, "updated") = {} /\ With(b, "deleted") = {}
    BY DEF Kinds
  <2> QED
    BY <2>1, <2>2
<1>2. /\ \A i \in 1 .. Len(b.done) : Wanted(q, i) = Wanted(b, i)
      /\ Wanted(q, k) = [email |-> o.item.email, filled |-> o.item.filled]
  BY OneMore
<1>3. Left(q) = S
  BY <1>1 DEF Left
<1>4. \A i : Kept(b, i) = b.before[i] /\ Kept(q, i) = b.before[i]
  BY <1>1 DEF Kept, Updates
<1>5. N \in SUBSET Nat /\ IsFiniteSet(N) /\ (\A i \in N : i \in 1 .. Len(b.done))
  BY OutcomesOf
<1>6. k \in Nat /\ \A i \in N : i < k
  BY <1>5, OutcomesOf
<1>7. PICK x \in Seq(Entry) : x = Accounted(b)
  BY AccountedOf
<1>8. PICK y \in Seq(Entry) : y = Accounted(q)
  BY AccountedOf
<1>9. /\ Cardinality(S) \in Nat /\ Cardinality(N) \in Nat
  BY AccountedOf
<1>10. /\ Len(x) = Cardinality(S) + Cardinality(N)
       /\ \A i \in 1 .. Cardinality(S) : x[i] = Kept(b, Ascending(S)[i])
       /\ \A i \in 1 .. Cardinality(N) : x[Cardinality(S) + i] = Wanted(b, Ascending(N)[i])
  BY <1>7, AccountedOf
<1>11. /\ Len(y) = Cardinality(S) + Cardinality(N \cup {k})
       /\ \A i \in 1 .. Cardinality(S) : y[i] = Kept(q, Ascending(S)[i])
       /\ \A i \in 1 .. Cardinality(N \cup {k}) :
            y[Cardinality(S) + i] = Wanted(q, Ascending(N \cup {k})[i])
  BY <1>1, <1>3, <1>8, AccountedOf
<1> HIDE DEF S, N
<1>12. /\ Cardinality(N \cup {k}) = Cardinality(N) + 1
       /\ Ascending(N \cup {k})[Cardinality(N) + 1] = k
       /\ \A i \in 1 .. Cardinality(N) : Ascending(N \cup {k})[i] = Ascending(N)[i]
  BY <1>5, <1>6, AscendingAdd
<1> HIDE DEF k
<1>13. \A i \in 1 .. Cardinality(N) : Ascending(N)[i] \in 1 .. Len(b.done)
  BY <1>5, AscendingOf
<1>14. \A i \in 1 .. Cardinality(S) : y[i] = x[i]
  BY <1>4, <1>10, <1>11
<1>15. \A i \in 1 .. Cardinality(N) : y[Cardinality(S) + i] = x[Cardinality(S) + i]
  <2> TAKE i \in 1 .. Cardinality(N)
  <2>1. i \in 1 .. Cardinality(N \cup {k})
    BY <1>9, <1>12
  <2> QED
    BY <1>2, <1>10, <1>11, <1>12, <1>13, <2>1
<1>16. y[Len(x) + 1] = [email |-> o.item.email, filled |-> o.item.filled]
  <2>1. Cardinality(N) + 1 \in 1 .. Cardinality(N \cup {k})
    BY <1>9, <1>12
  <2>2. y[Cardinality(S) + (Cardinality(N) + 1)] = Wanted(q, k)
    BY <1>11, <1>12, <2>1
  <2>3. Len(x) + 1 = Cardinality(S) + (Cardinality(N) + 1)
    BY <1>9, <1>10
  <2> QED
    BY <1>2, <2>2, <2>3
<1>17. Len(y) = Len(x) + 1
  BY <1>9, <1>10, <1>11, <1>12
<1>18. \A i \in 1 .. Len(x) : y[i] = x[i]
  <2> TAKE i \in 1 .. Len(x)
  <2>1. CASE i <= Cardinality(S)
    <3>1. i \in 1 .. Cardinality(S)
      BY <1>9, <2>1
    <3> QED
      BY <1>14, <3>1
  <2>2. CASE i > Cardinality(S)
    <3>1. PICK j \in 1 .. Cardinality(N) : i = Cardinality(S) + j
      <4>1. i - Cardinality(S) \in 1 .. Cardinality(N) /\ i = Cardinality(S) + (i - Cardinality(S))
        BY <1>9, <1>10, <2>2
      <4> QED
        BY <4>1
    <3> QED
      BY <1>15, <3>1
  <2> QED
    BY <1>9, <2>1, <2>2
<1>19. o.item \in Item
  BY DEF Outcomes
<1>20. PICK after : after = t \cup {RowOf(NextId(t), o.item)}
  OBVIOUS
<1>21. /\ Len(Listing(t)) = n /\ Listing(after) \in Seq(Entry) /\ Len(Listing(after)) = n + 1
       /\ \A i \in 1 .. n : Listing(after)[i] = Listing(t)[i]
       /\ Listing(after)[n + 1] = [email |-> o.item.email, filled |-> o.item.filled]
  BY <1>19, <1>20, ListingInsert
<1>22. PICK z \in Seq(Entry) : z = Listing(after)
  BY <1>21
<1>23. Len(x) = n /\ Len(z) = n + 1 /\ Len(y) = n + 1
  BY <1>7, <1>17, <1>21, <1>22
<1>24. \A i \in 1 .. Len(y) : y[i] = z[i]
  <2> TAKE i \in 1 .. Len(y)
  <2>1. CASE i \in 1 .. n
    BY <1>7, <1>18, <1>21, <1>22, <1>23, <2>1
  <2>2. CASE i = n + 1
    BY <1>16, <1>21, <1>22, <1>23, <2>2
  <2> QED
    BY <1>23, <2>1, <2>2
<1>25. y = z
  BY <1>23, <1>24, SameSeq
<1> QED
  BY <1>8, <1>20, <1>22, <1>25

\* An update is the last word on its entry.
LEMMA AccountUpdate ==
  ASSUME NEW b \in Batching, NEW q \in Batching, NEW o \in Outcomes,
         q.done = Append(b.done, o), q.before = b.before, b.op = "update",
         o.status = "updated", Kinds(b),
         NEW t \in SUBSET Rows, NEW n \in Nat, Ranked(t, n), NEW old \in t,
         old.id = o.item.id, Listing(t) = Accounted(b)
  PROVE  Listing(Rewritten(t, o.item)) = Accounted(q)
<1> DEFINE m == Len(b.before)
           k == Len(b.done) + 1
           d == o.item.id
           new == [email |-> o.item.email, filled |-> o.item.filled]
<1>1. /\ With(b, "inserted") = {} /\ With(q, "inserted") = {}
      /\ With(q, "updated") = With(b, "updated") \cup {k}
      /\ With(b, "deleted") = {} /\ With(q, "deleted") = {}
  <2>1. /\ With(q, o.status) = With(b, o.status) \cup {Len(b.done) + 1}
        /\ \A s : s # o.status => With(q, s) = With(b, s)
    BY OneMore
  <2>2. With(b, "inserted") = {} /\ With(b, "deleted") = {}
    BY DEF Kinds
  <2> QED
    BY <2>1, <2>2
<1>2. /\ \A i \in 1 .. Len(b.done) : q.done[i] = b.done[i] /\ Wanted(q, i) = Wanted(b, i)
      /\ Wanted(q, k) = new /\ q.done[k].item.id = d
  BY OneMore
<1>3. DOMAIN b.before = 1 .. m /\ m \in Nat
  BY OutcomesOf
<1>4. Left(q) = 1 .. m /\ Left(b) = 1 .. m
  BY <1>1, <1>3 DEF Left
<1>5. /\ With(b, "updated") \in SUBSET Nat /\ IsFiniteSet(With(b, "updated"))
      /\ (\A i \in With(b, "updated") : i \in 1 .. Len(b.done)) /\ Len(b.done) \in Nat
  BY OutcomesOf
<1> HIDE DEF m
<1>6. \A i : Updates(q, i) = IF i = d THEN Updates(b, i) \cup {k} ELSE Updates(b, i)
  BY <1>1, <1>2, <1>5 DEF Updates
<1>7. \A i \in 1 .. m : i # d => Kept(q, i) = Kept(b, i)
  <2> SUFFICES ASSUME NEW i \in 1 .. m, i # d PROVE Kept(q, i) = Kept(b, i)
    OBVIOUS
  <2>1. CASE Updates(b, i) = {}
    BY <1>6, <2>1 DEF Kept
  <2>2. CASE Updates(b, i) # {}
    <3>1. Updates(b, i) \in SUBSET With(b, "updated")
      BY DEF Updates
    <3>2. IsFiniteSet(Updates(b, i)) /\ Updates(b, i) \in SUBSET Nat
      BY <1>5, <3>1, FS_Subset
    <3>3. Max(Updates(b, i)) \in 1 .. Len(b.done)
      BY <1>5, <2>2, <3>1, <3>2, MaxOf
    <3> QED
      BY <1>2, <1>6, <2>2, <3>3 DEF Kept
  <2> QED
    BY <2>1, <2>2
<1>8. Kept(q, d) = new
  <2> DEFINE U == Updates(q, d)
  <2>1. U = Updates(b, d) \cup {k}
    BY <1>6
  <2>2. Updates(b, d) \in SUBSET With(b, "updated")
    BY DEF Updates
  <2>3. IsFiniteSet(Updates(b, d))
    BY <1>5, <2>2, FS_Subset
  <2>4. U \in SUBSET Nat /\ k \in U /\ IsFiniteSet(U)
    <3>1. PICK V : V = Updates(b, d)
      OBVIOUS
    <3>2. IsFiniteSet(V \cup {k})
      BY <2>3, <3>1, FS_AddElement
    <3>3. V \in SUBSET Nat /\ k \in Nat
      BY <1>5, <2>2, <3>1
    <3> HIDE DEF U, k
    <3> QED
      BY <2>1, <3>1, <3>2, <3>3
  <2>5. \A i \in U : i <= k
    BY <1>5, <2>1, <2>2
  <2> HIDE DEF U
  <2>6. Max(U) \in U /\ k <= Max(U)
    BY <2>4, MaxOf
  <2>7. Max(U) <= k /\ Max(U) \in Nat
    BY <2>4, <2>5, <2>6
  <2>8. Max(U) = k
    BY <1>5, <2>6, <2>7
  <2> QED
    BY <1>2, <2>4, <2>8 DEF Kept, U
<1>9. PICK x \in Seq(Entry) : x = Accounted(b)
  BY AccountedOf
<1>10. PICK y \in Seq(Entry) : y = Accounted(q)
  BY AccountedOf
<1>11. /\ Cardinality(1 .. m) = m /\ \A i \in 1 .. m : Ascending(1 .. m)[i] = i
  BY <1>3, AscendingInterval
<1>12. Cardinality(With(b, "inserted")) = 0 /\ Cardinality(With(q, "inserted")) = 0
  BY <1>1, FS_EmptySet
<1>13. Len(x) = m /\ \A i \in 1 .. m : x[i] = Kept(b, i)
  <2>1. Len(x) = Cardinality(1 .. m) + Cardinality(With(b, "inserted"))
    BY <1>4, <1>9, AccountedOf
  <2>2. \A i \in 1 .. Cardinality(1 .. m) : x[i] = Kept(b, Ascending(1 .. m)[i])
    BY <1>4, <1>9, AccountedOf
  <2> QED
    BY <1>3, <1>11, <1>12, <2>1, <2>2
<1>14. Len(y) = m /\ \A i \in 1 .. m : y[i] = Kept(q, i)
  <2>1. Len(y) = Cardinality(1 .. m) + Cardinality(With(q, "inserted"))
    BY <1>4, <1>10, AccountedOf
  <2>2. \A i \in 1 .. Cardinality(1 .. m) : y[i] = Kept(q, Ascending(1 .. m)[i])
    BY <1>4, <1>10, AccountedOf
  <2> QED
    BY <1>3, <1>11, <1>12, <2>1, <2>2
<1>15. o.item \in Item
  BY DEF Outcomes
<1>16. PICK after : after = Rewritten(t, o.item)
  OBVIOUS
<1>17. /\ Len(Listing(t)) = n /\ d \in 1 .. n
       /\ Listing(after) \in Seq(Entry) /\ Len(Listing(after)) = n
       /\ \A i \in 1 .. n : Listing(after)[i] = IF i = d THEN new ELSE Listing(t)[i]
  BY <1>15, <1>16, ListingUpdate
<1>18. PICK z \in Seq(Entry) : z = Listing(after)
  BY <1>17
<1>19. m = n
  BY <1>9, <1>13, <1>17
<1> HIDE DEF d, new
<1>20. \A i \in 1 .. Len(y) : y[i] = z[i]
  <2> TAKE i \in 1 .. Len(y)
  <2>1. CASE i = d
    BY <1>8, <1>14, <1>17, <1>18, <1>19, <2>1
  <2>2. CASE i # d
    BY <1>7, <1>9, <1>13, <1>14, <1>17, <1>18, <1>19, <2>2
  <2> QED
    BY <2>1, <2>2
<1>21. y = z
  BY <1>14, <1>17, <1>18, <1>19, <1>20, SameSeq
<1> QED
  BY <1>10, <1>16, <1>18, <1>21

\* Every write keeps the account right.
LEMMA AccountWrites ==
  ASSUME NEW b \in Batching, NEW q \in Batching, NEW t \in SUBSET Rows,
         NEW n \in Nat, Ranked(t, n), NEW live, NEW item, NEW status,
         b.items # <<>>, item = Head(b.items), status = Found(b, t, live),
         q.op = b.op, q.before = b.before, q.items = Tail(b.items),
         q.last = IF status = "deleted" THEN item.id ELSE b.last,
         q.done = Append(b.done, [item |-> item, status |-> status]),
         Kinds(b), Descending(b)
  PROVE  /\ Kinds(q) /\ Descending(q)
         /\ Listing(t) = Accounted(b) => Listing(WriteEntry(t, item, status)) = Accounted(q)
<1>1. /\ b.items \in Seq(Item) /\ b.op \in Writes /\ b.last \in Nat
      /\ item \in Item /\ item.id \in Nat
  <2>1. b.items \in Seq(Item) /\ b.op \in Writes /\ b.last \in Nat
    BY DEF Batching
  <2>2. item \in Item
    BY <2>1
  <2> QED
    BY <2>1, <2>2 DEF Item
<1>2. /\ status \in {"inserted", "updated", "deleted", "not_found", "invalid", "duplicate", "rejected"}
      /\ status = "deleted" => b.op = "delete"
      /\ status = "inserted" => b.op = "insert"
      /\ status = "updated" => b.op = "update"
  BY <1>1, StatusTyped DEF Found
<1>3. PICK o : o = [item |-> item, status |-> status]
  OBVIOUS
<1>4. o \in Outcomes /\ o.item = item /\ o.status = status /\ q.done = Append(b.done, o)
  BY <1>1, <1>2, <1>3 DEF Outcomes
<1>5. /\ With(q, status) = With(b, status) \cup {Len(b.done) + 1}
      /\ \A s : s # status => With(q, s) = With(b, s)
      /\ \A k \in 1 .. Len(b.done) : q.done[k] = b.done[k]
      /\ q.done[Len(b.done) + 1] = o
  <2>1. /\ With(q, o.status) = With(b, o.status) \cup {Len(b.done) + 1}
        /\ \A s : s # o.status => With(q, s) = With(b, s)
    BY <1>4, OneMore
  <2>2. \A k \in 1 .. Len(b.done) : q.done[k] = b.done[k]
    BY <1>4, OneMore
  <2>3. q.done[Len(b.done) + 1] = o
    BY <1>4, OneMore
  <2> QED
    BY <1>4, <2>1, <2>2, <2>3
<1>6. Kinds(q)
  BY <1>2, <1>5 DEF Kinds
<1>7. b.op = "delete" /\ b.last > 0 => item.id <= b.last
  BY <1>1 DEF Descending
<1>8. Descending(q)
  <2> SUFFICES ASSUME q.op = "delete" PROVE Descending(q)
    BY DEF Descending
  <2>1. \A i \in DOMAIN q.items : i + 1 \in DOMAIN b.items /\ q.items[i] = b.items[i + 1]
    BY <1>1
  <2>2. /\ \A i, j \in DOMAIN b.items : i < j => b.items[i].id >= b.items[j].id
        /\ b.last > 0 => \A i \in DOMAIN b.items : b.items[i].id <= b.last
        /\ \A k \in With(b, "deleted") : b.last > 0 /\ b.last <= b.done[k].item.id
    BY DEF Descending
  <2>3. DOMAIN q.items \subseteq Nat
    BY <1>1
  <2>4. \A i, j \in DOMAIN q.items : i < j => q.items[i].id >= q.items[j].id
    <3> TAKE i, j \in DOMAIN q.items
    <3>1. i + 1 \in DOMAIN b.items /\ j + 1 \in DOMAIN b.items
      BY <2>1
    <3>2. q.items[i] = b.items[i + 1] /\ q.items[j] = b.items[j + 1]
      BY <2>1
    <3>3. i < j => i + 1 < j + 1
      BY <2>3
    <3> QED
      BY <2>2, <3>1, <3>2, <3>3
  <2>5. \A i \in DOMAIN q.items : q.items[i].id <= item.id
    <3> TAKE i \in DOMAIN q.items
    <3>1. 1 \in DOMAIN b.items /\ b.items[1] = item /\ 1 < i + 1
      BY <1>1, <2>3
    <3>2. b.items[i + 1].id <= b.items[1].id
      <4>1. b.items[1].id >= b.items[i + 1].id
        BY <2>1, <2>2, <3>1
      <4>2. b.items[1] \in Item /\ b.items[i + 1] \in Item
        BY <1>1, <2>1, <3>1
      <4>3. b.items[1].id \in Nat /\ b.items[i + 1].id \in Nat
        BY <4>2 DEF Item
      <4> QED
        BY <4>1, <4>3
    <3> QED
      BY <2>1, <3>1, <3>2
  <2>6. q.last > 0 => \A i \in DOMAIN q.items : q.items[i].id <= q.last
    BY <2>1, <2>2, <2>5
  <2>7. \A k \in With(q, "deleted") : q.last > 0 /\ q.last <= q.done[k].item.id
    <3>1. CASE status = "deleted"
      <4>1. q.last = item.id /\ item.id > 0
        <5>1. \E x \in t : x.id = item.id
          BY <1>2, <3>1 DEF Found, Status
        <5> QED
          BY <1>1, <3>1, <5>1 DEF Ranked
      <4>2. ASSUME NEW k \in With(b, "deleted") PROVE item.id <= q.done[k].item.id
        <5>1. k \in 1 .. Len(b.done)
          BY OutcomesOf
        <5>2. b.last > 0 /\ b.last <= b.done[k].item.id /\ item.id <= b.last
          BY <1>7, <2>2
        <5>3. b.done[k] \in Outcomes /\ q.done[k] = b.done[k]
          BY <1>5, <5>1, OutcomesOf
        <5>4. b.done[k].item.id \in Nat
          BY <5>3 DEF Outcomes, Item
        <5>5. b.last \in Nat /\ item.id \in Nat
          BY <1>1
        <5>6. item.id <= b.done[k].item.id
          BY <5>2, <5>4, <5>5
        <5> QED
          BY <5>3, <5>6
      <4>3. item.id <= q.done[Len(b.done) + 1].item.id
        BY <1>1, <1>4, <1>5
      <4>4. With(q, "deleted") = With(b, "deleted") \cup {Len(b.done) + 1}
        BY <1>5, <3>1
      <4> QED
        BY <4>1, <4>2, <4>3, <4>4
    <3>2. CASE status # "deleted"
      <4>1. With(q, "deleted") = With(b, "deleted") /\ q.last = b.last
        BY <1>5, <3>2
      <4>2. \A k \in With(b, "deleted") : q.done[k] = b.done[k]
        BY <1>5, OutcomesOf
      <4> QED
        BY <2>2, <4>1, <4>2
    <3> QED
      BY <3>1, <3>2
  <2> QED
    BY <2>4, <2>6, <2>7 DEF Descending
<1>9. ASSUME Listing(t) = Accounted(b)
      PROVE  Listing(WriteEntry(t, item, status)) = Accounted(q)
  <2>1. CASE status = "deleted"
    <3>1. PICK gone \in t : gone.id = item.id
      BY <2>1 DEF Found, Status
    <3>2. b.op = "delete" /\ (b.last > 0 => gone.id < b.last)
      <4>1. b.last > 0 => item.id # b.last
        BY <1>2, <2>1 DEF Found
      <4> QED
        BY <1>1, <1>2, <1>7, <2>1, <3>1, <4>1
    <3>3. Listing(Compact(t, gone.id)) = Accounted(q)
      BY <1>4, <1>9, <2>1, <3>1, <3>2, AccountDelete
    <3> QED
      BY <2>1, <3>1, <3>3 DEF WriteEntry
  <2>2. CASE status = "inserted"
    <3>1. Listing(t \cup {RowOf(NextId(t), o.item)}) = Accounted(q)
      BY <1>2, <1>4, <1>9, <2>2, AccountInsert
    <3> QED
      BY <1>4, <2>2, <3>1 DEF WriteEntry
  <2>3. CASE status = "updated"
    <3>1. PICK old \in t : old.id = item.id
      BY <1>2, <2>3 DEF Found, Status
    <3>2. Listing(Rewritten(t, o.item)) = Accounted(q)
      BY <1>2, <1>4, <1>9, <2>3, <3>1, AccountUpdate
    <3> QED
      BY <1>4, <2>3, <3>2 DEF WriteEntry, Rewritten
  <2>4. CASE status \notin {"deleted", "inserted", "updated"}
    <3>1. \A s \in {"inserted", "updated", "deleted"} : With(q, s) = With(b, s)
      BY <1>5, <2>4
    <3>2. Accounted(q) = Accounted(b)
      BY <1>5, <3>1, AccountedSame
    <3>3. WriteEntry(t, item, status) = t
      BY <2>4 DEF WriteEntry
    <3> QED
      BY <1>9, <3>2, <3>3
  <2> QED
    BY <2>1, <2>2, <2>3, <2>4
<1> QED
  BY <1>6, <1>8, <1>9

\* A request that has ended is no batch.
LEMMA Ended ==
  ASSUME NEW r, NEW op, NEW at \in {"ok", "failed"},
         req' = [req EXCEPT ![r] = [op |-> op, at |-> at]]
  PROVE  \E q : req' = [req EXCEPT ![r] = q] /\ q.at \in {"ok", "failed"}
<1>1. PICK q : q = [op |-> op, at |-> at]
  OBVIOUS
<1>2. q.at = at /\ req' = [req EXCEPT ![r] = q]
  BY <1>1
<1> QED
  BY <1>2

\* Another request moves; no list comes back, and no entries change.
LEMMA Aside ==
  ASSUME IInv, BatchInv, NEW r \in Requests, NEW q, req' = [req EXCEPT ![r] = q],
         q.at \notin {"merge", "write"}, writer' = writer \/ writer = r,
         \A l \in ListIds : l < nextList /\ lists'[l].live => lists[l].live,
         \A l \in ListIds : l < nextList /\ lists'[l].live => rows'[l] = rows[l]
  PROVE  BatchInv'
<1>1. \A s \in Requests : req'[s] = IF s = r THEN q ELSE req[s]
  BY DEF IInv, TypeOK
<1>2. ASSUME NEW s \in Requests, req'[s].at \in {"merge", "write"}
      PROVE  /\ writer' = s /\ Kinds(req'[s]) /\ Descending(req'[s])
             /\ lists'[req'[s].list].live => Listing(rows'[req'[s].list]) = Accounted(req'[s])
  <2>1. s # r /\ req'[s] = req[s]
    BY <1>1, <1>2
  <2>2. PICK b : b = req[s]
    OBVIOUS
  <2>3. b.at \in {"merge", "write"}
    BY <1>2, <2>1, <2>2
  <2>4. b \in Batching
    BY <2>2, <2>3, ShapeOf DEF IInv
  <2>5. b.list \in ListIds
    BY <2>4 DEF Batching
  <2>6. b.list < nextList
    <3>1. Sound(b, lists, nextList, campaigns)
      BY <2>2 DEF IInv, RequestsSound
    <3> QED
      BY <2>3, <3>1 DEF Sound
  <2>7. /\ writer = s /\ Kinds(b) /\ Descending(b)
        /\ lists[b.list].live => Listing(rows[b.list]) = Accounted(b)
    BY <2>2, <2>3 DEF BatchInv
  <2>8. lists'[b.list].live => Listing(rows'[b.list]) = Accounted(b)
    BY <2>5, <2>6, <2>7
  <2>9. writer' = s
    BY <2>1, <2>7
  <2> QED
    BY <2>1, <2>2, <2>7, <2>8, <2>9
<1> QED
  BY <1>2 DEF BatchInv

\* The same for a step of the batch itself.
LEMMA Within ==
  ASSUME IInv, BatchInv, NEW r \in Requests, NEW q, req' = [req EXCEPT ![r] = q],
         writer \in {r, Nobody}, writer' = r, Kinds(q), Descending(q),
         lists'[q.list].live => Listing(rows'[q.list]) = Accounted(q)
  PROVE  BatchInv'
<1>1. \A s \in Requests : req'[s] = IF s = r THEN q ELSE req[s]
  BY DEF IInv, TypeOK
<1>2. \A s \in Requests : s # r => req[s].at \notin {"merge", "write"}
  <2> SUFFICES ASSUME NEW s \in Requests, s # r, req[s].at \in {"merge", "write"} PROVE FALSE
    OBVIOUS
  <2>1. writer = s
    BY DEF BatchInv
  <2> QED
    BY <2>1, AddressBookAssumption
<1>3. \A s \in Requests : req'[s].at \in {"merge", "write"} =>
        /\ writer' = s /\ Kinds(req'[s]) /\ Descending(req'[s])
        /\ lists'[req'[s].list].live => Listing(rows'[req'[s].list]) = Accounted(req'[s])
  <2> SUFFICES ASSUME NEW s \in Requests, req'[s].at \in {"merge", "write"}
               PROVE  /\ writer' = s /\ Kinds(req'[s]) /\ Descending(req'[s])
                      /\ lists'[req'[s].list].live =>
                           Listing(rows'[req'[s].list]) = Accounted(req'[s])
    OBVIOUS
  <2>1. s = r /\ req'[s] = q
    BY <1>1, <1>2
  <2> QED
    BY <2>1
<1> QED
  BY <1>3 DEF BatchInv

-----------------------------------------------------------------------------
(* No action breaks the account of a batch *)

LEMMA SaveListAccounts ==
  ASSUME IInv, BatchInv, NEW r \in Requests, SaveList(r)
  PROVE  BatchInv'
<1>1. PICK id \in 0 .. MaxLists, fields \in Definitions :
        LET target == IF id = 0 THEN nextList ELSE id
            valid  == /\ id = 0 => nextList <= MaxLists
                      /\ id > 0 => lists[id].live
                      /\ Mergeable(IF id = 0 THEN <<>> ELSE lists[id].fields, fields)
        IN /\ Arrives(r, [op |-> "saveList", at |-> IF valid THEN "ok" ELSE "failed"])
           /\ IF valid
              THEN lists' = [lists EXCEPT ![target] =
                     [live |-> TRUE, name |-> r, fields |-> Merged(@.fields, fields)]]
              ELSE UNCHANGED <<lists, nextList>>
           /\ UNCHANGED <<rows, writer>>
  BY DEF SaveList
<1>2. UNCHANGED <<rows, writer>>
  BY <1>1
<1>3. \E q : req' = [req EXCEPT ![r] = q] /\ q.at \in {"ok", "failed"}
  <2>1. PICK at \in {"ok", "failed"} : Arrives(r, [op |-> "saveList", at |-> at])
    BY <1>1
  <2> QED
    BY <2>1, Ended DEF Arrives
<1>4. \A l \in ListIds : l < nextList /\ lists'[l].live => lists[l].live
  <2> SUFFICES ASSUME NEW l \in ListIds, l < nextList, lists'[l].live PROVE lists[l].live
    OBVIOUS
  <2>1. l \in Nat /\ nextList \in Nat
    BY DEF IInv, TypeOK, ListIds
  <2>2. CASE UNCHANGED lists
    BY <2>2
  <2>3. CASE id = 0
    <3>1. l # nextList
      BY <2>1
    <3>2. lists'[l] = lists[l] \/ UNCHANGED lists
      BY <1>1, <2>3, <3>1 DEF IInv, TypeOK
    <3> QED
      BY <3>2
  <2>4. CASE id # 0 /\ ~UNCHANGED lists
    <3>1. lists[id].live
      BY <1>1, <2>4
    <3>2. l # id => lists'[l] = lists[l]
      BY <1>1, <2>4 DEF IInv, TypeOK
    <3> QED
      BY <3>1, <3>2
  <2> QED
    BY <2>2, <2>3, <2>4
<1> QED
  BY <1>2, <1>3, <1>4, Aside

LEMMA DeleteListAccounts ==
  ASSUME IInv, BatchInv, NEW r \in Requests, DeleteList(r, Referenced)
  PROVE  BatchInv'
<1>1. PICK id \in ListIds :
        LET deleted == lists[id].live /\ id \notin Referenced
        IN /\ Arrives(r, [op |-> "deleteList", at |-> IF deleted THEN "ok" ELSE "failed"])
           /\ lists' = [lists EXCEPT ![id] = IF deleted THEN NoList ELSE @]
           /\ rows'  = [rows EXCEPT ![id] = IF deleted THEN {} ELSE @]
           /\ UNCHANGED <<nextList, writer>>
  BY DEF DeleteList
<1> DEFINE deleted == lists[id].live /\ id \notin Referenced
<1>2. \E q : req' = [req EXCEPT ![r] = q] /\ q.at \in {"ok", "failed"}
  <2>1. PICK at \in {"ok", "failed"} : Arrives(r, [op |-> "deleteList", at |-> at])
    BY <1>1
  <2> QED
    BY <2>1, Ended DEF Arrives
<1>3. \A l \in ListIds : (lists'[l] = NoList /\ l = id) \/ (lists'[l] = lists[l] /\ rows'[l] = rows[l])
  BY <1>1 DEF IInv, TypeOK
<1>4. ~NoList.live
  BY DEF NoList
<1>5. \A l \in ListIds : l < nextList /\ lists'[l].live => lists[l].live
  BY <1>3, <1>4
<1>6. \A l \in ListIds : l < nextList /\ lists'[l].live => rows'[l] = rows[l]
  BY <1>3, <1>4
<1> QED
  BY <1>1, <1>2, <1>5, <1>6, Aside

\* A step of a request that is not, or no longer, a batch.
LEMMA QuietAccounts ==
  ASSUME IInv, BatchInv, NEW r \in Requests, NEW q, req' = [req EXCEPT ![r] = q],
         q.at \notin {"merge", "write"}, writer' = writer \/ writer = r,
         UNCHANGED <<lists, rows>>
  PROVE  BatchInv'
BY Aside

\* A batch starts when nobody else writes.
LEMMA BatchStartsAccounts ==
  ASSUME IInv, BatchInv, NEW r \in Requests, BatchStarts(r)
  PROVE  BatchInv'
<1>1. PICK id \in ListIds, b \in Batches :
        LET accepted == lists[id].live /\ Mergeable(lists[id].fields, b.fields)
        IN \/ /\ accepted
              /\ Arrives(r, [op |-> b.op, at |-> IF b.fields = <<>> THEN "write" ELSE "merge",
                             list |-> id, name |-> lists[id].name,
                             defs |-> Merged(lists[id].fields, b.fields),
                             items |-> Ordered(b.op, b.items), last |-> 0,
                             done |-> <<>>, before |-> Listing(rows[id])])
              /\ writer' = r
           \/ /\ ~accepted
              /\ Arrives(r, [op |-> b.op, at |-> "failed"])
              /\ UNCHANGED writer
  BY DEF BatchStarts
<1>2. UNCHANGED <<lists, rows, nextList>> /\ writer = Nobody
  BY DEF BatchStarts
<1>3. b.op \in Writes /\ b.fields \in Fields /\ b.items \in Seq(Item)
  BY AddressBookAssumption DEF Writes
<1>4. CASE Arrives(r, [op |-> b.op, at |-> "failed"]) /\ UNCHANGED writer
  <2>1. \E q : req' = [req EXCEPT ![r] = q] /\ q.at \in {"ok", "failed"}
    BY <1>4, Ended DEF Arrives
  <2> QED
    BY <1>2, <1>4, <2>1, QuietAccounts
<1>5. CASE /\ writer' = r
           /\ Arrives(r, [op |-> b.op, at |-> IF b.fields = <<>> THEN "write" ELSE "merge",
                          list |-> id, name |-> lists[id].name,
                          defs |-> Merged(lists[id].fields, b.fields),
                          items |-> Ordered(b.op, b.items), last |-> 0,
                          done |-> <<>>, before |-> Listing(rows[id])])
  <2>1. PICK q : q = [op |-> b.op, at |-> IF b.fields = <<>> THEN "write" ELSE "merge",
                      list |-> id, name |-> lists[id].name,
                      defs |-> Merged(lists[id].fields, b.fields),
                      items |-> Ordered(b.op, b.items), last |-> 0,
                      done |-> <<>>, before |-> Listing(rows[id])]
    OBVIOUS
  <2>2. lists[id] \in Lists /\ rows[id] \in SUBSET Rows
    BY DEF IInv, TypeOK
  <2>3. lists[id].fields \in Fields /\ lists[id].name \in Requests \cup {Nobody}
    BY <2>2 DEF Lists
  <2>4. PICK n \in Nat : Ranked(rows[id], n)
    BY DEF IInv, TablesTidy, Tidy
  <2>5. Listing(rows[id]) \in Seq(Entry) /\ Ordered(b.op, b.items) \in Seq(Item)
    BY <1>3, <2>2, <2>4, ListingOf, OrderedOf
  <2>6. Merged(lists[id].fields, b.fields) \in Fields
    BY <1>3, <2>3, MergedOf
  <2>7. q \in Batching
    BY <1>3, <2>1, <2>3, <2>5, <2>6 DEF Batching
  <2>8. /\ q.op = b.op /\ q.list = id /\ q.items = Ordered(b.op, b.items) /\ q.last = 0
        /\ q.done = <<>> /\ q.before = Listing(rows[id])
    BY <2>1
  <2>9. Accounted(q) = Listing(rows[id]) /\ Kinds(q)
    BY <2>7, <2>8, AccountedStart
  <2>10. Descending(q)
    <3>1. With(q, "deleted") = {}
      BY <2>8 DEF With
    <3>2. q.op = "delete" =>
            \A i, j \in DOMAIN q.items : i < j => q.items[i].id >= q.items[j].id
      BY <1>3, <2>8, OrderedOf
    <3> QED
      BY <2>8, <3>1, <3>2 DEF Descending
  <2>11. req' = [req EXCEPT ![r] = q]
    BY <1>5, <2>1 DEF Arrives
  <2>12. Listing(rows'[q.list]) = Accounted(q)
    BY <1>2, <2>8, <2>9
  <2> QED
    BY <1>2, <1>5, <2>9, <2>10, <2>11, <2>12, Within
<1> QED
  BY <1>1, <1>4, <1>5

\* Saving the list it has read changes no entry of it.
LEMMA BatchMergesAccounts ==
  ASSUME IInv, BatchInv, NEW r \in Requests, BatchMerges(r)
  PROVE  BatchInv'
<1> DEFINE b == req[r]
           valid == lists[b.list].live /\ Mergeable(lists[b.list].fields, b.defs)
<1>1. b \in Batching /\ b.at = "merge"
  BY ShapeOf DEF IInv, BatchMerges, At
<1>2. UNCHANGED <<rows, nextList>>
  BY DEF BatchMerges
<1>3. writer = r /\ Kinds(b) /\ Descending(b)
  BY <1>1 DEF BatchInv
<1>4. CASE valid
  <2>1. PICK q : q = [b EXCEPT !.at = "write"]
    OBVIOUS
  <2>2. /\ q \in Batching /\ q.list = b.list /\ q.op = b.op /\ q.items = b.items
        /\ q.last = b.last /\ q.done = b.done /\ q.before = b.before
    BY <1>1, <2>1, GoesBatch
  <2>3. req' = [req EXCEPT ![r] = q] /\ UNCHANGED writer
    BY <1>4, <2>1 DEF BatchMerges, Goes
  <2>4. \A s : With(q, s) = With(b, s)
    BY <2>2 DEF With
  <2>5. Kinds(q) /\ Descending(q)
    BY <1>3, <2>2, <2>4 DEF Kinds, Descending
  <2>6. Listing(rows'[q.list]) = Accounted(q)
    <3>1. Listing(rows[b.list]) = Accounted(b)
      BY <1>1, <1>4 DEF BatchInv
    <3>2. Accounted(q) = Accounted(b)
      <4>1. PICK c \in Batching : c = b
        BY <1>1
      <4>2. Accounted(q) = Accounted(c)
        <5>1. /\ q.before = c.before
              /\ \A status \in {"inserted", "updated", "deleted"} : With(q, status) = With(c, status)
              /\ \A k \in 1 .. Len(c.done) : q.done[k] = c.done[k]
          BY <2>2, <2>4, <4>1
        <5> QED
          BY <2>2, <5>1, AccountedSame
      <4> QED
        BY <4>1, <4>2
    <3> QED
      BY <1>2, <2>2, <3>1, <3>2
  <2> QED
    BY <1>3, <2>3, <2>5, <2>6, Within
<1>5. CASE ~valid
  <2>1. Done(r, "failed") /\ writer' = Nobody /\ UNCHANGED lists
    BY <1>5 DEF BatchMerges
  <2>2. \E q : req' = [req EXCEPT ![r] = q] /\ q.at \in {"ok", "failed"}
    BY <2>1, Ended DEF Done
  <2> QED
    BY <1>2, <1>3, <2>1, <2>2, QuietAccounts
<1> QED
  BY <1>4, <1>5

LEMMA BatchWritesAccounts ==
  ASSUME IInv, BatchInv, NEW r \in Requests, BatchWrites(r)
  PROVE  BatchInv'
<1> DEFINE B == req[r]
           T == rows[B.list]
           I == Head(B.items)
<1>1. PICK q \in Batching :
        \E status \in {"inserted", "updated", "deleted", "not_found",
                       "invalid", "duplicate", "rejected"} :
          /\ B \in Batching /\ B.at = "write" /\ B.items # <<>>
          /\ B.list \in ListIds /\ I \in Item
          /\ status = Found(B, T, lists[B.list].live)
          /\ rows' = [rows EXCEPT ![B.list] = WriteEntry(T, I, status)]
          /\ req' = [req EXCEPT ![r] = q]
          /\ q.at = "write" /\ q.op = B.op /\ q.list = B.list
          /\ q.before = B.before /\ q.items = Tail(B.items)
          /\ q.last = IF status = "deleted" THEN I.id ELSE B.last
          /\ q.done = Append(B.done, [item |-> I, status |-> status])
  BY WritesOf
<1>2. PICK status \in {"inserted", "updated", "deleted", "not_found",
                       "invalid", "duplicate", "rejected"} :
          /\ B \in Batching /\ B.at = "write" /\ B.items # <<>>
          /\ B.list \in ListIds /\ I \in Item
          /\ status = Found(B, T, lists[B.list].live)
          /\ rows' = [rows EXCEPT ![B.list] = WriteEntry(T, I, status)]
          /\ req' = [req EXCEPT ![r] = q]
          /\ q.at = "write" /\ q.op = B.op /\ q.list = B.list
          /\ q.before = B.before /\ q.items = Tail(B.items)
          /\ q.last = IF status = "deleted" THEN I.id ELSE B.last
          /\ q.done = Append(B.done, [item |-> I, status |-> status])
  BY <1>1
<1>3. UNCHANGED <<lists, writer>>
  BY DEF BatchWrites
<1>4. PICK b \in Batching : b = B
  BY <1>2
<1>5. PICK t \in SUBSET Rows : t = T
  BY <1>2 DEF IInv, TypeOK
<1>6. PICK n \in Nat : Ranked(t, n)
  BY <1>2, <1>5 DEF IInv, TablesTidy, Tidy
<1>7. PICK item : item = I
  OBVIOUS
<1>8. PICK live : live = lists[B.list].live
  OBVIOUS
<1>9. writer = r /\ Kinds(b) /\ Descending(b)
  BY <1>2, <1>4 DEF BatchInv
<1>10. /\ b.items # <<>> /\ item = Head(b.items) /\ status = Found(b, t, live)
       /\ q.op = b.op /\ q.before = b.before /\ q.items = Tail(b.items)
       /\ q.last = IF status = "deleted" THEN item.id ELSE b.last
       /\ q.done = Append(b.done, [item |-> item, status |-> status])
  BY <1>2, <1>4, <1>5, <1>7, <1>8
<1>11. /\ Kinds(q) /\ Descending(q)
       /\ Listing(t) = Accounted(b) => Listing(WriteEntry(t, item, status)) = Accounted(q)
  <2>1. PICK x, y : x = Listing(WriteEntry(t, item, status)) /\ y = (Listing(t) = Accounted(b))
    OBVIOUS
  <2>2. Kinds(q)
    BY <1>6, <1>9, <1>10, <2>1, AccountWrites
  <2>3. Descending(q)
    BY <1>6, <1>9, <1>10, <2>1, AccountWrites
  <2>4. Listing(t) = Accounted(b) => Listing(WriteEntry(t, item, status)) = Accounted(q)
    BY <1>6, <1>9, <1>10, AccountWrites
  <2> QED
    BY <2>2, <2>3, <2>4
<1>12. lists'[q.list].live => Listing(rows'[q.list]) = Accounted(q)
  <2>1. rows'[q.list] = WriteEntry(t, item, status)
    BY <1>2, <1>5, <1>7 DEF IInv, TypeOK
  <2>2. lists[B.list].live => Listing(t) = Accounted(b)
    BY <1>2, <1>4, <1>5 DEF BatchInv
  <2> QED
    BY <1>2, <1>3, <1>11, <2>1, <2>2
<1> QED
  BY <1>2, <1>3, <1>9, <1>11, <1>12, Within

LEMMA BatchStopsAccounts ==
  ASSUME IInv, BatchInv, NEW r \in Requests, BatchStops(r)
  PROVE  BatchInv'
<1> DEFINE B == req[r]
<1>1. PICK q \in Batching : \E o \in Outcomes :
        /\ B \in Batching /\ B.at = "write"
        /\ req' = [req EXCEPT ![r] = q] /\ o.status = "failed"
        /\ q.op = B.op /\ q.list = B.list
        /\ q.before = B.before /\ q.items = <<>> /\ q.last = B.last
        /\ q.done = Append(B.done, o)
  BY StopsOf
<1>2. PICK o \in Outcomes :
        /\ B \in Batching /\ B.at = "write"
        /\ req' = [req EXCEPT ![r] = q] /\ o.status = "failed"
        /\ q.op = B.op /\ q.list = B.list
        /\ q.before = B.before /\ q.items = <<>> /\ q.last = B.last
        /\ q.done = Append(B.done, o)
  BY <1>1
<1>3. UNCHANGED <<lists, rows, writer>>
  BY DEF BatchStops, bookVars
<1>4. PICK b \in Batching : b = B
  BY <1>2
<1>5. writer = r /\ Kinds(b) /\ Descending(b)
  BY <1>2, <1>4 DEF BatchInv
<1>6. q.done = Append(b.done, o) /\ q.before = b.before /\ q.op = b.op /\ q.last = b.last
  BY <1>2, <1>4
<1>7. /\ \A s \in {"inserted", "updated", "deleted"} : With(q, s) = With(b, s)
      /\ \A k \in 1 .. Len(b.done) : q.done[k] = b.done[k]
  <2>1. /\ With(q, o.status) = With(b, o.status) \cup {Len(b.done) + 1}
        /\ \A s : s # o.status => With(q, s) = With(b, s)
    BY <1>6, OneMore
  <2>2. \A k \in 1 .. Len(b.done) : q.done[k] = b.done[k]
    BY <1>6, OneMore
  <2> QED
    BY <1>2, <2>1, <2>2
<1>8. Accounted(q) = Accounted(b)
  BY <1>6, <1>7, AccountedSame
<1>9. Kinds(q)
  BY <1>5, <1>6, <1>7 DEF Kinds
<1>10. Descending(q)
  <2>1. \A k \in With(b, "deleted") : q.done[k] = b.done[k]
    BY <1>7, OutcomesOf
  <2>2. DOMAIN q.items = {}
    BY <1>2
  <2> QED
    BY <1>5, <1>6, <1>7, <2>1, <2>2 DEF Descending
<1>11. lists'[q.list].live => Listing(rows'[q.list]) = Accounted(q)
  <2>1. lists[B.list].live => Listing(rows[B.list]) = Accounted(b)
    BY <1>2, <1>4 DEF BatchInv
  <2> QED
    BY <1>2, <1>3, <1>8, <2>1
<1> QED
  BY <1>2, <1>3, <1>5, <1>9, <1>10, <1>11, Within

LEMMA BatchEndsAccounts ==
  ASSUME IInv, BatchInv, NEW r \in Requests, BatchEnds(r)
  PROVE  BatchInv'
<1>1. At(r, "write") /\ Done(r, "ok") /\ UNCHANGED <<lists, rows>>
  BY DEF BatchEnds
<1>2. writer = r
  BY <1>1 DEF BatchInv, At
<1>3. \E q : req' = [req EXCEPT ![r] = q] /\ q.at \in {"ok", "failed"}
  BY <1>1, Ended DEF Done
<1> QED
  BY <1>1, <1>2, <1>3, QuietAccounts

\* Campaigns and submissions leave lists and batches alone.
LEMMA DeskAccounts ==
  ASSUME IInv, BatchInv, NEW r \in Requests,
         \/ CampaignChecks(r) \/ CampaignStores(r) \/ DeleteCampaign(r)
         \/ Preflight(r) \/ QueueReads(r) \/ QueueCaptures(r) \/ QueueEnqueues(r)
         \/ Starts(r) \/ Settles(r)
  PROVE  BatchInv'
<1> DEFINE Ends == \E q : req' = [req EXCEPT ![r] = q] /\ q.at \notin {"merge", "write"}
<1>1. UNCHANGED bookVars
  BY DEF CampaignChecks, CampaignStores, DeleteCampaign, Preflight, QueueReads,
         QueueCaptures, QueueEnqueues, Starts, Settles
<1> SUFFICES Ends
  BY <1>1, QuietAccounts DEF bookVars
<1>2. ASSUME NEW at \in {"ok", "failed"}, Done(r, at) PROVE Ends
  BY <1>2, Ended DEF Done
<1>3. ASSUME NEW q, Arrives(r, q), q.at \notin {"merge", "write"} PROVE Ends
  BY <1>3 DEF Arrives
<1>4. CASE CampaignChecks(r)
  <2>1. PICK id, list, uses, at :
          /\ at \in {"store", "failed"}
          /\ Arrives(r, [op |-> "saveCampaign", id |-> id, list |-> list, uses |-> uses, at |-> at])
    BY <1>4 DEF CampaignChecks
  <2>2. PICK q : q = [op |-> "saveCampaign", id |-> id, list |-> list, uses |-> uses, at |-> at]
    OBVIOUS
  <2> QED
    BY <1>3, <2>1, <2>2
<1>5. CASE CampaignStores(r)
  BY <1>2, <1>5 DEF CampaignStores
<1>6. CASE DeleteCampaign(r)
  <2>1. PICK at \in {"ok", "failed"} : Arrives(r, [op |-> "deleteCampaign", at |-> at])
    BY <1>6 DEF DeleteCampaign
  <2> QED
    BY <2>1, Ended DEF Arrives
<1>7. CASE Preflight(r)
  <2>1. PICK q : Arrives(r, q) /\ q.at \in {"confirmed", "failed"}
    <3>1. PICK id \in CampaignIds :
            Arrives(r, IF Usable(campaigns[id].list)
                       THEN [op |-> "queue", at |-> "confirmed", id |-> id,
                             confirmed |-> Unresolved(campaigns[id].uses,
                                                      lists[campaigns[id].list].fields,
                                                      Listing(rows[campaigns[id].list]))]
                       ELSE [op |-> "queue", at |-> "failed"])
      BY <1>7 DEF Preflight
    <3>2. PICK known : known = Unresolved(campaigns[id].uses, lists[campaigns[id].list].fields,
                                          Listing(rows[campaigns[id].list]))
      OBVIOUS
    <3>3. PICK q : q = IF Usable(campaigns[id].list)
                       THEN [op |-> "queue", at |-> "confirmed", id |-> id, confirmed |-> known]
                       ELSE [op |-> "queue", at |-> "failed"]
      OBVIOUS
    <3>4. q.at \in {"confirmed", "failed"} /\ Arrives(r, q)
      BY <3>1, <3>2, <3>3
    <3> QED
      BY <3>4
  <2> QED
    BY <1>3, <2>1
<1>8. CASE QueueReads(r)
  <2>1. CASE Done(r, "failed")
    BY <1>2, <2>1
  <2>2. CASE ~Done(r, "failed")
    <3>1. PICK q : q = [op |-> "queue", at |-> "capture", id |-> req[r].id,
                        confirmed |-> req[r].confirmed, list |-> campaigns[req[r].id].list,
                        uses |-> campaigns[req[r].id].uses]
      OBVIOUS
    <3>2. q.at = "capture" /\ req' = [req EXCEPT ![r] = q]
      BY <1>8, <2>2, <3>1 DEF QueueReads
    <3> QED
      BY <3>2
  <2> QED
    BY <2>1, <2>2
<1>9. CASE QueueCaptures(r)
  <2>1. CASE Done(r, "failed")
    BY <1>2, <2>1
  <2>2. CASE ~Done(r, "failed")
    <3>1. PICK q : q = [op |-> "queue", at |-> "enqueue", id |-> req[r].id,
                        confirmed |-> req[r].confirmed, uses |-> req[r].uses,
                        list |-> req[r].list, fields |-> lists[req[r].list].fields,
                        entries |-> Listing(rows[req[r].list])]
      OBVIOUS
    <3>2. q.at = "enqueue" /\ req' = [req EXCEPT ![r] = q]
      BY <1>9, <2>2, <3>1 DEF QueueCaptures
    <3> QED
      BY <3>2
  <2> QED
    BY <2>1, <2>2
<1>10. ASSUME NEW at \in {"queued", "running"}, Goes(r, at), req[r] \in Captured
      PROVE  Ends
  <2>1. PICK q : q = [req[r] EXCEPT !.at = at]
    OBVIOUS
  <2>2. q.at = at /\ req' = [req EXCEPT ![r] = q]
    BY <1>10, <2>1 DEF Captured, Goes
  <2> QED
    BY <2>2
<1>11. CASE QueueEnqueues(r)
  <2>1. req[r] \in Captured
    BY <1>11, ShapeOf DEF QueueEnqueues, At, IInv
  <2> QED
    BY <1>2, <1>10, <1>11, <2>1 DEF QueueEnqueues
<1>12. CASE Starts(r)
  <2>1. req[r] \in Captured
    BY <1>12, ShapeOf DEF Starts, At, IInv
  <2> QED
    BY <1>2, <1>10, <1>12, <2>1 DEF Starts
<1>13. CASE Settles(r)
  BY <1>2, <1>13 DEF Settles
<1> QED
  BY <1>4, <1>5, <1>6, <1>7, <1>8, <1>9, <1>11, <1>12, <1>13

LEMMA NextAccounts ==
  ASSUME IInv, BatchInv, [Next]_vars
  PROVE  BatchInv'
<1>1. CASE UNCHANGED vars
  <2>1. UNCHANGED <<lists, rows, writer, req>>
    BY <1>1 DEF vars, bookVars
  <2> QED
    BY <2>1 DEF BatchInv
<1>2. ASSUME NEW r \in Requests, BookStep(r)
      PROVE  BatchInv'
  BY <1>2, SaveListAccounts, BatchStartsAccounts, BatchMergesAccounts, BatchWritesAccounts,
     BatchStopsAccounts, BatchEndsAccounts DEF BookStep
<1>3. ASSUME NEW r \in Requests, DeleteList(r, Referenced)
      PROVE  BatchInv'
  BY <1>3, DeleteListAccounts
<1>4. ASSUME NEW r \in Requests,
             \/ CampaignChecks(r) \/ CampaignStores(r) \/ DeleteCampaign(r)
             \/ Preflight(r) \/ QueueReads(r) \/ QueueCaptures(r) \/ QueueEnqueues(r)
             \/ Starts(r) \/ Settles(r)
      PROVE  BatchInv'
  BY <1>4, DeskAccounts
<1> QED
  BY <1>1, <1>2, <1>3, <1>4 DEF Next

\* Whatever else happens to the lists, the entries of the list a batch works on
\* are at every moment those it found, with exactly the insertions, updates and
\* deletions it has reported: no deletion takes the wrong entry because an
\* earlier one has renumbered the rest, for any batch of any length.
THEOREM BatchesAccountable == Spec => []BatchAccountable
<1>1. Init => BatchInv
  BY DEF Init, BookInit, BatchInv, Idle
<1>2. IInv /\ BatchInv /\ [Next]_vars => BatchInv'
  BY NextAccounts
<1>3. BatchInv => BatchAccountable
  BY DEF BatchInv, BatchAccountable
<1> QED
  BY <1>1, <1>2, <1>3, Invariance, PTL DEF Spec
=============================================================================
