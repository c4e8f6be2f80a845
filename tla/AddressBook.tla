---------------------------- MODULE AddressBook -----------------------------
(***************************************************************************)
(* Address lists, their field definitions and their numbered entries, as   *)
(* concurrent requests change them.  A batch of entry writes holds the     *)
(* entryWrites mutex, but each of its writes commits on its own, and       *)
(* neither saving nor deleting a list takes the mutex.                     *)
(***************************************************************************)
EXTENDS Naturals, Sequences, FiniteSets, SequencesExt

CONSTANTS Requests,     \* the HTTP requests of a run, each served once
          Nobody,       \* the author of a name that was there at the start
          MaxLists,     \* bound: ids the list table hands out
          Emails, Keys, \* addresses; keys of custom fields
          Labels,       \* what a field definition says of its key
          MaxFields,    \* MaxAddressListFields
          Batches,      \* bound: the batches that are tried, [op, fields, items]
          Definitions,  \* bound: the field definitions that are submitted
          Books         \* bound: the list there is at the start, [fields, entries]

ListIds == 1 .. MaxLists

\* An entry: its address and the custom fields that hold a value.
Entry == [email : Emails, filled : SUBSET Keys]

\* What a write brings: the entry, and the id it had when it was requested.
Item == [id : Nat, email : Emails, filled : SUBSET Keys]

\* The definitions of a list: what each of some keys is labelled.
Fields == UNION {[keys -> Labels] : keys \in SUBSET Keys}

ASSUME AddressBookAssumption ==
  /\ MaxLists \in Nat \ {0} /\ Nobody \notin Requests
  /\ Definitions \subseteq Fields
  /\ Batches \subseteq [op : {"insert", "update", "delete"}, fields : Fields, items : Seq(Item)]
  /\ \A b \in Batches : b.fields # <<>> => b.op = "insert"

\* A list as earlier requests can have left it.
ASSUME BooksAssumption ==
  \A book \in Books :
    /\ book.fields \in Fields /\ book.entries \in Seq(Entry)
    /\ \A i, j \in DOMAIN book.entries :
         book.entries[i].email = book.entries[j].email => i = j
    /\ \A i \in DOMAIN book.entries : book.entries[i].filled \subseteq DOMAIN book.fields

VARIABLES lists,     \* address_lists and address_list_fields, by id
          rows,      \* address_list_entries: id of the list -> set of rows
          nextList,  \* sqlite_sequence of address_lists (AUTOINCREMENT)
          writer,    \* who holds entryWrites
          req        \* what each request does, where it is, what it has read

bookVars == <<lists, rows, nextList, writer>>

NoList == [live |-> FALSE, name |-> Nobody, fields |-> <<>>]

Idle == [op |-> "none", at |-> "arrives"]

At(r, at) == req[r].at = at
Goes(r, at) == req' = [req EXCEPT ![r].at = at]
Done(r, at) == req' = [req EXCEPT ![r] = [op |-> @.op, at |-> at]]
Arrives(r, request) == At(r, "arrives") /\ req' = [req EXCEPT ![r] = request]

-----------------------------------------------------------------------------
(* Field definitions *)

\* normalizeAddressFieldDefinitions: the standard fields, which are left out
\* here, and a limited number of custom ones, each key once.
Normal(fields) == Cardinality(DOMAIN fields) <= MaxFields

\* mergeAddressFieldDefinitions: stored definitions win and come first, and a
\* stored key cannot be given another label.
Mergeable(stored, incoming) ==
  /\ Normal(incoming)
  /\ \A k \in DOMAIN stored \cap DOMAIN incoming : stored[k] = incoming[k]
  /\ Cardinality(DOMAIN stored \cup DOMAIN incoming) <= MaxFields

\* Mutant: saving a list replaces its definitions.
Replaced(stored, incoming) == incoming

Merged(stored, incoming) ==
  [k \in DOMAIN stored \cup DOMAIN incoming |->
     IF k \in DOMAIN stored THEN stored[k] ELSE incoming[k]]

-----------------------------------------------------------------------------
(* The rows of one list *)

\* The entries in the order of their ids, as readAddressEntries returns them.
Listing(table) ==
  [i \in 1 .. Cardinality(table) |->
     LET row == CHOOSE x \in table : Cardinality({y \in table : y.id < x.id}) = i - 1
     IN [email |-> row.email, filled |-> row.filled]]

RowOf(id, entry) == [id |-> id, email |-> entry.email, filled |-> entry.filled]

Numbered(entries) == {RowOf(i, entries[i]) : i \in DOMAIN entries}

\* DELETE, then the ids above it move down by one (staged as negative ids).
Compact(table, id) ==
  {IF row.id > id THEN [row EXCEPT !.id = @ - 1] ELSE row :
     row \in {x \in table : x.id # id}}

NextId(table) == IF table = {} THEN 1
                 ELSE 1 + CHOOSE m \in {x.id : x \in table} :
                            \A x \in table : x.id <= m

\* normalizeAddressFields: an entry only fills fields of its list.
Fitting(item, fields) == item.filled \subseteq DOMAIN fields

\* writeAddressEntry: the status of one write and the rows it leaves.
Status(op, table, live, defs, item) ==
  IF op # "insert" /\ ~\E x \in table : x.id = item.id THEN "not_found"
  ELSE IF op = "delete" THEN "deleted"
  ELSE IF ~Fitting(item, defs) THEN "invalid"
  ELSE IF \E x \in table : x.email = item.email /\ (op = "insert" \/ x.id # item.id)
    THEN "duplicate"
  ELSE IF op = "insert"
    THEN IF live THEN "inserted" ELSE "rejected"
    ELSE "updated"

WriteEntry(table, item, status) ==
  CASE status = "deleted"  -> Compact(table, item.id)
    [] status = "inserted" -> table \cup {RowOf(NextId(table), item)}
    [] status = "updated"  -> {x \in table : x.id # item.id} \cup {RowOf(item.id, item)}
    [] OTHER               -> table

-----------------------------------------------------------------------------
(* Saving and deleting a list *)

\* SaveAddressList of the list handler: one transaction.
SaveList(r) ==
  \E id \in 0 .. MaxLists, fields \in Definitions :
    LET target == IF id = 0 THEN nextList ELSE id
        valid  == /\ id = 0 => nextList <= MaxLists
                  /\ id > 0 => lists[id].live
                  /\ Mergeable(IF id = 0 THEN <<>> ELSE lists[id].fields, fields)
    IN /\ id = 0 => nextList <= MaxLists
       /\ Arrives(r, [op |-> "saveList", at |-> IF valid THEN "ok" ELSE "failed"])
       /\ IF valid
          THEN /\ lists' = [lists EXCEPT ![target] =
                     [live |-> TRUE, name |-> r, fields |-> Merged(@.fields, fields)]]
               /\ nextList' = nextList + (IF id = 0 THEN 1 ELSE 0)
          ELSE UNCHANGED <<lists, nextList>>
       /\ UNCHANGED <<rows, writer>>

\* DeleteAddressList: refused while "referenced" says a saved campaign uses
\* it; fields and entries cascade.
DeleteList(r, referenced) ==
  \E id \in ListIds :
    LET deleted == lists[id].live /\ id \notin referenced
    IN /\ Arrives(r, [op |-> "deleteList", at |-> IF deleted THEN "ok" ELSE "failed"])
       /\ lists' = [lists EXCEPT ![id] = IF deleted THEN NoList ELSE @]
       /\ rows'  = [rows EXCEPT ![id] = IF deleted THEN {} ELSE @]
       /\ UNCHANGED <<nextList, writer>>

-----------------------------------------------------------------------------
(* Batches of entry writes *)

\* The order of the writes: deletions run from the highest id down, those of
\* one id as they were requested.
Sooner(items, i) ==
  {j \in DOMAIN items : \/ items[j].id > items[i].id
                        \/ items[j].id = items[i].id /\ j < i}

Highest(items) ==
  [n \in DOMAIN items |->
     items[CHOOSE i \in DOMAIN items : Cardinality(Sooner(items, i)) = n - 1]]

\* Mutant: deletions run in the order of the request.
AsRequested(op, items) == items

Ordered(op, items) == IF op = "delete" THEN Highest(items) ELSE items

\* WriteAddressEntries takes the mutex and reads the list.  The definitions
\* an import brings are merged into those it has read.
BatchStarts(r) ==
  /\ writer = Nobody
  /\ \E id \in ListIds, b \in Batches :
       LET accepted == lists[id].live /\ Mergeable(lists[id].fields, b.fields)
       IN \/ /\ accepted
             /\ Arrives(r, [op |-> b.op, at |-> IF b.fields = <<>> THEN "write" ELSE "merge",
                            list |-> id, name |-> lists[id].name,
                            defs |-> Merged(lists[id].fields, b.fields),
                            items |-> Ordered(b.op, b.items), last |-> 0,
                            done |-> <<>>, before |-> Listing(rows[id])])
             /\ writer' = r
          \/ /\ ~accepted
             /\ Arrives(r, [op |-> b.op, at |-> "failed"])
             /\ UNCHANGED writer
  /\ UNCHANGED <<lists, rows, nextList>>

\* An import saves the list it has read: definitions are merged once more,
\* with the current ones; the name goes back to what it was when read.
BatchMerges(r) ==
  /\ At(r, "merge")
  /\ LET b == req[r]
         valid == lists[b.list].live /\ Mergeable(lists[b.list].fields, b.defs)
     IN IF valid
        THEN /\ lists' = [lists EXCEPT ![b.list].name = b.name,
                                       ![b.list].fields = Merged(@, b.defs)]
             /\ Goes(r, "write")
             /\ UNCHANGED writer
        ELSE /\ Done(r, "failed")
             /\ writer' = Nobody
             /\ UNCHANGED lists
  /\ UNCHANGED <<rows, nextList>>

\* One entry: a transaction of its own.  An id that was just deleted is not
\* looked up again, because it now numbers the next entry.
BatchWrites(r) ==
  /\ At(r, "write") /\ req[r].items # <<>>
  /\ LET b      == req[r]
         item   == Head(b.items)
         again  == b.op = "delete" /\ b.last > 0 /\ item.id = b.last
         status == IF again THEN "not_found"
                   ELSE Status(b.op, rows[b.list], lists[b.list].live, b.defs, item)
     IN /\ rows' = [rows EXCEPT ![b.list] = WriteEntry(@, item, status)]
        /\ req' = [req EXCEPT ![r].items = Tail(@),
                     ![r].last = IF status = "deleted" THEN item.id ELSE @,
                     ![r].done = Append(@, [item |-> item, status |-> status])]
  /\ UNCHANGED <<lists, nextList, writer>>

\* A storage error stops the batch: the rest is reported as not processed.
BatchStops(r) ==
  /\ At(r, "write") /\ req[r].items # <<>>
  /\ req' = [req EXCEPT ![r].items = <<>>,
               ![r].done = Append(@, [item |-> Head(req[r].items), status |-> "failed"])]
  /\ UNCHANGED bookVars

BatchEnds(r) ==
  /\ At(r, "write") /\ req[r].items = <<>>
  /\ Done(r, "ok")
  /\ writer' = Nobody
  /\ UNCHANGED <<lists, rows, nextList>>

BookInit ==
  /\ \E book \in Books :
       /\ rows = [l \in ListIds |-> IF l = 1 THEN Numbered(book.entries) ELSE {}]
       /\ lists = [l \in ListIds |->
                     IF l = 1 THEN [live |-> TRUE, name |-> Nobody, fields |-> book.fields]
                     ELSE NoList]
  /\ nextList = 2
  /\ writer = Nobody
  /\ req = [r \in Requests |-> Idle]

BookStep(r) ==
  \/ SaveList(r)
  \/ BatchStarts(r) \/ BatchMerges(r) \/ BatchWrites(r) \/ BatchStops(r) \/ BatchEnds(r)

-----------------------------------------------------------------------------
(* Properties *)

\* After every write of every batch the ids of a list are 1, 2, ... without a
\* gap, no address occurs twice, and no entry holds a field its list does not
\* define -- although definitions are read once per batch and may be saved by
\* someone else while it runs.
ListWellFormed ==
  \A l \in ListIds :
    /\ {x.id : x \in rows[l]} = 1 .. Cardinality(rows[l])
    /\ \A x, y \in rows[l] : x.email = y.email => x = y
    /\ \A x \in rows[l] : x.filled \subseteq DOMAIN lists[l].fields

\* A set of numbers, in order.
Ascending(S) ==
  [n \in 1 .. Cardinality(S) |-> CHOOSE i \in S : Cardinality({j \in S : j < i}) = n - 1]

\* What the outcomes of a batch say was done, done to the list it started on:
\* what is left of the entries there were, as last updated, then the new ones.
With(b, status) == {k \in DOMAIN b.done : b.done[k].status = status}
Wanted(b, k) == [email |-> b.done[k].item.email, filled |-> b.done[k].item.filled]

Accounted(b) ==
  LET updates(i) == {k \in With(b, "updated") : b.done[k].item.id = i}
      kept(i)    == IF updates(i) = {} THEN b.before[i] ELSE Wanted(b, Max(updates(i)))
      left       == Ascending(DOMAIN b.before \ {b.done[k].item.id : k \in With(b, "deleted")})
      new        == Ascending(With(b, "inserted"))
  IN [n \in DOMAIN left |-> kept(left[n])] \o [n \in DOMAIN new |-> Wanted(b, new[n])]

\* A batch acts on the entries that had the requested ids when it began: at
\* every moment the list is what it was then, with exactly the reported
\* insertions, updates and deletions, however a deletion renumbers the rest
\* and whatever other batches wait for their turn.
BatchAccountable ==
  \A r \in Requests : req[r].at = "write" /\ lists[req[r].list].live =>
    Listing(rows[req[r].list]) = Accounted(req[r])
=============================================================================
