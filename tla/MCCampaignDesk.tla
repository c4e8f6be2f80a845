--------------------------- MODULE MCCampaignDesk ---------------------------
(***************************************************************************)
(* Instance of CampaignDesk for TLC.                                       *)
(***************************************************************************)
EXTENDS CampaignDesk, TLC

CONSTANTS ann, bob, cid, k1, k2

ThreeEmails == {ann, bob, cid}
TwoKeys == {k1, k2}
TwoLabels == {"x", "y"}

\* No custom field, one, the same key with another label, another key.
SomeDefinitions == {<<>>, k1 :> "x", k1 :> "y", k2 :> "x"}

SomePlaceholders == {{}, {k1}}

\* A list with a custom field that one entry fills, and one without fields.
Has(email, filled) == [email |-> email, filled |-> filled]
SomeBooks ==
  {[fields |-> k1 :> "x", entries |-> <<Has(ann, {}), Has(bob, {k1}), Has(cid, {})>>],
   [fields |-> <<>>, entries |-> <<Has(ann, {})>>]}

Put(id, email, filled) == [id |-> id, email |-> email, filled |-> filled]
Ids(s) == [i \in DOMAIN s |-> Put(s[i], ann, {})]

\* Deletions in either order, of the same id twice, of an id that is missing;
\* updates that swap or duplicate addresses; inserts of new and known
\* addresses, with and without a field, alone or with its definition.
SomeBatches ==
  {[op |-> "delete", fields |-> <<>>, items |-> Ids(s)] :
     s \in {<<1, 2>>, <<3>>, <<1, 1>>}} \cup
  {[op |-> "update", fields |-> <<>>, items |-> <<Put(1, bob, {k1}), Put(2, ann, {}), Put(3, bob, {})>>],
   [op |-> "insert", fields |-> <<>>, items |-> <<Put(0, ann, {}), Put(0, bob, {k1})>>],
   [op |-> "insert", fields |-> k1 :> "x", items |-> <<Put(0, bob, {k1}), Put(0, ann, {})>>]}

\* The requests are interchangeable: no definition singles one out.
Symmetry == Permutations(Requests)
=============================================================================
