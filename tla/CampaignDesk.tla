---------------------------- MODULE CampaignDesk ----------------------------
(***************************************************************************)
(* Saved campaigns, preflight and the submission of a campaign, beside the *)
(* requests that edit the address lists they use.  A submission reads the  *)
(* campaign, then its list, then queues a snapshot; what the operator      *)
(* confirmed was computed earlier, by a preflight of its own.              *)
(***************************************************************************)
EXTENDS AddressBook

CONSTANTS MaxCampaigns, \* bound: ids the campaign table hands out
          Placeholders, \* bound: the sets of keys a message may use
          MaxEntries,   \* settings.MaxCampaignAddressEntries
          MaxQueued     \* tasks.max_queued

ASSUME CampaignDeskAssumption ==
  MaxCampaigns \in Nat \ {0} /\ Placeholders \subseteq SUBSET Keys

CampaignIds == 1 .. MaxCampaigns

VARIABLES campaigns,    \* campaigns: id -> row
          nextCampaign  \* sqlite_sequence of campaigns

deskVars == <<campaigns, nextCampaign>>
vars == <<bookVars, deskVars, req>>

NoCampaign == [live |-> FALSE, list |-> 0, uses |-> {}]

Referenced == {campaigns[c].list : c \in {d \in CampaignIds : campaigns[d].live}}

\* Tasks that are not in a terminal status, and those that still wait.
Active(r) == req[r].op = "queue" /\ req[r].at \in {"queued", "running"}
Queued == {r \in Requests : req[r].op = "queue" /\ req[r].at = "queued"}

-----------------------------------------------------------------------------
(* Placeholders a run cannot fill *)

NeverPopulated(key, entries) == \A i \in DOMAIN entries : key \notin entries[i].filled

\* validatePreparedCampaign: a used key the list does not define, or that no
\* entry populates, with its reason.
Unresolved(uses, fields, entries) ==
  {<<k, "missing_field">> : k \in uses \ DOMAIN fields} \cup
  {<<k, "never_populated">> :
     k \in {u \in uses \cap DOMAIN fields : NeverPopulated(u, entries)}}

\* loadAddressList: a list that exists and has entries ...
Loads(list) == list > 0 /\ lists[list].live /\ rows[list] # {}

\* ... and validateCampaignRuntime: not too many of them.
Usable(list) == Loads(list) /\ Cardinality(rows[list]) <= MaxEntries

-----------------------------------------------------------------------------
(* Saving and deleting a campaign *)

\* CampaignService.SaveCampaign checks that the list exists ...
CampaignChecks(r) ==
  /\ \E id \in 0 .. MaxCampaigns, list \in ListIds, uses \in Placeholders :
       Arrives(r, [op |-> "saveCampaign", id |-> id, list |-> list, uses |-> uses,
                   at |-> IF lists[list].live THEN "store" ELSE "failed"])
  /\ UNCHANGED <<bookVars, deskVars>>

\* Mutant: the row is written without the foreign key on the list.
CampaignStoresAnyList(r) ==
  /\ At(r, "store")
  /\ LET c == req[r]
         id == IF c.id = 0 THEN nextCampaign ELSE c.id
     IN /\ id <= MaxCampaigns
        /\ campaigns' = [campaigns EXCEPT ![id] =
                           [live |-> TRUE, list |-> c.list, uses |-> c.uses]]
        /\ nextCampaign' = nextCampaign + (IF c.id = 0 THEN 1 ELSE 0)
  /\ Done(r, "ok")
  /\ UNCHANGED bookVars

\* ... and Store.SaveCampaign writes the row in one transaction, where the
\* list must still exist (foreign key) and an updated row must be found.
CampaignStores(r) ==
  /\ At(r, "store")
  /\ LET c     == req[r]
         id    == IF c.id = 0 THEN nextCampaign ELSE c.id
         valid == lists[c.list].live /\ (c.id > 0 => campaigns[c.id].live)
     IN /\ id <= MaxCampaigns
        /\ IF valid
           THEN /\ campaigns' = [campaigns EXCEPT ![id] =
                                   [live |-> TRUE, list |-> c.list, uses |-> c.uses]]
                /\ nextCampaign' = nextCampaign + (IF c.id = 0 THEN 1 ELSE 0)
                /\ Done(r, "ok")
           ELSE Done(r, "failed") /\ UNCHANGED deskVars
  /\ UNCHANGED bookVars

\* Store.DeleteCampaign: refused while a task of it is not terminal.
DeleteCampaign(r) ==
  /\ \E id \in CampaignIds :
       LET deleted == /\ campaigns[id].live
                      /\ ~\E q \in Requests : Active(q) /\ req[q].id = id
       IN /\ Arrives(r, [op |-> "deleteCampaign", at |-> IF deleted THEN "ok" ELSE "failed"])
          /\ campaigns' = [campaigns EXCEPT ![id] = IF deleted THEN NoCampaign ELSE @]
  /\ UNCHANGED <<bookVars, nextCampaign>>

-----------------------------------------------------------------------------
(* Preflight, confirmation and submission *)

\* Preflight: the operator is shown the unresolved placeholders of the
\* campaign as it is in the editor and of the list as it is now, and
\* confirms them.
Preflight(r) ==
  /\ \E id \in CampaignIds :
       LET c == campaigns[id]
       IN /\ c.live
          /\ Arrives(r, IF Usable(c.list)
                        THEN [op |-> "queue", at |-> "confirmed", id |-> id,
                              confirmed |-> Unresolved(c.uses, lists[c.list].fields,
                                                       Listing(rows[c.list]))]
                        ELSE [op |-> "queue", at |-> "failed"])
  /\ UNCHANGED <<bookVars, deskVars>>

\* QueueCampaign: loadSavedCampaign.
QueueReads(r) ==
  /\ At(r, "confirmed")
  /\ LET c == campaigns[req[r].id]
     IN IF c.live
        THEN req' = [req EXCEPT ![r] =
               [op |-> "queue", at |-> "capture", id |-> @.id, confirmed |-> @.confirmed,
                list |-> c.list, uses |-> c.uses]]
        ELSE Done(r, "failed")
  /\ UNCHANGED <<bookVars, deskVars>>

\* captureCampaignSnapshot: the list and its entries, in one transaction.
QueueCaptures(r) ==
  /\ At(r, "capture")
  /\ LET q == req[r]
     IN IF Usable(q.list)
        THEN req' = [req EXCEPT ![r] =
               [op |-> "queue", at |-> "enqueue", id |-> q.id, confirmed |-> q.confirmed,
                uses |-> q.uses, list |-> q.list, fields |-> lists[q.list].fields,
                entries |-> Listing(rows[q.list])]]
        ELSE Done(r, "failed")
  /\ UNCHANGED <<bookVars, deskVars>>

\* EnqueueTask: the queue is not full, and the task row references a campaign
\* that still exists.
QueueEnqueues(r) ==
  /\ At(r, "enqueue")
  /\ IF Cardinality(Queued) < MaxQueued /\ campaigns[req[r].id].live
     THEN Goes(r, "queued")
     ELSE Done(r, "failed")
  /\ UNCHANGED <<bookVars, deskVars>>

\* Mutant: the confirmation is not compared when the task runs.
StartsUnchecked(r) ==
  /\ At(r, "queued") /\ Goes(r, "running") /\ UNCHANGED <<bookVars, deskVars>>

\* validateCampaignTaskSnapshot, confirmationMatches: what was confirmed must
\* be what is unresolved in the snapshot.
ConfirmationMatches(q) == Unresolved(q.uses, q.fields, q.entries) = q.confirmed

\* ExecuteCampaignTask validates the snapshot again.
Starts(r) ==
  /\ At(r, "queued")
  /\ IF ConfirmationMatches(req[r]) THEN Goes(r, "running") ELSE Done(r, "failed")
  /\ UNCHANGED <<bookVars, deskVars>>

\* The task ends, or is cancelled while it waits.
Settles(r) ==
  /\ Active(r) /\ Done(r, "ok")
  /\ UNCHANGED <<bookVars, deskVars>>

Init ==
  /\ BookInit
  /\ \E uses \in Placeholders :
       campaigns = [c \in CampaignIds |->
                      IF c = 1 THEN [live |-> TRUE, list |-> 1, uses |-> uses] ELSE NoCampaign]
  /\ nextCampaign = 2

Next ==
  \E r \in Requests :
    \/ BookStep(r) /\ UNCHANGED deskVars
    \/ DeleteList(r, Referenced) /\ UNCHANGED deskVars
    \/ CampaignChecks(r) \/ CampaignStores(r) \/ DeleteCampaign(r)
    \/ Preflight(r) \/ QueueReads(r) \/ QueueCaptures(r) \/ QueueEnqueues(r)
    \/ Starts(r) \/ Settles(r)

Spec == Init /\ [][Next]_vars

-----------------------------------------------------------------------------
(* Properties *)

\* A saved campaign's list exists, and so does the campaign of every task that
\* is not over, although each was checked before the transaction that relies
\* on it and may have been deleted since.
ReferencesHold ==
  /\ \A c \in CampaignIds : campaigns[c].live => lists[campaigns[c].list].live
  /\ \A r \in Requests : Active(r) => campaigns[req[r].id].live

\* No run starts with a placeholder that every entry of its list leaves unfilled
\* and the operator has not confirmed, whatever was edited between the preflight,
\* the reading of the campaign, the reading of its list and the start of the task.
NothingUnconfirmed ==
  \A r \in Requests : req[r].op = "queue" /\ At(r, "running") =>
    \A k \in req[r].uses :
      \/ \E i \in DOMAIN req[r].entries : k \in req[r].entries[i].filled
      \/ \E reason \in {"missing_field", "never_populated"} : <<k, reason>> \in req[r].confirmed
=============================================================================
