--------------------------- MODULE SenderProfiles ---------------------------
(***************************************************************************)
(* Sender profiles, their sealed credentials, the Google OAuth attempts    *)
(* and the tasks that hold a profile, as the concurrent HTTP requests see  *)
(* them.  The database has one connection, so a transaction is one step;   *)
(* everything a handler reads before its transaction may be stale when it  *)
(* commits, and that is what the module is about.                          *)
(***************************************************************************)
EXTENDS Naturals, FiniteSets

CONSTANTS Requests,     \* the HTTP requests of a run, each served once
          MaxProfiles,  \* bound: ids the profile table hands out
          Nobody        \* the writer of a row that was there at the start

ASSUME ProfilesAssumption == MaxProfiles \in Nat \ {0} /\ Nobody \notin Requests

Ids == 1 .. MaxProfiles

\* store.ProfileType; "none" is an id without a row.
Types == {"smtp", "app", "oauth"}

\* The two credential types of profile_credentials.
CredentialTypes == {"password", "token"}

\* A row as the requests tell it apart: its type and the request that wrote
\* it last.  A request writes at most once, so "by" is a version of the row.
\* "fresh" is a history field: that write was decided from the row it
\* replaced and not from an older one.
Row == [type : Types \cup {"none"}, by : Requests \cup {Nobody}, fresh : BOOLEAN]

NoRow == [type |-> "none", by |-> Nobody, fresh |-> TRUE]

Idle == [op |-> "none", at |-> "arrives", id |-> 0, type |-> "none",
         password |-> FALSE, state |-> Nobody, seen |-> NoRow]

VARIABLES profiles,   \* smtp_profiles: id -> row
          creds,      \* profile_credentials: id -> types stored
          nextID,     \* sqlite_sequence of smtp_profiles (AUTOINCREMENT)
          attempts,   \* Server.oauth: the pending attempts by state
          req         \* what each request does, where it is, what it has read

vars == <<profiles, creds, nextID, attempts, req>>

\* An attempt is keyed by its random state: here, the request that made it.
Attempt == [id : 0 .. MaxProfiles, state : Requests, expired : BOOLEAN]

Stages == {"arrives", "verify", "save", "answer", "mutable", "register", "exchange", "connect",
           "enqueue", "queued", "sending", "unsent", "settled", "probe", "ok", "failed"}

Request == [op : {"none", "save", "delete", "start", "callback", "submit", "test"}, at : Stages,
            id : 0 .. MaxProfiles, type : Types \cup {"none"}, password : BOOLEAN,
            state : Requests \cup {Nobody}, seen : Row]

TypeOK ==
  /\ profiles \in [Ids -> Row]
  /\ creds \in [Ids -> SUBSET CredentialTypes]
  /\ nextID \in 1 .. MaxProfiles + 1
  /\ attempts \subseteq Attempt
  /\ req \in [Requests -> Request]

\* What a profile of a type must have before it can send.
Backing(type) == CASE type = "app"   -> {"password"}
                   [] type = "oauth" -> {"token"}
                   [] OTHER          -> {}

\* One profile is saved and complete, the others are still to come.
Init ==
  /\ \E t \in Types, extra \in SUBSET {"password"} :
       /\ extra = {} \/ t = "smtp"
       /\ profiles = [i \in Ids |->
            IF i = 1 THEN [type |-> t, by |-> Nobody, fresh |-> TRUE] ELSE NoRow]
       /\ creds = [i \in Ids |-> IF i = 1 THEN Backing(t) \cup extra ELSE {}]
  /\ nextID = 2
  /\ attempts = {}
  /\ req = [r \in Requests |-> Idle]

-----------------------------------------------------------------------------

Exists(id) == id > 0 /\ profiles[id].type # "none"

\* Mutant: only a task that has been claimed holds its profile.
InUseByClaimed(id) ==
  \E r \in Requests : req[r].id = id /\ req[r].at \in {"sending", "unsent"}

\* ensureProfileMutable: the profile is held by the input of a live task.
InUse(id) ==
  \E r \in Requests : /\ req[r].id = id
                      /\ req[r].at \in {"queued", "sending", "unsent"}

\* A request moves on; once answered, it forgets what it had read.
Done(r, at) == [Idle EXCEPT !.op = req[r].op, !.state = req[r].state, !.at = at]

Goes(r, at) ==
  req' = [req EXCEPT ![r] = IF at \in {"ok", "failed", "settled"} THEN Done(r, at)
                            ELSE [@ EXCEPT !.at = at]]

\* A request arrives; one that is refused at once has read nothing.
Arrives(r, request) ==
  /\ req[r].at = "arrives"
  /\ req' = [req EXCEPT ![r] = IF request.at \in {"ok", "failed"}
                              THEN [Idle EXCEPT !.op = request.op, !.at = request.at,
                                                !.state = request.state]
                              ELSE request]

Rows == <<profiles, creds, nextID>>

\* A request in flight is refused: invalid input, a storage error, a client
\* that went away, a provider that did not answer or not as it should.
Fails(r) ==
  /\ req[r].at \in {"verify", "save", "answer", "mutable", "register",
                    "exchange", "connect", "enqueue", "probe"}
  /\ Goes(r, "failed")
  /\ UNCHANGED <<Rows, attempts>>

-----------------------------------------------------------------------------
(* Saving and deleting a profile *)

\* Mutant: a profile may be switched to Gmail OAuth without a sign-in.
AcceptableUnconnected(id, type, password) ==
  /\ id > 0 => Exists(id)
  /\ type = "oauth" => ~password /\ id > 0

\* The rules saveSMTPProfile applies to the row it has read.
Acceptable(id, type, password) ==
  /\ id > 0 => Exists(id)
  /\ type = "oauth" => /\ ~password
                       /\ id > 0
                       /\ profiles[id].type = "oauth"
                       /\ "token" \in creds[id]

SeenRow(id) == IF id > 0 THEN profiles[id] ELSE NoRow

\* saveSMTPProfile up to the password: it reads the row it will replace.
SaveReads(r) ==
  /\ \E id \in 0 .. MaxProfiles, type \in Types, password \in BOOLEAN :
       Arrives(r, [op |-> "save", id |-> id, type |-> type, password |-> password,
                   state |-> Nobody, seen |-> SeenRow(id),
                   at |-> IF ~Acceptable(id, type, password) THEN "failed"
                          ELSE IF type = "app" THEN "verify" ELSE "save"])
  /\ UNCHANGED <<Rows, attempts>>

\* Gmail App Password: the effective password is the new one or the stored
\* one, read now, and the connection test has passed.
SaveVerifies(r) ==
  /\ req[r].at = "verify"
  /\ Goes(r, IF \/ req[r].password
                \/ /\ req[r].id > 0
                   /\ req[r].seen.type = "app"
                   /\ "password" \in creds[req[r].id]
             THEN "save" ELSE "failed")
  /\ UNCHANGED <<Rows, attempts>>

\* The credentials a save writes, and those it deletes, decided from "seen".
Changed(r) ==
  IF req[r].op = "callback" THEN {"token"} ELSE {c \in {"password"} : req[r].password}

\* Mutant: only the credential of the type that was read is dropped.
DeletedIfSeen(r) ==
  IF req[r].type = "oauth" THEN {"password"}
  ELSE IF req[r].seen.type = "oauth" THEN {"token"} ELSE {}

Deleted(r) ==
  IF req[r].type = "oauth" THEN {"password"}
  ELSE {"token"} \cup
       (IF req[r].id > 0 /\ req[r].seen.type # req[r].type /\ ~req[r].password
        THEN {"password"} ELSE {})

\* Is the row a write replaces the one it was decided from?
Decided(r, id) == req[r].id = 0 \/ profiles[id].by = req[r].seen.by

Written(r, id) ==
  /\ profiles' = [profiles EXCEPT ![id] =
                    [type |-> req[r].type, by |-> r, fresh |-> Decided(r, id)]]
  /\ creds' = [creds EXCEPT ![id] = (@ \cup Changed(r)) \ Deleted(r)]

\* Mutant: the row is written whether or not the id still has one.
UpsertProfile(r) ==
  IF req[r].id = 0 THEN
    /\ nextID <= MaxProfiles
    /\ Written(r, nextID)
    /\ nextID' = nextID + 1
    /\ req' = [req EXCEPT ![r].at = "answer", ![r].id = nextID]
  ELSE IF InUse(req[r].id) THEN Goes(r, "failed") /\ UNCHANGED Rows
  ELSE Written(r, req[r].id) /\ Goes(r, "answer") /\ UNCHANGED nextID

\* SaveSMTPProfileWithCredentialChanges: one transaction.  The UPDATE of an
\* id without a row touches nothing and is no error; a credential for such
\* an id breaks the foreign key and rolls everything back.
SaveWithCredentials(r) ==
  LET id == req[r].id IN
  \/ /\ id = 0
     /\ nextID <= MaxProfiles
     /\ Written(r, nextID)
     /\ nextID' = nextID + 1
     /\ req' = [req EXCEPT ![r].at = "answer", ![r].id = nextID]
  \/ /\ id > 0 /\ ~InUse(id) /\ Exists(id)
     /\ Written(r, id)
     /\ Goes(r, "answer")
     /\ UNCHANGED nextID
  \/ /\ id > 0 /\ (InUse(id) \/ ~Exists(id))
     /\ Goes(r, IF InUse(id) \/ Changed(r) # {} THEN "failed" ELSE "answer")
     /\ UNCHANGED Rows

SaveCommits(r) ==
  /\ req[r].op = "save" /\ req[r].at = "save"
  /\ SaveWithCredentials(r)
  /\ UNCHANGED attempts

\* The saved row is read again for the answer, outside the transaction.
Answers(r) ==
  /\ req[r].at = "answer"
  /\ Goes(r, IF Exists(req[r].id) THEN "ok" ELSE "failed")
  /\ UNCHANGED <<Rows, attempts>>

\* DeleteSMTPProfile: one transaction; the credentials cascade.
Delete(r) ==
  /\ \E id \in Ids :
       /\ Arrives(r, [Idle EXCEPT !.op = "delete",
                        !.at = IF InUse(id) THEN "failed" ELSE "ok"])
       /\ IF InUse(id) THEN UNCHANGED <<profiles, creds>>
          ELSE /\ profiles' = [profiles EXCEPT ![id] = NoRow]
               /\ creds' = [creds EXCEPT ![id] = {}]
  /\ UNCHANGED <<nextID, attempts>>

-----------------------------------------------------------------------------
(* Connecting a Google account *)

\* handleGoogleOAuthStart: the profile exists ...
StartChecks(r) ==
  /\ \E id \in 0 .. MaxProfiles :
       Arrives(r, [Idle EXCEPT !.op = "start", !.id = id,
                     !.at = IF id = 0 THEN "register"
                            ELSE IF Exists(id) THEN "mutable" ELSE "failed"])
  /\ UNCHANGED <<Rows, attempts>>

\* ... and no task holds it, asked separately ...
StartMutable(r) ==
  /\ req[r].at = "mutable"
  /\ Goes(r, IF InUse(req[r].id) THEN "failed" ELSE "register")
  /\ UNCHANGED <<Rows, attempts>>

\* ... then the attempt replaces expired ones and the profile's older one.
StartRegisters(r) ==
  /\ req[r].at = "register"
  /\ attempts' = {a \in attempts : ~a.expired /\ a.id # req[r].id}
                   \cup {[id |-> req[r].id, state |-> r, expired |-> FALSE]}
  /\ Goes(r, "ok")
  /\ UNCHANGED Rows

\* Five minutes have passed since the attempt was registered.
Expires ==
  \E a \in attempts :
    /\ ~a.expired
    /\ attempts' = (attempts \ {a}) \cup {[a EXCEPT !.expired = TRUE]}
    /\ UNCHANGED <<Rows, req>>

\* Mutant: the attempt stays registered until it expires.
CallbackPeeks(r) ==
  /\ \E state \in Requests :
       Arrives(r, [Idle EXCEPT !.op = "callback", !.state = state, !.type = "oauth",
                     !.at = IF \E a \in attempts : a.state = state
                            THEN "exchange" ELSE "failed"])
  /\ UNCHANGED <<Rows, attempts>>

\* handleGoogleOAuthCallback takes the attempt of the state it was given.
CallbackTakes(r) ==
  /\ \E state \in Requests :
       LET found == {a \in attempts : a.state = state}
           live  == {a \in found : ~a.expired}
       IN /\ attempts' = attempts \ found
          /\ \/ /\ live = {}
                /\ Arrives(r, [Idle EXCEPT !.op = "callback", !.state = state,
                                           !.at = "failed"])
             \/ \E a \in live :
                  Arrives(r, [Idle EXCEPT !.op = "callback", !.state = state,
                                !.type = "oauth", !.id = a.id, !.at = "exchange"])
  /\ UNCHANGED Rows

\* Google has answered with a refresh token, the send scope and an identity:
\* googleOAuthProfile reads the row, or starts a new one.
CallbackReads(r) ==
  /\ req[r].at = "exchange"
  /\ LET id == req[r].id IN
     IF id > 0 /\ ~Exists(id) THEN Goes(r, "failed")
     ELSE req' = [req EXCEPT ![r].seen = SeenRow(id), ![r].at = "connect"]
  /\ UNCHANGED <<Rows, attempts>>

CallbackCommits(r) ==
  /\ req[r].at = "connect"
  /\ SaveWithCredentials(r)
  /\ UNCHANGED attempts

-----------------------------------------------------------------------------
(* Building a sender *)

\* DeliveryService.Profile: QueueCampaign and TestProfile read the row.
ProfileReads(r) ==
  /\ \E id \in Ids, op \in {"submit", "test"} :
       Arrives(r, [Idle EXCEPT !.op = op, !.id = id, !.seen = profiles[id],
                     !.at = IF ~Exists(id) THEN "failed"
                            ELSE IF op = "submit" THEN "enqueue" ELSE "probe"])
  /\ UNCHANGED <<Rows, attempts>>

\* Was the row that a submission has read decided from the one before it, and
\* is it still the row of the profile?
Current(r) == req[r].seen.fresh /\ profiles[req[r].id].by = req[r].seen.by

\* EnqueueTask: the input row references the profile, which must still exist.
\* From here on "fresh" of the snapshot says that it was the current row.
Enqueues(r) ==
  /\ req[r].at = "enqueue"
  /\ IF ~Exists(req[r].id) THEN Goes(r, "failed")
     ELSE req' = [req EXCEPT ![r].at = "queued", ![r].seen.fresh = Current(r)]
  /\ UNCHANGED <<Rows, attempts>>

\* SenderForProfile: the stored credential of the type the snapshot names.
SenderFound(r) == Backing(req[r].seen.type) \subseteq creds[req[r].id]

SenderForTask(r) ==
  /\ req[r].at = "queued"
  /\ Goes(r, IF SenderFound(r) THEN "sending" ELSE "unsent")
  /\ UNCHANGED <<Rows, attempts>>

\* The task has ended, or was cancelled while queued: its input is removed.
Settles(r) ==
  /\ req[r].at \in {"queued", "sending", "unsent"}
  /\ Goes(r, "settled")
  /\ UNCHANGED <<Rows, attempts>>

\* handleSMTPTest builds a sender without holding the profile.
Probes(r) ==
  /\ req[r].at = "probe"
  /\ Goes(r, IF SenderFound(r) THEN "ok" ELSE "failed")
  /\ UNCHANGED <<Rows, attempts>>

Next ==
  \/ Expires
  \/ \E r \in Requests :
       \/ Fails(r)
       \/ SaveReads(r) \/ SaveVerifies(r) \/ SaveCommits(r) \/ Answers(r)
       \/ Delete(r)
       \/ StartChecks(r) \/ StartMutable(r) \/ StartRegisters(r)
       \/ CallbackTakes(r) \/ CallbackReads(r) \/ CallbackCommits(r)
       \/ ProfileReads(r) \/ Enqueues(r) \/ SenderForTask(r) \/ Settles(r)
       \/ Probes(r)

Spec == Init /\ [][Next]_vars

-----------------------------------------------------------------------------
(* Properties *)

\* Whatever the requests interleave, and whatever each had read before its
\* transaction, a profile never keeps a credential of the other sign-in: no
\* refresh token outside Gmail OAuth, no SMTP password on a Gmail OAuth
\* profile, and nothing at all for an id without a profile.
CredentialsFitType ==
  \A i \in Ids : creds[i] \subseteq
    CASE profiles[i].type = "none"  -> {}
      [] profiles[i].type = "oauth" -> {"token"}
      [] OTHER                      -> {"password"}

\* A save decided from the row it replaces leaves a profile that can send: an
\* App Password profile has its password, a Gmail OAuth profile its token.
\* Only a save that lost a race with another one may break that (the row it
\* had read was replaced before it committed).
BackedUnlessRaced ==
  \A i \in Ids : profiles[i].fresh => Backing(profiles[i].type) \subseteq creds[i]

\* An OAuth attempt is consumed by one callback at most, however often the
\* browser repeats it, and a profile has at most one pending attempt, so that
\* an older sign-in window cannot replace the account of a newer one.
AttemptOnce ==
  /\ \A r, q \in Requests :
       /\ req[r].op = "callback" /\ req[q].op = "callback"
       /\ req[r].state = req[q].state
       /\ req[r].at \in {"exchange", "connect", "answer", "ok"}
       /\ req[q].at \in {"exchange", "connect", "answer", "ok"}
       => r = q
  /\ \A a, b \in attempts : a.id = b.id => a = b

\* A task that was admitted with the profile it had read finds the credential
\* of its snapshot when it runs, whatever is edited, connected or deleted in
\* the meantime.  It may only fail when the profile was replaced between
\* reading and queueing, or was already incomplete.
AdmittedCanSend ==
  \A r \in Requests : req[r].at = "unsent" => ~req[r].seen.fresh

\* A deleted profile stays deleted: no save or sign-in that had read it before
\* brings the row or a credential of it back, and its id is not handed out
\* again, so that no late write reaches another profile.
DeletedStaysDeleted ==
  [][\A i \in Ids : (i < nextID /\ profiles[i].type = "none") =>
       profiles'[i].type = "none" /\ creds'[i] = {}]_vars
=============================================================================
