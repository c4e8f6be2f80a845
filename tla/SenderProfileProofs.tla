------------------------ MODULE SenderProfileProofs ------------------------
(***************************************************************************)
(* Proofs about SenderProfiles for any number of requests and profiles.    *)
(***************************************************************************)
EXTENDS SenderProfiles, TLAPS

Answered == {"ok", "failed", "settled"}

\* What a request on its way has accepted.
StageOK(x) ==
  /\ x.at \in {"verify", "save"} => x.op = "save" /\ x.type \in Types
  /\ x.at = "verify" => x.type = "app"
  /\ x.at \in {"mutable", "register"} => x.op = "start"
  /\ x.at = "probe" => x.op = "test"
  /\ x.at \in {"exchange", "connect"} => x.op = "callback" /\ x.type = "oauth"

\* An id with a row has been handed out.
HandedOut == \A i \in Ids : profiles[i].type # "none" => i < nextID

Basics == TypeOK /\ (\A r \in Requests : StageOK(req[r])) /\ HandedOut

-----------------------------------------------------------------------------
(* The shape of a step *)

\* A request that is not answered yet moves on, alone.
Moves(r) ==
  /\ req[r].at \notin Answered
  /\ req' = [req EXCEPT ![r] = req'[r]]
  /\ req'[r] \in Request /\ StageOK(req'[r])

\* The steps of a request that leave the rows alone.
Looks(r) ==
  \/ Fails(r) \/ SaveReads(r) \/ SaveVerifies(r) \/ Answers(r)
  \/ StartChecks(r) \/ StartMutable(r) \/ StartRegisters(r) \/ CallbackTakes(r) \/ CallbackReads(r)
  \/ ProfileReads(r) \/ Enqueues(r) \/ SenderForTask(r) \/ Settles(r) \/ Probes(r)

Commits(r) == SaveCommits(r) \/ CallbackCommits(r)

USE DEF Rows, vars

LEMMA IdleTyped == Idle \in Request /\ NoRow \in Row
<1>1. NoRow \in Row
  BY Zenon DEF NoRow, Row
<1>2. 0 \in 0 .. MaxProfiles
  BY ProfilesAssumption
<1>3. Idle \in Request
  BY <1>1, <1>2, Zenon DEF Idle, Request, Stages
<1> QED
  BY <1>1, <1>3

LEMMA DoneTyped ==
  ASSUME TypeOK, NEW r \in Requests, NEW at \in Answered
  PROVE  Done(r, at) \in Request /\ StageOK(Done(r, at)) /\ Done(r, at).at = at
<1>1. req[r] \in Request /\ at \in Stages
  BY DEF TypeOK, Answered, Stages
<1>2. Done(r, at) \in Request
  BY <1>1, IdleTyped DEF Done, Request
<1>3. Done(r, at).at = at
  BY DEF Done, Idle
<1> QED
  BY <1>2, <1>3 DEF StageOK, Answered

LEMMA GoesMoves ==
  ASSUME TypeOK, NEW r \in Requests, NEW at \in Stages, Goes(r, at), req[r].at \notin Answered,
         StageOK([req[r] EXCEPT !.at = at])
  PROVE  Moves(r) /\ req'[r].at = at
<1>1. CASE at \in Answered
  BY <1>1, DoneTyped DEF Goes, Moves, TypeOK, Answered
<1>2. CASE at \notin Answered
  BY <1>2 DEF Goes, Moves, TypeOK, Answered, Request
<1> QED
  BY <1>1, <1>2

LEMMA ArrivesMoves ==
  ASSUME TypeOK, NEW r \in Requests, NEW x \in Request, Arrives(r, x), StageOK(x)
  PROVE  Moves(r)
<1>1. [Idle EXCEPT !.op = x.op, !.at = x.at, !.state = x.state] \in Request
  BY IdleTyped DEF Request, Idle
<1>2. x.at \in {"ok", "failed"} => StageOK([Idle EXCEPT !.op = x.op, !.at = x.at, !.state = x.state])
  BY DEF StageOK, Idle
<1> QED
  BY <1>1, <1>2 DEF Arrives, Moves, TypeOK, Answered

LEMMA SeenRowTyped ==
  ASSUME TypeOK, NEW id \in 0 .. MaxProfiles
  PROVE  SeenRow(id) \in Row
BY IdleTyped DEF SeenRow, TypeOK, Ids

LEMMA LooksMoves ==
  ASSUME TypeOK, NEW r \in Requests, StageOK(req[r]), Looks(r)
  PROVE  Moves(r) /\ UNCHANGED Rows /\ attempts' \in SUBSET Attempt
<1> USE DEF Looks
<1>1. UNCHANGED Rows
  BY Zenon DEF Fails, SaveReads, SaveVerifies, Answers, StartChecks, StartMutable, StartRegisters,
         CallbackTakes, CallbackReads, ProfileReads, Enqueues, SenderForTask, Settles, Probes
<1>2. attempts' \in SUBSET Attempt
  <2>1. CASE StartRegisters(r)
    <3>1. [id |-> req[r].id, state |-> r, expired |-> FALSE] \in Attempt
      BY Zenon DEF TypeOK, Attempt, Request
    <3> QED
      BY <2>1, <3>1 DEF StartRegisters, TypeOK
  <2>2. CASE CallbackTakes(r)
    BY <2>2 DEF CallbackTakes, TypeOK
  <2>3. CASE ~StartRegisters(r) /\ ~CallbackTakes(r)
    BY <2>3 DEF TypeOK, Fails, SaveReads, SaveVerifies, Answers, StartChecks, StartMutable,
                CallbackReads, ProfileReads, Enqueues, SenderForTask, Settles, Probes
  <2> QED
    BY <2>1, <2>2, <2>3
<1>3. Moves(r)
  <2> USE DEF Stages
  <2>1. CASE Fails(r)
    BY <2>1, GoesMoves DEF Fails, Answered, StageOK
  <2>2. CASE SaveReads(r)
    <3>1. PICK id \in 0 .. MaxProfiles, type \in Types, password \in BOOLEAN :
            Arrives(r, [op |-> "save", id |-> id, type |-> type, password |-> password,
                   state |-> Nobody, seen |-> SeenRow(id),
                   at |-> IF ~Acceptable(id, type, password) THEN "failed"
                          ELSE IF type = "app" THEN "verify" ELSE "save"])
      BY <2>2 DEF SaveReads
    <3> DEFINE at == IF ~Acceptable(id, type, password) THEN "failed"
                     ELSE IF type = "app" THEN "verify" ELSE "save"
    <3>2. at \in {"failed", "verify", "save"} /\ (at = "verify" => type = "app")
      OBVIOUS
    <3> HIDE DEF at
    <3> DEFINE x == [op |-> "save", id |-> id, type |-> type, password |-> password,
                     state |-> Nobody, seen |-> SeenRow(id), at |-> at]
    <3>3. x \in Request
      BY <3>2, SeenRowTyped, Zenon DEF Request
    <3>4. StageOK(x)
      BY <3>2 DEF StageOK
    <3>5. Arrives(r, x)
      BY <3>1 DEF at
    <3> HIDE DEF x
    <3> QED
      BY <3>3, <3>4, <3>5, ArrivesMoves
  <2>3. CASE SaveVerifies(r)
    BY <2>3, GoesMoves DEF SaveVerifies, Answered, StageOK
  <2>4. CASE Answers(r)
    BY <2>4, GoesMoves DEF Answers, Answered, StageOK
  <2>5. CASE StartChecks(r)
    <3>1. PICK id \in 0 .. MaxProfiles :
            Arrives(r, [Idle EXCEPT !.op = "start", !.id = id,
                          !.at = IF id = 0 THEN "register"
                                 ELSE IF Exists(id) THEN "mutable" ELSE "failed"])
      BY <2>5 DEF StartChecks
    <3> DEFINE at == IF id = 0 THEN "register" ELSE IF Exists(id) THEN "mutable" ELSE "failed"
    <3>2. at \in {"register", "mutable", "failed"}
      OBVIOUS
    <3> HIDE DEF at
    <3>3. [Idle EXCEPT !.op = "start", !.id = id, !.at = at] \in Request
      BY <3>2, IdleTyped DEF Request
    <3>4. /\ [Idle EXCEPT !.op = "start", !.id = id, !.at = at].at = at
          /\ [Idle EXCEPT !.op = "start", !.id = id, !.at = at].op = "start"
      BY DEF Idle
    <3> QED
      BY <3>1, <3>2, <3>3, <3>4, ArrivesMoves DEF at, StageOK
  <2>6. CASE StartMutable(r)
    BY <2>6, GoesMoves DEF StartMutable, Answered, StageOK
  <2>7. CASE StartRegisters(r)
    BY <2>7, GoesMoves DEF StartRegisters, Answered, StageOK
  <2>8. CASE CallbackTakes(r)
    <3>1. PICK state \in Requests, x \in Request :
            /\ \/ x = [Idle EXCEPT !.op = "callback", !.state = state, !.at = "failed"]
               \/ \E a \in attempts :
                    x = [Idle EXCEPT !.op = "callback", !.state = state, !.type = "oauth",
                                     !.id = a.id, !.at = "exchange"]
            /\ Arrives(r, x)
      <4>1. ASSUME NEW state \in Requests
            PROVE  [Idle EXCEPT !.op = "callback", !.state = state, !.at = "failed"] \in Request
        BY IdleTyped DEF Request
      <4>2. ASSUME NEW state \in Requests, NEW a \in attempts
            PROVE  [Idle EXCEPT !.op = "callback", !.state = state, !.type = "oauth",
                                !.id = a.id, !.at = "exchange"] \in Request
        BY IdleTyped DEF Request, TypeOK, Attempt, Types
      <4> QED
        BY <2>8, <4>1, <4>2, Zenon DEF CallbackTakes
    <3>2. StageOK(x)
      BY <3>1 DEF StageOK, Idle
    <3> QED
      BY <3>1, <3>2, ArrivesMoves
  <2>9. CASE CallbackReads(r)
    <3>1. CASE Goes(r, "failed")
      BY <2>9, <3>1, GoesMoves DEF CallbackReads, Answered, StageOK
    <3>2. CASE req' = [req EXCEPT ![r].seen = SeenRow(req[r].id), ![r].at = "connect"]
      BY <2>9, <3>2, SeenRowTyped DEF CallbackReads, Moves, Answered, StageOK, TypeOK, Request
    <3> QED
      BY <2>9, <3>1, <3>2 DEF CallbackReads
  <2>10. CASE ProfileReads(r)
    <3>1. PICK id \in Ids, op \in {"submit", "test"}, at \in {"failed", "enqueue", "probe"} :
            /\ Arrives(r, [Idle EXCEPT !.op = op, !.id = id, !.seen = profiles[id], !.at = at])
            /\ at = "probe" => op = "test"
      BY <2>10 DEF ProfileReads
    <3>2. [Idle EXCEPT !.op = op, !.id = id, !.seen = profiles[id], !.at = at] \in Request
      <4>1. id \in 0 .. MaxProfiles /\ profiles[id] \in Row /\ at \in Stages
        BY DEF Ids, TypeOK
      <4> QED
        BY ONLY <4>1, IdleTyped, op \in {"submit", "test"} DEF Request
    <3>3. /\ [Idle EXCEPT !.op = op, !.id = id, !.seen = profiles[id], !.at = at].at = at
          /\ [Idle EXCEPT !.op = op, !.id = id, !.seen = profiles[id], !.at = at].op = op
      BY DEF Idle
    <3> QED
      BY <3>1, <3>2, <3>3, ArrivesMoves DEF StageOK
  <2>11. CASE Enqueues(r)
    <3>1. CASE Goes(r, "failed")
      BY <2>11, <3>1, GoesMoves DEF Enqueues, Answered, StageOK
    <3>2. CASE req' = [req EXCEPT ![r].at = "queued", ![r].seen.fresh = Current(r)]
      <4> DEFINE seen == [req[r].seen EXCEPT !.fresh = Current(r)]
                 x == [req[r] EXCEPT !.at = "queued", !.seen = seen]
      <4>1. Current(r) \in BOOLEAN
        BY DEF Current
      <4>2. seen \in Row
        BY <4>1 DEF TypeOK, Request, Row
      <4>3. x \in Request
        BY <4>2 DEF TypeOK, Request
      <4>4. StageOK(x)
        BY DEF TypeOK, Request, StageOK
      <4>5. req' = [req EXCEPT ![r] = x]
        BY <3>2 DEF TypeOK, Request
      <4> HIDE DEF x
      <4> QED
        BY <2>11, <4>3, <4>4, <4>5 DEF Enqueues, Moves, Answered, TypeOK
    <3> QED
      BY <2>11, <3>1, <3>2 DEF Enqueues
  <2>12. CASE SenderForTask(r)
    BY <2>12, GoesMoves DEF SenderForTask, Answered, StageOK
  <2>13. CASE Settles(r)
    BY <2>13, GoesMoves DEF Settles, Answered, StageOK
  <2>14. CASE Probes(r)
    BY <2>14, GoesMoves DEF Probes, Answered, StageOK
  <2> QED
    BY <2>1, <2>2, <2>3, <2>4, <2>5, <2>6, <2>7, <2>8, <2>9, <2>10, <2>11, <2>12, <2>13, <2>14
<1> QED
  BY <1>1, <1>2, <1>3

\* A save or a sign-in that is not refused writes one row: a new one, or the
\* one it had read, if that is still there and no task holds it.
Wins(r, id) ==
  /\ Written(r, id)
  /\ req'[r].at = "answer" /\ req'[r].seen = req[r].seen
  /\ \/ req[r].id = 0 /\ id = nextID /\ nextID' = nextID + 1
     \/ req[r].id = id /\ Exists(id) /\ ~InUse(id) /\ nextID' = nextID

LEMMA CommitsMoves ==
  ASSUME TypeOK, NEW r \in Requests, StageOK(req[r]), Commits(r)
  PROVE  /\ Moves(r) /\ attempts' = attempts
         /\ req[r].at \in {"save", "connect"}
         /\ UNCHANGED Rows \/ \E id \in Ids : Wins(r, id)
<1>1. req[r].at \in {"save", "connect"} /\ attempts' = attempts /\ SaveWithCredentials(r)
  BY DEF Commits, SaveCommits, CallbackCommits
<1>2. CASE req[r].id = 0
  <2>1. /\ nextID \in Ids /\ Written(r, nextID) /\ nextID' = nextID + 1
        /\ req' = [req EXCEPT ![r].at = "answer", ![r].id = nextID]
    BY <1>1, <1>2 DEF SaveWithCredentials, TypeOK, Ids
  <2>2. Moves(r) /\ req'[r].at = "answer" /\ req'[r].seen = req[r].seen
    <3> DEFINE x == [req[r] EXCEPT !.at = "answer", !.id = nextID]
    <3>1. nextID \in 0 .. MaxProfiles /\ "answer" \in Stages
      BY <2>1 DEF Ids, Stages
    <3>2. x \in Request
      BY <3>1 DEF TypeOK, Request
    <3>3. StageOK(x) /\ x.at = "answer" /\ x.seen = req[r].seen
      BY DEF TypeOK, Request, StageOK
    <3>4. req' = [req EXCEPT ![r] = x]
      BY <2>1 DEF TypeOK, Request
    <3> HIDE DEF x
    <3> QED
      BY <1>1, <3>2, <3>3, <3>4 DEF Moves, TypeOK, Answered
  <2> QED
    BY <1>1, <1>2, <2>1, <2>2 DEF Wins
<1>3. CASE req[r].id > 0 /\ ~InUse(req[r].id) /\ Exists(req[r].id)
  <2>1. Written(r, req[r].id) /\ Goes(r, "answer") /\ nextID' = nextID
    BY <1>1, <1>3 DEF SaveWithCredentials
  <2>2. Moves(r) /\ req'[r].at = "answer"
    BY <1>1, <2>1, GoesMoves DEF Answered, Stages, StageOK
  <2>3. req'[r].seen = req[r].seen /\ req[r].id \in Ids
    BY <1>3, <2>1 DEF Goes, TypeOK, Request, Ids
  <2> QED
    BY <1>1, <1>3, <2>1, <2>2, <2>3 DEF Wins
<1>4. CASE req[r].id > 0 /\ (InUse(req[r].id) \/ ~Exists(req[r].id))
  <2>1. PICK at \in {"failed", "answer"} : Goes(r, at)
    BY <1>1, <1>4 DEF SaveWithCredentials
  <2>2. Moves(r)
    BY <1>1, <2>1, GoesMoves DEF Answered, Stages, StageOK
  <2> QED
    BY <1>1, <1>4, <2>2 DEF SaveWithCredentials
<1> QED
  BY <1>1, <1>2, <1>3, <1>4 DEF TypeOK, Request

LEMMA DeleteMoves ==
  ASSUME TypeOK, NEW r \in Requests, Delete(r)
  PROVE  /\ Moves(r) /\ req'[r].at \in {"ok", "failed"} /\ req'[r].op = "delete"
         /\ req'[r].seen = NoRow /\ UNCHANGED <<nextID, attempts>>
         /\ \/ UNCHANGED Rows
            \/ \E id \in Ids : /\ ~InUse(id)
                               /\ profiles' = [profiles EXCEPT ![id] = NoRow]
                               /\ creds' = [creds EXCEPT ![id] = {}]
<1>1. PICK id \in Ids, at \in {"failed", "ok"} :
        /\ Arrives(r, [Idle EXCEPT !.op = "delete", !.at = at])
        /\ \/ UNCHANGED <<profiles, creds>>
           \/ /\ ~InUse(id)
              /\ profiles' = [profiles EXCEPT ![id] = NoRow]
              /\ creds' = [creds EXCEPT ![id] = {}]
  BY DEF Delete
<1> DEFINE x == [Idle EXCEPT !.op = "delete", !.at = at]
<1>2. x \in Request /\ x.at = at /\ x.op = "delete"
  BY IdleTyped DEF Request, Stages, Idle
<1>3. Moves(r)
  BY <1>1, <1>2, ArrivesMoves DEF StageOK
<1>4. req'[r].at = at /\ req'[r].op = "delete" /\ req'[r].seen = NoRow
  BY <1>1, <1>2 DEF Arrives, TypeOK, Idle
<1> QED
  BY <1>1, <1>3, <1>4 DEF Delete

LEMMA ExpiresKeeps ==
  ASSUME TypeOK, Expires
  PROVE  UNCHANGED <<Rows, req>> /\ attempts' \in SUBSET Attempt
<1>1. PICK a \in attempts :
        /\ attempts' = (attempts \ {a}) \cup {[a EXCEPT !.expired = TRUE]}
        /\ UNCHANGED <<Rows, req>>
  BY DEF Expires
<1>2. [a EXCEPT !.expired = TRUE] \in Attempt
  BY DEF TypeOK, Attempt
<1> QED
  BY <1>1, <1>2 DEF TypeOK

-----------------------------------------------------------------------------
(* Types, and credentials that fit *)

BInv == Basics /\ CredentialsFitType

LEMMA WinsElsewhere ==
  ASSUME TypeOK, NEW r \in Requests, NEW id \in Ids, Wins(r, id), NEW i \in Ids, i # id
  PROVE  profiles'[i] = profiles[i] /\ creds'[i] = creds[i]
<1> DEFINE row == [type |-> req[r].type, by |-> r, fresh |-> Decided(r, id)]
           left == (creds[id] \cup Changed(r)) \ Deleted(r)
<1>1. profiles' = [profiles EXCEPT ![id] = row] /\ creds' = [creds EXCEPT ![id] = left]
  BY DEF Wins, Written
<1> HIDE DEF row, left
<1> QED
  BY <1>1 DEF TypeOK

LEMMA WinsKeepsRows ==
  ASSUME BInv, NEW r \in Requests, req[r].at \in {"save", "connect"}, NEW id \in Ids, Wins(r, id)
  PROVE  /\ profiles' \in [Ids -> Row] /\ creds' \in [Ids -> SUBSET CredentialTypes]
         /\ nextID' \in 1 .. MaxProfiles + 1
         /\ HandedOut' /\ CredentialsFitType'
<1> USE DEF BInv, Basics
<1>1. req[r].type \in Types /\ req[r].type # "none"
  BY DEF StageOK, Types
<1> DEFINE row == [type |-> req[r].type, by |-> r, fresh |-> Decided(r, id)]
<1>2. Decided(r, id) \in BOOLEAN
  BY DEF Decided
<1>3. row \in Row /\ row.type = req[r].type
  BY <1>1, <1>2 DEF Row
<1> HIDE DEF row
<1>4. profiles' = [profiles EXCEPT ![id] = row]
  BY DEF Wins, Written, row
<1>5. creds' = [creds EXCEPT ![id] = (creds[id] \cup Changed(r)) \ Deleted(r)]
  BY DEF Wins, Written
<1>6. Changed(r) \subseteq CredentialTypes
  BY DEF Changed, CredentialTypes
<1>7. nextID' \in 1 .. MaxProfiles + 1 /\ nextID <= nextID' /\ id < nextID'
  <2>1. CASE id = nextID /\ nextID' = nextID + 1
    BY <2>1, ProfilesAssumption DEF TypeOK, Ids
  <2>2. CASE Exists(id) /\ nextID' = nextID
    BY <2>2 DEF TypeOK, Ids, HandedOut, Exists
  <2> QED
    BY <2>1, <2>2 DEF Wins
<1>8. creds'[id] \subseteq IF req[r].type = "oauth" THEN {"token"} ELSE {"password"}
  BY <1>5, <1>6 DEF Deleted, CredentialTypes, TypeOK
<1>9. profiles' \in [Ids -> Row] /\ creds' \in [Ids -> SUBSET CredentialTypes]
  BY <1>3, <1>4, <1>5, <1>6 DEF TypeOK
<1>10. HandedOut'
  BY <1>4, <1>7 DEF HandedOut, TypeOK, Ids
<1>11. CredentialsFitType'
  <2>1. ASSUME NEW i \in Ids
        PROVE  creds'[i] \subseteq CASE profiles'[i].type = "none"  -> {}
                                    [] profiles'[i].type = "oauth" -> {"token"}
                                    [] OTHER                      -> {"password"}
    <3>1. CASE i = id
      <4>1. profiles'[i].type = req[r].type
        BY <1>3, <1>4, <3>1 DEF TypeOK
      <4> QED
        BY <1>1, <1>8, <3>1, <4>1
    <3>2. CASE i # id
      <4>1. profiles'[i] = profiles[i] /\ creds'[i] = creds[i]
        BY <1>4, <1>5, <3>2 DEF TypeOK
      <4> QED
        BY <4>1 DEF CredentialsFitType
    <3> QED
      BY <3>1, <3>2
  <2> QED
    BY <2>1 DEF CredentialsFitType
<1> QED
  BY <1>7, <1>9, <1>10, <1>11

LEMMA RowsAfterDelete ==
  ASSUME BInv, NEW id \in Ids, nextID' = nextID,
         profiles' = [profiles EXCEPT ![id] = NoRow], creds' = [creds EXCEPT ![id] = {}]
  PROVE  /\ profiles' \in [Ids -> Row] /\ creds' \in [Ids -> SUBSET CredentialTypes]
         /\ HandedOut' /\ CredentialsFitType'
<1> USE DEF BInv, Basics
<1>1. profiles' \in [Ids -> Row] /\ creds' \in [Ids -> SUBSET CredentialTypes]
  BY IdleTyped DEF TypeOK
<1>2. HandedOut'
  BY DEF HandedOut, TypeOK, NoRow
<1>3. ASSUME NEW i \in Ids
      PROVE  \/ profiles'[i].type = "none" /\ creds'[i] = {}
             \/ profiles'[i] = profiles[i] /\ creds'[i] = creds[i]
  BY DEF TypeOK, NoRow
<1>4. CredentialsFitType'
  <2>1. ASSUME NEW i \in Ids
        PROVE  creds'[i] \subseteq CASE profiles'[i].type = "none"  -> {}
                                    [] profiles'[i].type = "oauth" -> {"token"}
                                    [] OTHER                      -> {"password"}
    BY <1>3 DEF CredentialsFitType
  <2> QED
    BY <2>1 DEF CredentialsFitType
<1> QED
  BY <1>1, <1>2, <1>4

\* A step, as the proofs see it.
LEMMA StepShape ==
  ASSUME [Next]_vars
  PROVE  \/ UNCHANGED vars
         \/ Expires
         \/ \E r \in Requests : Looks(r) \/ Commits(r) \/ Delete(r)
BY DEF Next, Looks, Commits

\* What a request does to the others and to its own stage.
LEMMA MovesBasics ==
  ASSUME Basics, NEW r \in Requests, Moves(r)
  PROVE  /\ req' \in [Requests -> Request] /\ \A q \in Requests : StageOK(req'[q])
         /\ \A q \in Requests \ {r} : req'[q] = req[q]
BY DEF Basics, Moves, TypeOK

LEMMA BInvKept == BInv /\ [Next]_vars => BInv'
<1> SUFFICES ASSUME BInv, [Next]_vars PROVE BInv'
  OBVIOUS
<1> USE DEF BInv, Basics
<1>1. CASE UNCHANGED vars
  BY <1>1 DEF TypeOK, HandedOut, CredentialsFitType
<1>2. CASE Expires
  BY <1>2, ExpiresKeeps DEF TypeOK, HandedOut, CredentialsFitType
<1>3. ASSUME NEW r \in Requests, Looks(r) \/ Commits(r) \/ Delete(r)
      PROVE  BInv'
  <2>1. CASE Looks(r)
    BY <2>1, LooksMoves, MovesBasics DEF TypeOK, HandedOut, CredentialsFitType
  <2>2. CASE Commits(r)
    <3>1. Moves(r) /\ attempts' = attempts /\ req[r].at \in {"save", "connect"}
      BY <2>2, CommitsMoves
    <3>2. CASE UNCHANGED Rows
      BY <3>1, <3>2, MovesBasics DEF TypeOK, HandedOut, CredentialsFitType
    <3>3. ASSUME NEW id \in Ids, Wins(r, id)
          PROVE  BInv'
      BY <3>1, <3>3, WinsKeepsRows, MovesBasics DEF TypeOK
    <3> QED
      BY <2>2, <3>2, <3>3, CommitsMoves
  <2>3. CASE Delete(r)
    <3>1. Moves(r) /\ UNCHANGED <<nextID, attempts>>
      BY <2>3, DeleteMoves
    <3>2. CASE UNCHANGED Rows
      BY <3>1, <3>2, MovesBasics DEF TypeOK, HandedOut, CredentialsFitType
    <3>3. ASSUME NEW id \in Ids, profiles' = [profiles EXCEPT ![id] = NoRow],
                 creds' = [creds EXCEPT ![id] = {}]
          PROVE  BInv'
      BY <3>1, <3>3, RowsAfterDelete, MovesBasics DEF TypeOK
    <3> QED
      BY <2>3, <3>2, <3>3, DeleteMoves
  <2> QED
    BY <1>3, <2>1, <2>2, <2>3
<1> QED
  BY <1>1, <1>2, <1>3, StepShape

LEMMA BInvInit == Init => BInv
<1> SUFFICES ASSUME Init PROVE BInv
  OBVIOUS
<1>1. PICK t \in Types, extra \in SUBSET {"password"} :
        /\ extra = {} \/ t = "smtp"
        /\ profiles = [i \in Ids |-> IF i = 1 THEN [type |-> t, by |-> Nobody, fresh |-> TRUE] ELSE NoRow]
        /\ creds = [i \in Ids |-> IF i = 1 THEN Backing(t) \cup extra ELSE {}]
  BY DEF Init
<1>2. [type |-> t, by |-> Nobody, fresh |-> TRUE] \in Row
  BY Zenon DEF Row
<1>3. TypeOK
  <2>1. profiles \in [Ids -> Row]
    BY <1>1, <1>2, IdleTyped
  <2>2. creds \in [Ids -> SUBSET CredentialTypes]
    BY <1>1 DEF CredentialTypes, Backing
  <2>3. nextID \in 1 .. MaxProfiles + 1 /\ attempts \subseteq Attempt
    BY ProfilesAssumption DEF Init
  <2>4. req \in [Requests -> Request]
    BY IdleTyped DEF Init
  <2> QED
    BY <2>1, <2>2, <2>3, <2>4 DEF TypeOK
<1>4. \A r \in Requests : StageOK(req[r])
  BY DEF Init, StageOK, Idle
<1>5. HandedOut
  BY <1>1 DEF HandedOut, Init, NoRow
<1>6. CredentialsFitType
  <2>1. ASSUME NEW i \in Ids
        PROVE  creds[i] \subseteq CASE profiles[i].type = "none"  -> {}
                                   [] profiles[i].type = "oauth" -> {"token"}
                                   [] OTHER                      -> {"password"}
    BY <1>1 DEF Backing, Types
  <2> QED
    BY <2>1 DEF CredentialsFitType
<1> QED
  BY <1>3, <1>4, <1>5, <1>6 DEF BInv, Basics

LEMMA BInvInvariant == Spec => []BInv
BY BInvInit, BInvKept, PTL DEF Spec

\* Every value has its type, for any number of requests and profiles.
THEOREM Typed == Spec => []TypeOK
<1>1. BInv => TypeOK
  BY DEF BInv, Basics
<1> QED
  BY <1>1, BInvInvariant, PTL

\* A profile never keeps a credential of the other sign-in: whatever row the
\* writer had read, the transaction deletes the type that does not fit the row
\* it writes.
THEOREM CredentialsFit == Spec => []CredentialsFitType
<1>1. BInv => CredentialsFitType
  BY DEF BInv
<1> QED
  BY <1>1, BInvInvariant, PTL

\* A deleted profile stays deleted: a write needs the row it names, or takes an
\* id that was never handed out.
THEOREM DeletedIsForGood == Spec => DeletedStaysDeleted
<1> DEFINE Stays == \A i \in Ids : (i < nextID /\ profiles[i].type = "none") =>
                      profiles'[i].type = "none" /\ creds'[i] = {}
<1>1. BInv /\ [Next]_vars => [Stays]_vars
  <2> SUFFICES ASSUME BInv, [Next]_vars, NEW i \in Ids, i < nextID, profiles[i].type = "none"
               PROVE  profiles'[i].type = "none" /\ creds'[i] = {}
    BY DEF Stays
  <2> USE DEF BInv, Basics
  <2>1. creds[i] = {}
    BY DEF CredentialsFitType
  <2>2. CASE UNCHANGED Rows
    BY <2>1, <2>2
  <2>3. ASSUME NEW r \in Requests, NEW id \in Ids, Wins(r, id)
        PROVE  profiles'[i] = profiles[i] /\ creds'[i] = creds[i]
    <3>1. i # id
      BY <2>3 DEF Wins, Exists, TypeOK, Ids
    <3> QED
      BY <2>3, <3>1, WinsElsewhere
  <2>4. ASSUME NEW id \in Ids, profiles' = [profiles EXCEPT ![id] = NoRow],
               creds' = [creds EXCEPT ![id] = {}]
        PROVE  profiles'[i].type = "none" /\ creds'[i] = {}
    BY <2>1, <2>4 DEF TypeOK, NoRow
  <2> QED
    BY <2>1, <2>2, <2>3, <2>4, StepShape, ExpiresKeeps, LooksMoves, CommitsMoves, DeleteMoves
<1> QED
  BY <1>1, BInvInvariant, PTL DEF Spec, DeletedStaysDeleted

-----------------------------------------------------------------------------
(* The attempts to connect a Google account *)

\* The callbacks that have been let in by the state they came with.
LetIn(q) == req[q].op = "callback" /\ req[q].at \in {"exchange", "connect", "answer", "ok"}

Registered(s) == s \in Requests /\ req[s].op = "start" /\ req[s].at = "ok"

AttemptsApart ==
  \A a, b \in attempts : (a.state = b.state \/ a.id = b.id) => a = b

\* An attempt has a start of its own; what a callback was let in by is gone.
TakenForGood ==
  /\ \A a \in attempts : Registered(a.state)
  /\ \A q \in Requests : LetIn(q) =>
       Registered(req[q].state) /\ \A a \in attempts : a.state # req[q].state

OneLetIn ==
  \A q, p \in Requests : LetIn(q) /\ LetIn(p) /\ req[q].state = req[p].state => q = p

AInv == AttemptsApart /\ TakenForGood /\ OneLetIn

LEMMA GoesKeeps ==
  ASSUME TypeOK, NEW r \in Requests, NEW at \in Stages, Goes(r, at)
  PROVE  /\ req'[r].op = req[r].op /\ req'[r].state = req[r].state /\ req'[r].at = at
         /\ req'[r].seen \in {req[r].seen, NoRow}
         /\ at \notin Answered => req'[r] = [req[r] EXCEPT !.at = at]
<1>1. CASE at \in Answered
  BY <1>1 DEF Goes, Answered, TypeOK, Done, Idle
<1>2. CASE at \notin Answered
  BY <1>2 DEF Goes, Answered, TypeOK, Request
<1> QED
  BY <1>1, <1>2

LEMMA ArrivesAs ==
  ASSUME TypeOK, NEW r \in Requests, NEW x, Arrives(r, x)
  PROVE  /\ req[r].at = "arrives"
         /\ req'[r].op = x.op /\ req'[r].state = x.state
         /\ x.at \in {"ok", "failed"} => req'[r].at = x.at /\ req'[r].seen = NoRow
         /\ x.at \notin {"ok", "failed"} => req'[r] = x
BY DEF Arrives, TypeOK, Idle

LEMMA CommitsKeep ==
  ASSUME TypeOK, NEW r \in Requests, Commits(r)
  PROVE  /\ req'[r].op = req[r].op /\ req'[r].state = req[r].state
         /\ req'[r].at \in {"answer", "failed"}
         /\ req'[r].seen \in {req[r].seen, NoRow}
<1>1. SaveWithCredentials(r)
  BY DEF Commits, SaveCommits, CallbackCommits
<1>2. CASE req' = [req EXCEPT ![r].at = "answer", ![r].id = nextID]
  BY <1>2 DEF TypeOK, Request
<1>3. ASSUME NEW at \in {"answer", "failed"}, Goes(r, at)
      PROVE  /\ req'[r].op = req[r].op /\ req'[r].state = req[r].state
             /\ req'[r].at \in {"answer", "failed"}
             /\ req'[r].seen \in {req[r].seen, NoRow}
  BY <1>3, GoesKeeps DEF Stages
<1>4. \/ req' = [req EXCEPT ![r].at = "answer", ![r].id = nextID]
      \/ \E at \in {"answer", "failed"} : Goes(r, at)
  BY <1>1 DEF SaveWithCredentials
<1> QED
  BY <1>2, <1>3, <1>4

\* A request that is refused has not been let in.
LEMMA RefusedNotIn ==
  ASSUME TypeOK, NEW r \in Requests, NEW at \in Stages, Goes(r, at),
         at \notin {"exchange", "connect", "answer", "ok"}
  PROVE  ~LetIn(r)'
BY GoesKeeps DEF LetIn

\* No other step lets a callback in.
LEMMA NobodyLetIn ==
  ASSUME BInv, NEW r \in Requests,
         (Looks(r) /\ ~CallbackTakes(r)) \/ Commits(r) \/ Delete(r)
  PROVE  LetIn(r)' => LetIn(r) /\ req'[r].state = req[r].state
<1> SUFFICES ASSUME LetIn(r)'
             PROVE  LetIn(r) /\ req'[r].state = req[r].state
  OBVIOUS
<1> USE DEF BInv, Basics, Stages
<1>1. CASE Fails(r) \/ SaveVerifies(r) \/ StartMutable(r) \/ SenderForTask(r) \/ Settles(r)
  BY <1>1, RefusedNotIn DEF Fails, SaveVerifies, StartMutable, SenderForTask, Settles
<1>2. CASE Answers(r)
  BY <1>2, GoesKeeps DEF Answers, LetIn
<1>3. CASE StartRegisters(r)
  BY <1>3, GoesKeeps DEF StartRegisters, StageOK, LetIn
<1>4. CASE Probes(r)
  BY <1>4, GoesKeeps DEF Probes, StageOK, LetIn
<1>5. CASE SaveReads(r)
  <2>1. PICK x : Arrives(r, x) /\ x.op = "save"
    BY <1>5 DEF SaveReads
  <2> QED
    BY <2>1, ArrivesAs DEF LetIn
<1>6. CASE StartChecks(r)
  <2>1. PICK id \in 0 .. MaxProfiles, at \in {"register", "mutable", "failed"} :
          Arrives(r, [Idle EXCEPT !.op = "start", !.id = id, !.at = at])
    BY <1>6 DEF StartChecks
  <2>2. [Idle EXCEPT !.op = "start", !.id = id, !.at = at].op = "start"
    BY DEF Idle
  <2> QED
    BY <2>1, <2>2, ArrivesAs DEF LetIn
<1>7. CASE ProfileReads(r)
  <2>1. PICK id \in Ids, op \in {"submit", "test"}, at \in {"failed", "enqueue", "probe"} :
          Arrives(r, [Idle EXCEPT !.op = op, !.id = id, !.seen = profiles[id], !.at = at])
    BY <1>7 DEF ProfileReads
  <2>2. [Idle EXCEPT !.op = op, !.id = id, !.seen = profiles[id], !.at = at].op = op
    BY DEF Idle
  <2> QED
    BY <2>1, <2>2, ArrivesAs DEF LetIn
<1>8. CASE CallbackReads(r)
  <2>1. CASE Goes(r, "failed")
    BY <2>1, RefusedNotIn
  <2>2. CASE req' = [req EXCEPT ![r].seen = SeenRow(req[r].id), ![r].at = "connect"]
    BY <1>8, <2>2 DEF CallbackReads, TypeOK, Request, LetIn
  <2> QED
    BY <1>8, <2>1, <2>2 DEF CallbackReads
<1>9. CASE Enqueues(r)
  <2>1. CASE Goes(r, "failed")
    BY <2>1, RefusedNotIn
  <2>2. CASE req' = [req EXCEPT ![r].at = "queued", ![r].seen.fresh = Current(r)]
    <3>1. req'[r].at = "queued"
      BY <2>2 DEF TypeOK, Request
    <3> QED
      BY <3>1 DEF LetIn
  <2> QED
    BY <1>9, <2>1, <2>2 DEF Enqueues
<1>10. CASE Commits(r)
  BY <1>10, CommitsKeep, CommitsMoves DEF StageOK, LetIn
<1>11. CASE Delete(r)
  BY <1>11, DeleteMoves DEF LetIn
<1> QED
  BY <1>1, <1>2, <1>3, <1>4, <1>5, <1>6, <1>7, <1>8, <1>9, <1>10, <1>11 DEF Looks

\* Who is let in stays so at most; who has registered an attempt stays answered.
LEMMA OthersStay ==
  ASSUME BInv, NEW r \in Requests, Moves(r), NEW q \in Requests
  PROVE  /\ q # r => (LetIn(q)' <=> LetIn(q)) /\ req'[q].state = req[q].state
         /\ Registered(q) => Registered(q)'
<1>1. q # r => req'[q] = req[q]
  BY DEF Moves, BInv, Basics, TypeOK
<1>2. Registered(q) => q # r
  BY DEF Registered, Moves, Answered
<1> QED
  BY <1>1, <1>2 DEF LetIn, Registered

\* A step that registers nothing and lets nobody in keeps the attempts apart.
LEMMA FewerAttempts ==
  ASSUME BInv, AInv, NEW r \in Requests, Moves(r), attempts' \in SUBSET attempts,
         LetIn(r)' => LetIn(r) /\ req'[r].state = req[r].state
  PROVE  AInv'
<1>1. ASSUME NEW q \in Requests, LetIn(q)'
      PROVE  LetIn(q) /\ req'[q].state = req[q].state
  BY <1>1, OthersStay
<1>2. ASSUME NEW s, Registered(s)
      PROVE  Registered(s)'
  BY <1>2, OthersStay DEF Registered
<1>3. AttemptsApart'
  BY DEF AInv, AttemptsApart
<1>4. TakenForGood'
  BY <1>1, <1>2 DEF AInv, TakenForGood
<1>5. OneLetIn'
  BY <1>1 DEF AInv, OneLetIn
<1> QED
  BY <1>3, <1>4, <1>5 DEF AInv

LEMMA AInvKept == BInv /\ AInv /\ [Next]_vars => AInv'
<1> SUFFICES ASSUME BInv, AInv, [Next]_vars PROVE AInv'
  OBVIOUS
<1>1. CASE UNCHANGED vars
  BY <1>1 DEF AInv, AttemptsApart, TakenForGood, OneLetIn, LetIn, Registered
<1>2. CASE Expires
  <2>1. PICK a \in attempts :
          /\ attempts' = (attempts \ {a}) \cup {[a EXCEPT !.expired = TRUE]}
          /\ UNCHANGED req
    BY <1>2 DEF Expires
  <2> DEFINE old == [a EXCEPT !.expired = TRUE]
  <2>2. old.id = a.id /\ old.state = a.state
    BY DEF BInv, Basics, TypeOK, Attempt
  <2>3. attempts' = (attempts \ {a}) \cup {old}
    BY <2>1
  <2> HIDE DEF old
  <2>4. AttemptsApart'
    BY <2>2, <2>3 DEF AInv, AttemptsApart
  <2>5. TakenForGood'
    BY <2>1, <2>2, <2>3 DEF AInv, TakenForGood, LetIn, Registered
  <2>6. OneLetIn'
    BY <2>1 DEF AInv, OneLetIn, LetIn
  <2> QED
    BY <2>4, <2>5, <2>6 DEF AInv
<1>3. ASSUME NEW r \in Requests, Looks(r) \/ Commits(r) \/ Delete(r)
      PROVE  AInv'
  <2>1. Moves(r)
    BY <1>3, LooksMoves, CommitsMoves, DeleteMoves DEF BInv, Basics
  <2>2. CASE StartRegisters(r)
    <3> DEFINE new == [id |-> req[r].id, state |-> r, expired |-> FALSE]
    <3>1. /\ attempts' = {a \in attempts : ~a.expired /\ a.id # req[r].id} \cup {new}
          /\ req[r].at = "register" /\ req'[r].op = "start" /\ req'[r].at = "ok"
      BY <2>2, GoesKeeps DEF StartRegisters, Stages, StageOK, BInv, Basics
    <3>2. ~Registered(r) /\ Registered(r)' /\ ~LetIn(r)'
      BY <3>1 DEF Registered, LetIn
    <3>3. \A a \in attempts : a.state # r
      BY <3>2 DEF AInv, TakenForGood
    <3>4. \A q \in Requests : LetIn(q)' => q # r /\ LetIn(q) /\ req'[q].state = req[q].state /\ req[q].state # r
      BY <2>1, <3>2, OthersStay DEF AInv, TakenForGood
    <3>5. new.id = req[r].id /\ new.state = r
      OBVIOUS
    <3> HIDE DEF new
    <3>6. AttemptsApart'
      BY <3>1, <3>3, <3>5 DEF AInv, AttemptsApart
    <3>7. TakenForGood'
      <4>1. \A a \in attempts' : Registered(a.state)'
        BY <2>1, <3>1, <3>2, <3>5, OthersStay DEF AInv, TakenForGood, Registered
      <4>2. ASSUME NEW q \in Requests, LetIn(q)'
            PROVE  (Registered(req[q].state))' /\ \A a \in attempts' : a.state # req'[q].state
        <5>1. LetIn(q) /\ req'[q].state = req[q].state /\ req[q].state # r
          BY <3>4, <4>2
        <5>2. Registered(req[q].state) /\ \A a \in attempts : a.state # req[q].state
          BY <5>1 DEF AInv, TakenForGood
        <5>3. req[q].state \in Requests /\ req'[req[q].state] = req[req[q].state]
          BY <2>1, <5>2 DEF Registered, Moves, Answered, BInv, Basics, TypeOK
        <5>4. (Registered(req[q].state))'
          BY <5>1, <5>2, <5>3 DEF Registered
        <5> QED
          BY <3>1, <3>5, <5>1, <5>2, <5>4
      <4> QED
        BY <4>1, <4>2 DEF TakenForGood
    <3>8. OneLetIn'
      BY <3>4 DEF AInv, OneLetIn
    <3> QED
      BY <3>6, <3>7, <3>8 DEF AInv
  <2>3. CASE CallbackTakes(r)
    <3>1. PICK state \in Requests, x \in Request :
            /\ attempts' = attempts \ {a \in attempts : a.state = state}
            /\ Arrives(r, x) /\ x.op = "callback" /\ x.state = state
            /\ \/ x.at = "failed"
               \/ x.at = "exchange" /\ \E a \in attempts : a.state = state
      <4>1. PICK state \in Requests :
              /\ attempts' = attempts \ {a \in attempts : a.state = state}
              /\ \/ Arrives(r, [Idle EXCEPT !.op = "callback", !.state = state, !.at = "failed"])
                 \/ \E a \in attempts :
                      /\ a.state = state
                      /\ Arrives(r, [Idle EXCEPT !.op = "callback", !.state = state,
                                       !.type = "oauth", !.id = a.id, !.at = "exchange"])
        BY <2>3 DEF CallbackTakes
      <4>2. CASE Arrives(r, [Idle EXCEPT !.op = "callback", !.state = state, !.at = "failed"])
        <5> DEFINE x == [Idle EXCEPT !.op = "callback", !.state = state, !.at = "failed"]
        <5>1. x \in Request
          BY IdleTyped DEF Request, Stages
        <5>2. x.op = "callback" /\ x.state = state /\ x.at = "failed"
          BY DEF Idle
        <5>3. Arrives(r, x)
          BY <4>2
        <5> HIDE DEF x
        <5> QED
          BY <4>1, <5>1, <5>2, <5>3
      <4>3. ASSUME NEW a \in attempts, a.state = state,
                   Arrives(r, [Idle EXCEPT !.op = "callback", !.state = state,
                                 !.type = "oauth", !.id = a.id, !.at = "exchange"])
            PROVE  \E x \in Request : Arrives(r, x) /\ x.op = "callback" /\ x.state = state
                                       /\ x.at = "exchange"
        <5> DEFINE x == [Idle EXCEPT !.op = "callback", !.state = state, !.type = "oauth",
                                     !.id = a.id, !.at = "exchange"]
        <5>1. x \in Request
          BY IdleTyped DEF Request, Stages, Types, BInv, Basics, TypeOK, Attempt
        <5>2. x.op = "callback" /\ x.state = state /\ x.at = "exchange"
          BY DEF Idle
        <5>3. Arrives(r, x)
          BY <4>3
        <5> HIDE DEF x
        <5> QED
          BY <5>1, <5>2, <5>3
      <4> QED
        BY <4>1, <4>2, <4>3
    <3>2. CASE x.at = "failed"
      <4>1. ~LetIn(r)'
        BY <3>1, <3>2, ArrivesAs DEF LetIn, BInv, Basics
      <4> QED
        BY <2>1, <3>1, <4>1, FewerAttempts
    <3>3. ASSUME NEW a \in attempts, a.state = state, x.at = "exchange"
          PROVE  AInv'
      <4>1. req'[r].state = state
        BY <3>1, ArrivesAs DEF BInv, Basics
      <4>2. \A q \in Requests \ {r} : LetIn(q)' => LetIn(q) /\ req'[q].state = req[q].state /\ req[q].state # state
        BY <2>1, <3>3, OthersStay DEF AInv, TakenForGood
      <4>3. \A s : Registered(s) => Registered(s)'
        BY <2>1, OthersStay DEF Registered
      <4>4. Registered(state)
        BY <3>3 DEF AInv, TakenForGood
      <4>5. AttemptsApart'
        BY <3>1 DEF AInv, AttemptsApart
      <4>6. TakenForGood'
        BY <3>1, <4>1, <4>2, <4>3, <4>4 DEF AInv, TakenForGood
      <4>7. OneLetIn'
        BY <4>1, <4>2 DEF AInv, OneLetIn
      <4> QED
        BY <4>5, <4>6, <4>7 DEF AInv
    <3> QED
      BY <3>1, <3>2, <3>3
  <2>4. CASE ~StartRegisters(r) /\ ~CallbackTakes(r)
    <3>1. attempts' = attempts
      BY <1>3, <2>4, CommitsMoves, DeleteMoves DEF Looks, Fails, SaveReads, SaveVerifies, Answers,
         StartChecks, StartMutable, CallbackReads, ProfileReads, Enqueues, SenderForTask, Settles,
         Probes, BInv, Basics
    <3>2. LetIn(r)' => LetIn(r) /\ req'[r].state = req[r].state
      BY <1>3, <2>4, NobodyLetIn
    <3> QED
      BY <2>1, <3>1, <3>2, FewerAttempts
  <2> QED
    BY <2>2, <2>3, <2>4
<1> QED
  BY <1>1, <1>2, <1>3, StepShape

LEMMA AInvInvariant == Spec => []AInv
<1>1. Init => AInv
  BY DEF Init, AInv, AttemptsApart, TakenForGood, OneLetIn, LetIn, Idle
<1> QED
  BY <1>1, AInvKept, BInvInvariant, PTL DEF Spec

\* An attempt lets one callback in at most, and a profile has at most one
\* pending: an attempt is named by the request that registered it, and a
\* callback takes it out of the map in the step that finds it.
THEOREM AttemptIsUsedOnce == Spec => []AttemptOnce
<1>1. AInv => AttemptOnce
  BY DEF AInv, AttemptsApart, OneLetIn, LetIn, AttemptOnce
<1> QED
  BY <1>1, AInvInvariant, PTL

-----------------------------------------------------------------------------
(* Rows as versions, and the credentials a decision rests on *)

\* A request that has committed, if it commits at all.
Wrote(r) == req[r].at \in {"answer", "ok", "failed"}

\* The version of a row, and of every row that was read, is a request past its
\* commit: a request that still has to commit makes a new version.
VersionsPast ==
  /\ \A i \in Ids : profiles[i].by \in Requests => Wrote(profiles[i].by)
  /\ \A q \in Requests : req[q].seen.by \in Requests => Wrote(req[q].seen.by)

\* The row a request has read is still the row of the profile it names.
Same(q) ==
  /\ req[q].id \in Ids /\ Exists(req[q].id)
  /\ profiles[req[q].id].by = req[q].seen.by

\* A save that brings no credential counts on the stored one.
SaveBasis(q) == req[q].at = "save" =>
  /\ req[q].type = "app" /\ ~req[q].password =>
       /\ req[q].id > 0 /\ req[q].seen.type = "app"
       /\ Same(q) => "password" \in creds[req[q].id]
  /\ req[q].type = "oauth" =>
       req[q].id > 0 /\ (Same(q) => "token" \in creds[req[q].id])

\* So does a submission, of a profile that no race has left incomplete.
SubmitBasis(q) == req[q].at = "enqueue" =>
  (req[q].seen.fresh /\ Same(q) => Backing(req[q].seen.type) \subseteq creds[req[q].id])

\* And a queued task, which holds its profile.
HeldBasis(q) == req[q].at = "queued" =>
  /\ req[q].id \in Ids /\ Exists(req[q].id)
  /\ req[q].seen.fresh => Backing(req[q].seen.type) \subseteq creds[req[q].id]

Unsent(q) == req[q].at = "unsent" => ~req[q].seen.fresh

Basis(q) == SaveBasis(q) /\ SubmitBasis(q) /\ HeldBasis(q) /\ Unsent(q)

VInv == VersionsPast /\ BackedUnlessRaced /\ \A q \in Requests : Basis(q)

\* What has been read comes from a row, and an answer is the last step.
LEMMA SeenFromRows ==
  ASSUME BInv, NEW r \in Requests, Looks(r) \/ Commits(r) \/ Delete(r)
  PROVE  /\ req'[r].seen.by \in {req[r].seen.by, Nobody} \cup {profiles[i].by : i \in Ids}
         /\ req[r].at = "answer" => req'[r].at \in {"ok", "failed"}
<1> USE DEF BInv, Basics, Stages
<1> DEFINE Good == /\ req'[r].seen.by \in {req[r].seen.by, Nobody} \cup {profiles[i].by : i \in Ids}
                   /\ req[r].at = "answer" => req'[r].at \in {"ok", "failed"}
<1>0. NoRow.by = Nobody /\ (\A id \in 0 .. MaxProfiles : SeenRow(id).by \in {Nobody} \cup {profiles[i].by : i \in Ids})
  BY DEF NoRow, SeenRow, Ids
<1>1. ASSUME NEW at \in Stages, Goes(r, at), req[r].at = "answer" => at \in {"ok", "failed"}
      PROVE  Good
  BY <1>0, <1>1, GoesKeeps
<1>2. ASSUME NEW x, Arrives(r, x), x.seen.by \in {Nobody} \cup {profiles[i].by : i \in Ids}
      PROVE  Good
  BY <1>0, <1>2, ArrivesAs
<1>3. CASE Fails(r) \/ SaveVerifies(r) \/ Answers(r) \/ StartMutable(r) \/ StartRegisters(r)
           \/ SenderForTask(r) \/ Settles(r) \/ Probes(r)
  BY <1>1, <1>3 DEF Fails, SaveVerifies, Answers, StartMutable, StartRegisters, SenderForTask,
                    Settles, Probes
<1>4. CASE SaveReads(r)
  <2>1. PICK id \in 0 .. MaxProfiles : \E x : Arrives(r, x) /\ x.seen = SeenRow(id)
    BY <1>4 DEF SaveReads
  <2>2. PICK x : Arrives(r, x) /\ x.seen = SeenRow(id)
    BY <2>1
  <2> QED
    BY <1>0, <1>2, <2>2
<1>5. CASE StartChecks(r)
  <2>1. PICK id \in 0 .. MaxProfiles, at \in {"register", "mutable", "failed"} :
          Arrives(r, [Idle EXCEPT !.op = "start", !.id = id, !.at = at])
    BY <1>5 DEF StartChecks
  <2>2. [Idle EXCEPT !.op = "start", !.id = id, !.at = at].seen = NoRow
    BY DEF Idle
  <2> QED
    BY <1>0, <1>2, <2>1, <2>2
<1>6. CASE ProfileReads(r)
  <2>1. PICK id \in Ids, op \in {"submit", "test"}, at \in {"failed", "enqueue", "probe"} :
          Arrives(r, [Idle EXCEPT !.op = op, !.id = id, !.seen = profiles[id], !.at = at])
    BY <1>6 DEF ProfileReads
  <2>2. [Idle EXCEPT !.op = op, !.id = id, !.seen = profiles[id], !.at = at].seen = profiles[id]
    BY DEF Idle
  <2> QED
    BY <1>2, <2>1, <2>2
<1>7. CASE CallbackTakes(r)
  <2>1. ASSUME NEW state
        PROVE  [Idle EXCEPT !.op = "callback", !.state = state, !.at = "failed"].seen = NoRow
    BY DEF Idle
  <2>2. ASSUME NEW state, NEW id
        PROVE  [Idle EXCEPT !.op = "callback", !.state = state, !.type = "oauth",
                            !.id = id, !.at = "exchange"].seen = NoRow
    BY DEF Idle
  <2>3. CASE \E state \in Requests :
               Arrives(r, [Idle EXCEPT !.op = "callback", !.state = state, !.at = "failed"])
    BY <1>0, <1>2, <2>1, <2>3
  <2>4. CASE \E state \in Requests, a \in attempts :
               Arrives(r, [Idle EXCEPT !.op = "callback", !.state = state, !.type = "oauth",
                                       !.id = a.id, !.at = "exchange"])
    BY <1>0, <1>2, <2>2, <2>4
  <2> QED
    BY <1>7, <2>3, <2>4 DEF CallbackTakes
<1>8. CASE CallbackReads(r)
  <2>1. CASE req' = [req EXCEPT ![r].seen = SeenRow(req[r].id), ![r].at = "connect"]
    <3>1. req'[r].seen = SeenRow(req[r].id) /\ req[r].id \in 0 .. MaxProfiles /\ req[r].at = "exchange"
      BY <1>8, <2>1 DEF CallbackReads, TypeOK, Request
    <3> QED
      BY <1>0, <3>1
  <2> QED
    BY <1>1, <1>8, <2>1 DEF CallbackReads
<1>9. CASE Enqueues(r)
  <2>1. CASE req' = [req EXCEPT ![r].at = "queued", ![r].seen.fresh = Current(r)]
    <3>1. req'[r].seen.by = req[r].seen.by /\ req[r].at = "enqueue"
      BY <1>9, <2>1 DEF Enqueues, TypeOK, Request, Row
    <3> QED
      BY <3>1
  <2> QED
    BY <1>1, <1>9, <2>1 DEF Enqueues
<1>10. CASE Commits(r)
  BY <1>0, <1>10, CommitsKeep, CommitsMoves
<1>11. CASE Delete(r)
  BY <1>0, <1>11, DeleteMoves
<1> QED
  BY <1>3, <1>4, <1>5, <1>6, <1>7, <1>8, <1>9, <1>10, <1>11 DEF Looks

LEMMA VersionsKept ==
  ASSUME BInv, VersionsPast, NEW r \in Requests, Moves(r),
         Looks(r) \/ Commits(r) \/ Delete(r),
         \A i \in Ids : profiles'[i].by \in {profiles[i].by, r, Nobody},
         (\E i \in Ids : profiles'[i].by = r) => req'[r].at = "answer" \/ Wrote(r)
  PROVE  VersionsPast'
<1> USE DEF BInv, Basics
<1>1. ASSUME NEW q \in Requests, Wrote(q)
      PROVE  Wrote(q)'
  <2>1. CASE q # r
    BY <1>1, <2>1, MovesBasics DEF Wrote
  <2>2. CASE q = r
    BY <1>1, <2>2, SeenFromRows DEF Wrote, Moves, Answered
  <2> QED
    BY <2>1, <2>2
<1>2. ASSUME NEW i \in Ids, profiles'[i].by \in Requests
      PROVE  (Wrote(profiles[i].by))'
  <2>1. CASE profiles'[i].by = r
    <3>1. Wrote(r)'
      BY <1>1, <2>1 DEF Wrote
    <3> QED
      BY <2>1, <3>1 DEF Wrote
  <2>2. CASE profiles'[i].by # r
    <3>1. profiles'[i].by = profiles[i].by
      BY <1>2, <2>2, ProfilesAssumption
    <3> QED
      BY <1>1, <1>2, <3>1 DEF VersionsPast, Wrote
  <2> QED
    BY <2>1, <2>2
<1>3. ASSUME NEW q \in Requests, req'[q].seen.by \in Requests
      PROVE  (Wrote(req[q].seen.by))'
  <2>1. Wrote(req'[q].seen.by)
    <3>1. CASE q # r
      BY <1>3, <3>1, MovesBasics DEF VersionsPast
    <3>2. CASE q = r
      BY <1>3, <3>2, SeenFromRows, ProfilesAssumption DEF VersionsPast
    <3> QED
      BY <3>1, <3>2
  <2> QED
    BY <1>1, <1>3, <2>1 DEF Wrote
<1> QED
  BY <1>2, <1>3 DEF VersionsPast

\* A request that looks leaves its own decision on firm ground.
LEMMA BasisOwn ==
  ASSUME BInv, VInv, NEW r \in Requests, Looks(r) \/ Commits(r) \/ Delete(r)
  PROVE  Basis(r)'
<1> USE DEF BInv, Basics, Stages
<1>0. ASSUME req'[r].at \notin {"save", "enqueue", "queued", "unsent"}
      PROVE  Basis(r)'
  BY <1>0 DEF Basis, SaveBasis, SubmitBasis, HeldBasis, Unsent
<1>1. ASSUME NEW at \in Stages \ {"save", "enqueue", "queued", "unsent"}, Goes(r, at)
      PROVE  Basis(r)'
  BY <1>0, <1>1, GoesKeeps
<1>2. ASSUME NEW x, Arrives(r, x), x.at \notin {"save", "enqueue", "queued", "unsent"}
      PROVE  Basis(r)'
  BY <1>0, <1>2, ArrivesAs
<1>3. CASE Fails(r) \/ Answers(r) \/ StartMutable(r) \/ StartRegisters(r) \/ Settles(r) \/ Probes(r)
  BY <1>1, <1>3 DEF Fails, Answers, StartMutable, StartRegisters, Settles, Probes
<1>4. CASE SaveReads(r)
  <2>1. PICK id \in 0 .. MaxProfiles, type \in Types, password \in BOOLEAN :
          \E x : /\ Arrives(r, x) /\ x.id = id /\ x.type = type
                 /\ x.at = IF ~Acceptable(id, type, password) THEN "failed"
                           ELSE IF type = "app" THEN "verify" ELSE "save"
    BY <1>4 DEF SaveReads
  <2>2. PICK x : /\ Arrives(r, x) /\ x.id = id /\ x.type = type
                 /\ x.at = IF ~Acceptable(id, type, password) THEN "failed"
                           ELSE IF type = "app" THEN "verify" ELSE "save"
    BY <2>1
  <2>3. CASE x.at = "save"
    <3>1. req'[r].at = "save" /\ req'[r].id = id /\ req'[r].type = type /\ type # "app"
      BY <2>2, <2>3, ArrivesAs
    <3>2. type = "oauth" => id > 0 /\ "token" \in creds[id]
      BY <2>2, <2>3 DEF Acceptable
    <3>3. UNCHANGED Rows
      BY <1>4 DEF SaveReads
    <3> QED
      BY <3>1, <3>2, <3>3 DEF Basis, SaveBasis, SubmitBasis, HeldBasis, Unsent
  <2> QED
    BY <1>2, <2>2, <2>3
<1>5. CASE StartChecks(r)
  <2>1. PICK id \in 0 .. MaxProfiles, at \in {"register", "mutable", "failed"} :
          Arrives(r, [Idle EXCEPT !.op = "start", !.id = id, !.at = at])
    BY <1>5 DEF StartChecks
  <2>2. [Idle EXCEPT !.op = "start", !.id = id, !.at = at].at = at
    BY DEF Idle
  <2> QED
    BY <1>2, <2>1, <2>2
<1>6. CASE ProfileReads(r)
  <2>1. PICK id \in Ids, op \in {"submit", "test"}, at \in {"failed", "enqueue", "probe"} :
          Arrives(r, [Idle EXCEPT !.op = op, !.id = id, !.seen = profiles[id], !.at = at])
    BY <1>6 DEF ProfileReads
  <2> DEFINE x == [Idle EXCEPT !.op = op, !.id = id, !.seen = profiles[id], !.at = at]
  <2>2. x.at = at /\ x.id = id /\ x.seen = profiles[id]
    BY DEF Idle
  <2>3. Arrives(r, x)
    BY <2>1
  <2> HIDE DEF x
  <2>4. CASE at = "enqueue"
    <3>1. req'[r].at = "enqueue" /\ req'[r].id = id /\ req'[r].seen = profiles[id]
      BY <2>2, <2>3, <2>4, ArrivesAs
    <3>2. UNCHANGED Rows /\ (profiles[id].fresh => Backing(profiles[id].type) \subseteq creds[id])
      BY <1>6 DEF ProfileReads, VInv, BackedUnlessRaced
    <3> QED
      BY <3>1, <3>2 DEF Basis, SaveBasis, SubmitBasis, HeldBasis, Unsent
  <2> QED
    BY <1>2, <2>2, <2>3, <2>4
<1>7. CASE CallbackTakes(r)
  <2>1. ASSUME NEW state
        PROVE  [Idle EXCEPT !.op = "callback", !.state = state, !.at = "failed"].at = "failed"
    BY DEF Idle
  <2>2. ASSUME NEW state, NEW id
        PROVE  [Idle EXCEPT !.op = "callback", !.state = state, !.type = "oauth",
                            !.id = id, !.at = "exchange"].at = "exchange"
    BY DEF Idle
  <2>3. CASE \E state \in Requests :
               Arrives(r, [Idle EXCEPT !.op = "callback", !.state = state, !.at = "failed"])
    BY <1>2, <2>1, <2>3
  <2>4. CASE \E state \in Requests, a \in attempts :
               Arrives(r, [Idle EXCEPT !.op = "callback", !.state = state, !.type = "oauth",
                                       !.id = a.id, !.at = "exchange"])
    BY <1>2, <2>2, <2>4
  <2> QED
    BY <1>7, <2>3, <2>4 DEF CallbackTakes
<1>8. CASE CallbackReads(r)
  <2>1. CASE req' = [req EXCEPT ![r].seen = SeenRow(req[r].id), ![r].at = "connect"]
    <3>1. req'[r].at = "connect"
      BY <2>1 DEF TypeOK, Request
    <3> QED
      BY <1>0, <3>1
  <2> QED
    BY <1>1, <1>8, <2>1 DEF CallbackReads
<1>9. CASE Enqueues(r)
  <2>1. CASE Exists(req[r].id)
    <3>1. /\ req' = [req EXCEPT ![r].at = "queued", ![r].seen.fresh = Current(r)]
          /\ req[r].at = "enqueue" /\ UNCHANGED Rows
      BY <1>9, <2>1 DEF Enqueues
    <3>2. /\ req'[r].at = "queued" /\ req'[r].id = req[r].id
          /\ req'[r].seen.type = req[r].seen.type /\ req'[r].seen.fresh = Current(r)
      BY <3>1 DEF TypeOK, Request, Row
    <3>3. req[r].id \in Ids
      BY <2>1 DEF Exists, TypeOK, Request, Ids
    <3>4. Current(r) => req[r].seen.fresh /\ Same(r)
      BY <2>1, <3>3 DEF Current, Same
    <3>5. Current(r) => Backing(req[r].seen.type) \subseteq creds[req[r].id]
      BY <3>1, <3>4 DEF VInv, Basis, SubmitBasis
    <3> QED
      BY <2>1, <3>1, <3>2, <3>3, <3>5 DEF Basis, SaveBasis, SubmitBasis, HeldBasis, Unsent, Exists
  <2> QED
    BY <1>1, <1>9, <2>1 DEF Enqueues
<1>10. CASE SaveVerifies(r)
  <2>1. CASE Goes(r, "save")
    <3>1. /\ req[r].at = "verify" /\ UNCHANGED Rows /\ req[r].type = "app"
          /\ req[r].password \/ (req[r].id > 0 /\ req[r].seen.type = "app" /\ "password" \in creds[req[r].id])
      <4>1. req[r].at = "verify" /\ UNCHANGED Rows /\ req[r].type = "app"
        BY <1>10 DEF SaveVerifies, StageOK
      <4>2. ~Goes(r, "failed")
        BY <2>1, GoesKeeps
      <4> QED
        BY <1>10, <4>1, <4>2 DEF SaveVerifies
    <3>2. req'[r] = [req[r] EXCEPT !.at = "save"]
      BY <2>1, GoesKeeps DEF Answered
    <3>3. /\ req'[r].at = "save" /\ req'[r].id = req[r].id /\ req'[r].type = "app"
          /\ req'[r].password = req[r].password /\ req'[r].seen = req[r].seen
      BY <3>1, <3>2 DEF TypeOK, Request
    <3> QED
      BY <3>1, <3>3 DEF Basis, SaveBasis, SubmitBasis, HeldBasis, Unsent
  <2> QED
    BY <1>1, <1>10, <2>1 DEF SaveVerifies
<1>11. CASE SenderForTask(r)
  <2>1. CASE SenderFound(r)
    BY <1>1, <1>11, <2>1 DEF SenderForTask
  <2>2. CASE ~SenderFound(r)
    <3>1. Goes(r, "unsent") /\ req[r].at = "queued"
      BY <1>11, <2>2 DEF SenderForTask
    <3>2. ~req[r].seen.fresh
      BY <2>2, <3>1 DEF SenderFound, VInv, Basis, HeldBasis
    <3>3. req'[r].at = "unsent" /\ req'[r].seen = req[r].seen
      BY <3>1, GoesKeeps DEF Answered, TypeOK, Request
    <3> QED
      BY <3>2, <3>3 DEF Basis, SaveBasis, SubmitBasis, HeldBasis, Unsent
  <2> QED
    BY <2>1, <2>2
<1>12. CASE Commits(r)
  BY <1>0, <1>12, CommitsKeep
<1>13. CASE Delete(r)
  BY <1>0, <1>13, DeleteMoves
<1> QED
  BY <1>3, <1>4, <1>5, <1>6, <1>7, <1>8, <1>9, <1>10, <1>11, <1>12, <1>13 DEF Looks

\* A write gives the row a version nobody has read, so that a decision that
\* rests on the older one is not the same any more; and no task holds the row.
LEMMA BasisAfterWrite ==
  ASSUME BInv, VInv, NEW r \in Requests, req[r].at \in {"save", "connect"},
         NEW id \in Ids, Wins(r, id),
         NEW q \in Requests, q # r, req'[q] = req[q]
  PROVE  Basis(q)'
<1> USE DEF BInv, Basics
<1>1. profiles'[id].by = r /\ req[q].seen.by # r
  <2>1. ~Wrote(r)
    BY DEF Wrote
  <2>2. req[q].seen.by # r
    BY <2>1 DEF VInv, VersionsPast
  <2> QED
    BY <2>2 DEF Wins, Written, TypeOK
<1>2. \A i \in Ids : i # id => profiles'[i] = profiles[i] /\ creds'[i] = creds[i]
  BY WinsElsewhere
<1>3. Same(q)' => Same(q) /\ req[q].id # id
  BY <1>1, <1>2 DEF Same, Exists
<1>4. req[q].at = "queued" => req[q].id # id
  <2>1. CASE Exists(id) /\ ~InUse(id)
    BY <2>1 DEF InUse
  <2>2. CASE id = nextID
    BY <2>2 DEF VInv, Basis, HeldBasis, HandedOut, Exists, TypeOK, Ids
  <2> QED
    BY <2>1, <2>2 DEF Wins
<1>5. SaveBasis(q)'
  BY <1>2, <1>3 DEF VInv, Basis, SaveBasis, Same
<1>6. SubmitBasis(q)'
  BY <1>2, <1>3 DEF VInv, Basis, SubmitBasis, Same
<1>7. HeldBasis(q)'
  BY <1>2, <1>4 DEF VInv, Basis, HeldBasis, Exists
<1>8. Unsent(q)'
  BY DEF VInv, Basis, Unsent
<1> QED
  BY <1>5, <1>6, <1>7, <1>8 DEF Basis

LEMMA BasisAfterDelete ==
  ASSUME BInv, VInv, NEW id \in Ids, ~InUse(id),
         profiles' = [profiles EXCEPT ![id] = NoRow], creds' = [creds EXCEPT ![id] = {}],
         NEW q \in Requests, req'[q] = req[q]
  PROVE  Basis(q)'
<1> USE DEF BInv, Basics
<1>1. profiles'[id].type = "none"
      /\ \A i \in Ids : i # id => profiles'[i] = profiles[i] /\ creds'[i] = creds[i]
  BY DEF TypeOK, NoRow
<1>2. Same(q)' => Same(q) /\ req[q].id # id
  BY <1>1 DEF Same, Exists
<1>3. req[q].at = "queued" => req[q].id # id
  BY DEF InUse
<1>4. SaveBasis(q)'
  BY <1>1, <1>2 DEF VInv, Basis, SaveBasis, Same
<1>5. SubmitBasis(q)'
  BY <1>1, <1>2 DEF VInv, Basis, SubmitBasis, Same
<1>6. HeldBasis(q)'
  BY <1>1, <1>3 DEF VInv, Basis, HeldBasis, Exists
<1>7. Unsent(q)'
  BY DEF VInv, Basis, Unsent
<1> QED
  BY <1>4, <1>5, <1>6, <1>7 DEF Basis

LEMMA BasisUndisturbed ==
  ASSUME VInv, UNCHANGED Rows, NEW q \in Requests, req'[q] = req[q]
  PROVE  Basis(q)'
BY DEF VInv, Basis, SaveBasis, SubmitBasis, HeldBasis, Unsent, Same, Exists

\* A write decided from the row it replaces leaves a profile that can send.
LEMMA BackedAfterWrite ==
  ASSUME BInv, VInv, NEW r \in Requests, Commits(r), NEW id \in Ids, Wins(r, id)
  PROVE  BackedUnlessRaced'
<1> USE DEF BInv, Basics
<1>1. /\ profiles'[id].type = req[r].type /\ profiles'[id].fresh = Decided(r, id)
      /\ creds'[id] = (creds[id] \cup Changed(r)) \ Deleted(r)
  <2> DEFINE row == [type |-> req[r].type, by |-> r, fresh |-> Decided(r, id)]
  <2>1. profiles' = [profiles EXCEPT ![id] = row]
    BY DEF Wins, Written
  <2>2. row.type = req[r].type /\ row.fresh = Decided(r, id)
    OBVIOUS
  <2> HIDE DEF row
  <2> QED
    BY <2>1, <2>2 DEF Wins, Written, TypeOK
<1>2. Decided(r, id) => Backing(req[r].type) \subseteq creds'[id]
  <2> SUFFICES ASSUME Decided(r, id) PROVE Backing(req[r].type) \subseteq creds'[id]
    OBVIOUS
  <2>1. CASE CallbackCommits(r)
    <3>1. req[r].op = "callback" /\ req[r].type = "oauth"
      BY <2>1 DEF CallbackCommits, StageOK
    <3>2. Changed(r) = {"token"} /\ Deleted(r) = {"password"} /\ Backing("oauth") = {"token"}
      BY <3>1 DEF Changed, Deleted, Backing
    <3> QED
      BY <1>1, <3>1, <3>2
  <2>2. CASE SaveCommits(r)
    <3>1. req[r].op = "save" /\ req[r].at = "save" /\ req[r].type \in Types
      BY <2>2 DEF SaveCommits, StageOK
    <3>2. req[r].id > 0 => Same(r) /\ req[r].id = id
      BY DEF Wins, Decided, Same
    <3>3. CASE req[r].type = "smtp"
      BY <3>3 DEF Backing
    <3>4. CASE req[r].type = "app" /\ req[r].password
      BY <1>1, <3>1, <3>4 DEF Backing, Changed, Deleted
    <3>5. CASE req[r].type = "app" /\ ~req[r].password
      <4>1. req[r].seen.type = "app" /\ "password" \in creds[id]
        BY <3>1, <3>2, <3>5 DEF VInv, Basis, SaveBasis
      <4> QED
        BY <1>1, <3>1, <3>5, <4>1 DEF Backing, Deleted
    <3>6. CASE req[r].type = "oauth"
      <4>1. "token" \in creds[id]
        BY <3>1, <3>2, <3>6 DEF VInv, Basis, SaveBasis
      <4> QED
        BY <1>1, <3>6, <4>1 DEF Backing, Deleted
    <3> QED
      BY <3>1, <3>3, <3>4, <3>5, <3>6 DEF Types
  <2> QED
    BY <2>1, <2>2 DEF Commits
<1>3. ASSUME NEW i \in Ids, profiles'[i].fresh
      PROVE  Backing(profiles'[i].type) \subseteq creds'[i]
  <2>1. CASE i = id
    BY <1>1, <1>2, <1>3, <2>1
  <2>2. CASE i # id
    BY <1>3, <2>2, WinsElsewhere DEF VInv, BackedUnlessRaced
  <2> QED
    BY <2>1, <2>2
<1> QED
  BY <1>3 DEF BackedUnlessRaced

LEMMA VInvKept == BInv /\ VInv /\ [Next]_vars => VInv'
<1> SUFFICES ASSUME BInv, VInv, [Next]_vars PROVE VInv'
  OBVIOUS
<1> USE DEF BInv, Basics
<1>1. CASE UNCHANGED <<Rows, req>>
  BY <1>1, BasisUndisturbed DEF VInv, VersionsPast, BackedUnlessRaced, Wrote
<1>2. ASSUME NEW r \in Requests, Looks(r) \/ Commits(r) \/ Delete(r)
      PROVE  VInv'
  <2>1. Moves(r) /\ Basis(r)'
    BY <1>2, LooksMoves, CommitsMoves, DeleteMoves, BasisOwn
  <2>2. \A q \in Requests \ {r} : req'[q] = req[q]
    BY <2>1, MovesBasics
  <2>3. CASE UNCHANGED Rows
    <3>1. \A q \in Requests : Basis(q)'
      BY <2>1, <2>2, <2>3, BasisUndisturbed
    <3>2. (\E i \in Ids : profiles'[i].by = r) => Wrote(r)
      BY <2>3 DEF VInv, VersionsPast
    <3>3. VersionsPast'
      BY <1>2, <2>1, <2>3, <3>2, VersionsKept DEF VInv
    <3> QED
      BY <2>3, <3>1, <3>3 DEF VInv, BackedUnlessRaced
  <2>4. ASSUME NEW id \in Ids, Commits(r), Wins(r, id)
        PROVE  VInv'
    <3>1. req[r].at \in {"save", "connect"} /\ req'[r].at = "answer"
      BY <2>4, CommitsMoves DEF Wins
    <3>2. \A q \in Requests : Basis(q)'
      BY <2>1, <2>2, <2>4, <3>1, BasisAfterWrite
    <3>3. \A i \in Ids : profiles'[i].by \in {profiles[i].by, r, Nobody}
      <4>1. profiles'[id].by = r
        BY <2>4 DEF Wins, Written, TypeOK
      <4> QED
        BY <2>4, <4>1, WinsElsewhere
    <3>4. VersionsPast'
      BY <1>2, <2>1, <3>1, <3>3, VersionsKept DEF VInv
    <3> QED
      BY <2>4, <3>2, <3>4, BackedAfterWrite DEF VInv
  <2>5. ASSUME NEW id \in Ids, Delete(r), ~InUse(id),
               profiles' = [profiles EXCEPT ![id] = NoRow], creds' = [creds EXCEPT ![id] = {}]
        PROVE  VInv'
    <3>1. \A q \in Requests : Basis(q)'
      BY <2>1, <2>2, <2>5, BasisAfterDelete
    <3>2. /\ profiles'[id].by = Nobody /\ profiles'[id].type = "none"
          /\ \A i \in Ids : i # id => profiles'[i] = profiles[i] /\ creds'[i] = creds[i]
      BY <2>5 DEF TypeOK, NoRow
    <3>3. \A i \in Ids : profiles'[i].by \in {profiles[i].by, r, Nobody}
      BY <3>2
    <3>4. (\E i \in Ids : profiles'[i].by = r) => Wrote(r)
      BY <3>2, ProfilesAssumption DEF VInv, VersionsPast
    <3>5. VersionsPast'
      BY <1>2, <2>1, <3>3, <3>4, VersionsKept DEF VInv
    <3>6. BackedUnlessRaced'
      BY <3>2 DEF VInv, BackedUnlessRaced, Backing
    <3> QED
      BY <3>1, <3>5, <3>6 DEF VInv
  <2> QED
    BY <1>2, <2>3, <2>4, <2>5, LooksMoves, CommitsMoves, DeleteMoves
<1> QED
  BY <1>1, <1>2, StepShape, ExpiresKeeps

LEMMA VInvInvariant == Spec => []VInv
<1>1. Init => VInv
  <2> SUFFICES ASSUME Init PROVE VInv
    OBVIOUS
  <2>1. \A q \in Requests : req[q] = Idle /\ req[q].at = "arrives" /\ req[q].seen.by = Nobody
    BY DEF Init, Idle, NoRow
  <2>2. PICK t \in Types, extra \in SUBSET {"password"} :
          /\ profiles = [i \in Ids |-> IF i = 1 THEN [type |-> t, by |-> Nobody, fresh |-> TRUE] ELSE NoRow]
          /\ creds = [i \in Ids |-> IF i = 1 THEN Backing(t) \cup extra ELSE {}]
    BY DEF Init
  <2>3. \A i \in Ids : profiles[i].by = Nobody /\ Backing(profiles[i].type) \subseteq creds[i]
    BY <2>2 DEF NoRow, Backing
  <2>4. VersionsPast
    BY <2>1, <2>3, ProfilesAssumption DEF VersionsPast
  <2> QED
    BY <2>1, <2>3, <2>4 DEF VInv, BackedUnlessRaced, Basis, SaveBasis, SubmitBasis, HeldBasis, Unsent
<1> QED
  BY <1>1, VInvKept, BInvInvariant, PTL DEF Spec

\* A save decided from the row it replaces leaves a profile that can send: the
\* credential it counts on is still there when it commits, because a write in
\* between would have made another row of it.
THEOREM BackedIfDecided == Spec => []BackedUnlessRaced
<1>1. VInv => BackedUnlessRaced
  BY DEF VInv
<1> QED
  BY <1>1, VInvInvariant, PTL

\* A task admitted with the profile it had read finds its credential: from its
\* admission on nobody can write or delete the row.
THEOREM AdmittedSends == Spec => []AdmittedCanSend
<1>1. VInv => AdmittedCanSend
  BY DEF VInv, Basis, Unsent, AdmittedCanSend
<1> QED
  BY <1>1, VInvInvariant, PTL
=============================================================================
