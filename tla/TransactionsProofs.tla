-------------------------- MODULE TransactionsProofs --------------------------
(***************************************************************************)
(* Proofs about Transactions and the store of RecordCore under it, for any *)
(* transactions, readers and artifacts, any bounds, and whichever of them  *)
(* may lose their answers.                                                 *)
(***************************************************************************)
EXTENDS Transactions, TLAPS

(* The types, as functions on all ids. *)
StoreType ==
    /\ now \in 0 .. MaxNow /\ currentVersion \in Versions
    /\ manifests \in [Versions -> {"none", "readable", "pruned"}]
    /\ transactions \in [Tx -> Record \cup {NoRecord}]
    /\ blocks \in [Blocks -> [stored: BOOLEAN, added: 0 .. MaxVersion, removed: 0 .. MaxVersion]]
    /\ leases \in [LeaseIds -> Lease \cup {NoLease}]
    /\ job \in Job \cup {NoJob}

ClientType ==
    /\ client \in [Tx -> Client] /\ held \in [Holders -> Snapshot]
    /\ late \in [Tx -> SUBSET Request] /\ published \subseteq Tx

(* They imply the type invariant. *)
LEMMA TypesSuffice == StoreType /\ ClientType => TypeOK
  BY DEF StoreType, ClientType, TypeOK
-------------------------------------------------------------------------------
(* Facts about the constants. *)
LEMMA Constants ==
  /\ MaxVersion \in Nat \ {0} /\ MaxNow \in Nat /\ MaxPins \in Nat /\ TTL \in Nat \ {0}
  /\ RecoveryReads \in Nat \ {0} /\ MaxRetries \in Nat
  /\ 1 \in Versions /\ 0 \in Times /\ 0 \in 0 .. MaxVersion
  /\ 0 \in 0 .. RecoveryReads /\ 0 \in 0 .. MaxRetries /\ 0 \in 0 .. MaxPins
  BY RecordCoreAssumption, TransactionsAssumption DEF Versions, Times

(* A deadline set now is a time. *)
LEMMA Deadline == ASSUME now \in 0 .. MaxNow PROVE now + TTL \in Times
  BY Constants DEF Times

(* The object of a write keeps its type through every operation on it. *)
LEMMA NewClientType == NewClient \in Client
  BY Constants DEF NewClient, Client, PC, Calls, Status, Answers

(* The bookkeeping of the objects keeps their type. *)
LEMMA ProceedType == ASSUME NEW c \in Client PROVE Proceed(c) \in Client
  BY ZenonT(30) DEF Proceed, Client, PC, Calls

(* On the way to a call. *)
LEMMA TowardType ==
  ASSUME NEW t \in Tx, NEW c \in Client, NEW goal \in Calls
  PROVE  Toward(t, c, goal) \in Client
<1>1. [c EXCEPT !.goal = goal] \in Client
  BY DEF Client
<1>2. \A g \in Client : [g EXCEPT !.pc = "renew"] \in Client
  BY DEF Client, PC
<1> QED
  BY <1>1, <1>2, ProceedType DEF Toward

(* At the end of a write. *)
LEMMA EndedType ==
  ASSUME NEW answer \in Answers, NEW settled \in BOOLEAN
  PROVE  Ended(answer, settled) \in Client
  BY NewClientType DEF Ended, Client, PC

(* When it ends with an error of abort(). *)
LEMMA FinishedType ==
  ASSUME NEW c, NEW err
  PROVE  Finished(c, err) \in Client
<1>1. Report(c, err) \in Answers
  BY DEF Report, Answers
<1> QED
  BY <1>1, EndedType, FALSE \in BOOLEAN, Zenon DEF Finished

(* When abort() has returned. *)
LEMMA SettledType == ASSUME NEW c \in Client PROVE Settled(c) \in Client
<1>1. Report(c, "none") \in Answers
  BY DEF Report, Answers
<1>2. c.persisted \in BOOLEAN
  BY DEF Client
<1> QED
  BY <1>1, <1>2, EndedType, Zenon DEF Settled

Errors == {"none", "unknown", "conflict", "refused"}

(* When the write failed. *)
LEMMA FailedType ==
  ASSUME NEW t \in Tx, NEW c \in Client, NEW err \in Errors
  PROVE  Failed(t, c, err) \in Client
<1>1. [c EXCEPT !.err = err] \in Client
  BY DEF Client, Errors
<1>2. "abort" \in Calls
  BY DEF Calls
<1> QED
  BY <1>1, <1>2, TowardType, SettledType, Zenon DEF Failed

(* With the record that was read back. *)
LEMMA AdoptedType ==
  ASSUME ClientType, NEW t \in Tx, transactions[t] \in Record
  PROVE  Adopted(t) \in Client
<1>1. client[t] \in Client
  BY DEF ClientType
<1>2. /\ transactions[t].status \in Status /\ transactions[t].revision \in Nat
      /\ transactions[t].snapshot \in Versions /\ transactions[t].expires \in Times
      /\ transactions[t].journaled \in BOOLEAN
  BY DEF Record
<1> QED
  BY <1>1, <1>2, TRUE \in BOOLEAN, Zenon DEF Adopted, Client

(* The call of a commit. *)
LEMMA GoalType == ASSUME NEW c PROVE CommitGoal(c) \in Calls
  BY DEF CommitGoal, Calls

(* A write that is told to go somewhere else keeps its type. *)
LEMMA GotoType ==
  ASSUME NEW c \in Client, NEW pc \in PC
  PROVE  [c EXCEPT !.pc = pc] \in Client
  BY DEF Client

(* Any object of the type. *)
LEMMA BecomeType ==
  ASSUME ClientType, NEW t \in Tx, NEW c \in Client, Become(t, c)
  PROVE  client' \in [Tx -> Client]
  BY DEF ClientType, Become

(* After an answer. *)
LEMMA SucceededType ==
  ASSUME ClientType, NEW t \in Tx
  PROVE  Succeeded(t) \in Client
<1> DEFINE c == client[t]
<1>1. c \in Client
  BY DEF ClientType
<1>2. /\ c.revision \in Nat /\ c.target \in Versions
      /\ \A n \in Nat : n + 1 \in Nat
      /\ "stage" \in Calls /\ "open" \in PC /\ "committed" \in Answers
  BY <1>1 DEF Client, Calls, PC, Answers
<1>3. [c EXCEPT !.persisted = TRUE] \in Client
  BY <1>1 DEF Client
<1>4. [c EXCEPT !.journaled = TRUE, !.revision = @ + 1, !.pc = "open"] \in Client
  BY <1>1, <1>2 DEF Client
<1>5. [c EXCEPT !.snapshot = c.target, !.revision = @ + 1] \in Client
  BY <1>1, <1>2 DEF Client
<1> QED
  BY <1>1, <1>2, <1>3, <1>4, <1>5, TowardType, GoalType, SettledType, EndedType,
     FALSE \in BOOLEAN, Zenon DEF Succeeded

(* When an answer is missing. *)
LEMMA RecoveringType ==
  ASSUME ClientType, NEW t \in Tx, NEW err \in Errors
  PROVE  Recovering(t, err) \in Client
<1> DEFINE c == [client[t] EXCEPT !.err = err]
<1>1. c \in Client
  BY DEF ClientType, Client, Errors
<1>2. {"createRead", "stageRead", "rebaseRead", "recover"} \subseteq PC
  BY DEF PC
<1>3. [c EXCEPT !.pc = "recover", !.reads = 0] \in Client
  BY <1>1, Constants DEF Client, PC
<1> HIDE DEF c
<1>4. \/ Recovering(t, err) = Failed(t, c, err)
      \/ \E pc \in {"createRead", "stageRead", "rebaseRead"} :
            Recovering(t, err) = [c EXCEPT !.pc = pc]
      \/ Recovering(t, err) = [c EXCEPT !.pc = "recover", !.reads = 0]
  BY Zenon DEF Recovering, c
<1>5. Failed(t, c, err) \in Client
  BY <1>1, FailedType
<1>6. \A pc \in {"createRead", "stageRead", "rebaseRead"} : [c EXCEPT !.pc = pc] \in Client
  BY <1>1, <1>2, GotoType
<1> QED
  BY <1>3, <1>4, <1>5, <1>6, Zenon

(* When the store refused. *)
LEMMA RethrownType ==
  ASSUME ClientType, NEW t \in Tx
  PROVE  Rethrown(t) \in Client
<1>1. client[t] \in Client /\ client[t].err \in Errors /\ client[t].retries \in 0 .. MaxRetries
  BY DEF ClientType, Client, Errors
<1>2. client[t].retries < MaxRetries => client[t].retries + 1 \in 0 .. MaxRetries
  BY <1>1, Constants
<1>3. client[t].retries < MaxRetries =>
        [client[t] EXCEPT !.pc = "rebaseRead", !.retries = @ + 1, !.err = "none"] \in Client
  BY <1>1, <1>2, Zenon DEF Client, PC
<1> QED
  BY <1>1, <1>3, FailedType, Zenon DEF Rethrown

(* The request a client waits for is a request. *)
LEMMA CallType ==
  ASSUME ClientType, NEW t \in Tx, Waits(t)
  PROVE  Call(t) \in Request
  BY DEF ClientType, Waits, Call, Request, Client, Calls
-------------------------------------------------------------------------------
(***************************************************************************)
(* What one step of anyone does to the store.                              *)
(***************************************************************************)
Closes(t) ==
    /\ Has(t, "active")
    /\ SetTransaction(t, [transactions[t] EXCEPT !.status = "aborted", !.revision = @ + 1])

LeaseStep == \E records \in [LeaseIds -> Lease \cup {NoLease}] : SetLeases(records)

RequestStep == \E t \in Tx, q \in Request : Execute(t, q) /\ Mark(t, q)

RecordStep == \E t \in Tx : BeginTransaction(t) \/ RenewTransaction(t) \/ Closes(t)

CollectStep ==
    CreateGarbageCollectionJob \/ RunGarbageCollectionStep \/ RemovePrunedManifestRecords

UnleasedStep ==
    \/ RequestStep
    \/ UNCHANGED published /\ (UNCHANGED coreVars \/ RecordStep \/ CollectStep \/ Tick)

StoreStep == UnleasedStep \/ (UNCHANGED published /\ LeaseStep)

(* A lease operation leaves leases where there were leases. *)
LEMMA CreateLeaseStep ==
  ASSUME StoreType, NEW l \in LeaseIds, NEW v \in Versions, CreateLease(l, v)
  PROVE  LeaseStep
<1> DEFINE new == [version |-> v, expires |-> now + TTL, revision |-> 0]
           records == [k \in LeaseIds |-> IF k = l THEN new ELSE Unexpired(k)]
<1>1. new \in Lease
  BY Deadline DEF StoreType, Lease
<1>2. \A k \in LeaseIds : Unexpired(k) \in Lease \cup {NoLease}
  BY DEF Unexpired, StoreType
<1>3. records \in [LeaseIds -> Lease \cup {NoLease}]
  BY <1>1, <1>2
<1> QED
  BY <1>3 DEF CreateLease, LeaseStep

(* A renewal is a step of the leases. *)
LEMMA RenewLeaseStep ==
  ASSUME StoreType, NEW l \in LeaseIds, NEW r, RenewLease(l, r)
  PROVE  LeaseStep
<1> DEFINE records == [leases EXCEPT ![l].expires = now + TTL, ![l].revision = @ + 1]
<1>1. leases \in [LeaseIds -> Lease \cup {NoLease}] /\ leases[l] \in Lease
  BY DEF RenewLease, LeaseLive, StoreType
<1>2. leases[l].revision + 1 \in Nat /\ now + TTL \in Times
  BY <1>1, Deadline DEF Lease, StoreType
<1>3. [leases[l] EXCEPT !.expires = now + TTL, !.revision = @ + 1] \in Lease
  BY <1>1, <1>2 DEF Lease
<1>4. records = [leases EXCEPT ![l] = [leases[l] EXCEPT !.expires = now + TTL, !.revision = @ + 1]]
  BY <1>1
<1>5. records \in [LeaseIds -> Lease \cup {NoLease}]
  BY <1>1, <1>3, <1>4
<1> QED
  BY <1>5 DEF RenewLease, LeaseStep

(* So is a move. *)
LEMMA MoveLeaseStep ==
  ASSUME StoreType, NEW l \in LeaseIds, NEW r, NEW v \in Versions, MoveLease(l, r, v)
  PROVE  LeaseStep
<1> DEFINE new == [version |-> v, expires |-> now + TTL, revision |-> leases[l].revision + 1]
           records == [leases EXCEPT ![l] = new]
<1>1. leases \in [LeaseIds -> Lease \cup {NoLease}] /\ leases[l] \in Lease
  BY DEF MoveLease, LeaseLive, StoreType
<1>2. leases[l].revision + 1 \in Nat /\ now + TTL \in Times
  BY <1>1, Deadline DEF Lease, StoreType
<1>3. new \in Lease
  BY <1>1, <1>2 DEF Lease
<1>4. records \in [LeaseIds -> Lease \cup {NoLease}]
  BY <1>1, <1>3
<1> QED
  BY <1>4 DEF MoveLease, LeaseStep

(* And a release. *)
LEMMA RemoveLeaseStep ==
  ASSUME StoreType, NEW l \in LeaseIds, RemoveLease(l)
  PROVE  LeaseStep
<1> DEFINE records == [leases EXCEPT ![l] = NoLease]
<1>1. records \in [LeaseIds -> Lease \cup {NoLease}]
  BY DEF StoreType
<1> QED
  BY <1>1 DEF RemoveLease, LeaseStep

(* The object of a holder names a lease and a version. *)
LEMMA HeldType ==
  ASSUME ClientType, NEW h \in Holders
  PROVE  /\ held[h].version \in Versions /\ held[h].pins \in 0 .. MaxPins
         /\ <<h, held[h].pins>> \in LeaseIds
         /\ held[h].pins < MaxPins => /\ held[h].pins + 1 \in 0 .. MaxPins
                                      /\ <<h, held[h].pins + 1>> \in LeaseIds
  BY Constants DEF ClientType, Snapshot, LeaseIds

(* Closing an expired record closes an active one. *)
LEMMA ExpiredCloses ==
  ASSUME NEW t \in Tx, NEW cutoff, AbortTransactionIfExpired(t, cutoff)
  PROVE  RecordStep
  BY DEF AbortTransactionIfExpired, RecordStep, Closes

(* The steps that are not of a snapshot take the store through one of its other operations. *)
LEMMA UnleasedShape ==
  ASSUME ClientType, ClientNext \/ StoreNext \/ UNCHANGED vars,
         \A t \in Tx : ~PinDeferred(t) /\ ~MoveSnapshotLease(t)
  PROVE  UnleasedStep /\ UNCHANGED held
<1> USE DEF UnleasedStep
<1>1. CASE UNCHANGED vars
  BY <1>1 DEF vars
<1>2. ASSUME NEW t \in Tx,
             \/ ProbeDeferred(t) \/ Stage(t) \/ Commit(t) \/ GiveUp(t) \/ RenewRead(t) \/ Refused(t)
             \/ CreateRead(t) \/ StageRead(t) \/ RecoverCommitted(t) \/ RebaseRead(t)
             \/ AbortRead(t) \/ SettleRead(t)
      PROVE  UnleasedStep /\ UNCHANGED held
  BY <1>2 DEF ProbeDeferred, Stage, Commit, GiveUp, RenewRead, Refused, CreateRead, StageRead,
              RecoverCommitted, RebaseRead, AbortRead, SettleRead
<1>3. ASSUME NEW t \in Tx,
             BeginWithReservation(t) \/ RenewOwnership(t) \/ RenewFails(t) \/ Heartbeat(t)
      PROVE  UnleasedStep /\ UNCHANGED held
  BY <1>3 DEF BeginWithReservation, RenewOwnership, RenewFails, Heartbeat, RecordStep
<1>4. ASSUME NEW t \in Tx, SettleLostBegin(t)
      PROVE  UnleasedStep /\ UNCHANGED held
  BY <1>4 DEF SettleLostBegin, AbortTransaction, AbortAccepts, RecordStep, Closes
<1>5. ASSUME NEW t \in Tx, SettleLapsedAbort(t)
      PROVE  UnleasedStep /\ UNCHANGED held
  BY <1>5, ExpiredCloses DEF SettleLapsedAbort
<1>6. ASSUME NEW t \in Tx, Answered(t) \/ Lost(t)
      PROVE  UnleasedStep /\ UNCHANGED held
  BY <1>6, CallType DEF Answered, Lost, RequestStep
<1>7. ASSUME NEW t \in Tx, LateArrives(t)
      PROVE  UnleasedStep /\ UNCHANGED held
  <2>1. \A q \in late[t] : q \in Request
    BY DEF ClientType
  <2> QED
    BY <1>7, <2>1 DEF LateArrives, RequestStep
<1>8. CASE StoreNext
  BY <1>8, ExpiredCloses DEF StoreNext, SweepExpired, CollectStep
<1> QED
  BY <1>1, <1>2, <1>3, <1>4, <1>5, <1>6, <1>7, <1>8 DEF ClientNext

(* Every step takes the store through one of its operations. *)
LEMMA StepShape ==
  ASSUME StoreType, ClientType, [Next]_vars
  PROVE  StoreStep
<1> USE DEF StoreStep
<1>1. CASE /\ ClientNext \/ StoreNext \/ UNCHANGED vars
           /\ \A t \in Tx : ~PinDeferred(t) /\ ~MoveSnapshotLease(t)
  BY <1>1, UnleasedShape
<1>2. ASSUME NEW t \in Tx, PinDeferred(t)
      PROVE  StoreStep
  <2>1. t \in Holders /\ client[t].snapshot \in Versions
    BY DEF Holders, ClientType, Client
  <2> QED
    BY <1>2, <2>1, HeldType, CreateLeaseStep DEF PinDeferred, OpenPin, UnleasedStep
<1>3. ASSUME NEW t \in Tx, MoveSnapshotLease(t)
      PROVE  StoreStep
  <2>1. t \in Holders /\ client[t].target \in Versions
    BY DEF Holders, ClientType, Client
  <2> QED
    BY <1>3, <2>1, HeldType, MoveLeaseStep DEF MoveSnapshotLease, Moved, MoveLost, UnleasedStep
<1>4. ASSUME NEW h \in Holders, RenewHeld(h) \/ Repin(h) \/ RemoveHeld(h)
      PROVE  StoreStep
  BY <1>4, HeldType, RenewLeaseStep, CreateLeaseStep, RemoveLeaseStep
  DEF RenewHeld, Repin, RemoveHeld, OpenPin, UnleasedStep
<1>5. ASSUME NEW r \in Readers, ProbeReader(r) \/ PinReader(r) \/ MoveReader(r) \/ CloseReader(r)
      PROVE  StoreStep
  <2>1. r \in Holders /\ currentVersion \in Versions
    BY DEF Holders, StoreType
  <2> QED
    BY <1>5, <2>1, HeldType, MoveLeaseStep, CreateLeaseStep
    DEF ProbeReader, PinReader, MoveReader, CloseReader, Moved, MoveLost, OpenPin, UnleasedStep
<1> QED
  BY <1>1, <1>2, <1>3, <1>4, <1>5 DEF Next, LeaseNext
-------------------------------------------------------------------------------
(* A record that is there has the type of one. *)
LEMMA PresentRecord ==
  ASSUME StoreType, NEW t \in Tx, transactions[t] # NoRecord
  PROVE  transactions[t] \in Record
  BY DEF StoreType

(* A revision has a next one. *)
LEMMA NextRevision == \A n \in Nat : n + 1 \in Nat
  OBVIOUS

(* A record that is absent or active is created, renewed, moved on or closed; its artifact *)
(* may be stored.                                                                          *)
Touches(t) ==
    /\ transactions[t] = NoRecord \/ Has(t, "active")
    /\ \E record \in Record :
          /\ record.status \in {"active", "aborted"}
          /\ transactions' = [transactions EXCEPT ![t] = record]
    /\ \/ UNCHANGED blocks
       \/ blocks' = [blocks EXCEPT ![t].stored = TRUE]
    /\ UNCHANGED <<now, manifests, currentVersion, leases, job>>

(* What a request that does not publish does. *)
LEMMA QuietRequest ==
  ASSUME StoreType, NEW t \in Tx, NEW q \in Request, Execute(t, q),
         ~(CommitTransaction(t, q) \/ WriteTransaction(t, q))
  PROVE  Touches(t)
<1> USE DEF Touches
<1>1. CASE CreateTransaction(t, q)
  <2>1. NewRecord(q.version, q.expires) \in Record
    BY Constants DEF NewRecord, Record, Status, Request
  <2>2. NewRecord(q.version, q.expires).status = "active"
    BY DEF NewRecord
  <2> QED
    BY <1>1, <2>1, <2>2 DEF CreateTransaction, CreateAccepts, SetTransaction
<1>2. CASE StageTransactionArtifacts(t, q)
  <2>1. Has(t, "active") /\ transactions[t] \in Record /\ transactions \in [Tx -> Record \cup {NoRecord}]
    BY <1>2, PresentRecord DEF StageTransactionArtifacts, StageAccepts, AtRevision, Has, StoreType
  <2> DEFINE record == [transactions[t] EXCEPT !.journaled = TRUE, !.revision = @ + 1]
  <2>2. record \in Record /\ record.status = "active"
    BY <2>1, NextRevision, TRUE \in BOOLEAN, Zenon DEF Record, Has
  <2>3. [transactions EXCEPT ![t].journaled = TRUE, ![t].revision = @ + 1]
          = [transactions EXCEPT ![t] = record]
    BY <2>1
  <2> QED
    BY <1>2, <2>1, <2>2, <2>3 DEF StageTransactionArtifacts
<1>3. CASE AbortTransaction(t, q)
  <2>1. Has(t, "active") /\ transactions[t] \in Record
    BY <1>3, PresentRecord DEF AbortTransaction, AbortAccepts, AtRevision, Has
  <2> DEFINE record == [transactions[t] EXCEPT !.status = "aborted", !.revision = @ + 1]
  <2>2. record \in Record /\ record.status = "aborted"
    BY <2>1, NextRevision, Zenon DEF Record, Status
  <2> QED
    BY <1>3, <2>1, <2>2 DEF AbortTransaction, SetTransaction
<1>4. CASE RebaseTransaction(t, q)
  <2>1. Has(t, "active") /\ transactions[t] \in Record
    BY <1>4, PresentRecord DEF RebaseTransaction, RebaseAccepts, AtRevision, Has
  <2> DEFINE record == [transactions[t] EXCEPT !.snapshot = q.version, !.revision = @ + 1]
  <2>2. record \in Record /\ record.status = "active"
    BY <2>1, NextRevision, Zenon DEF Record, Has, Request
  <2> QED
    BY <1>4, <2>1, <2>2 DEF RebaseTransaction, SetTransaction
<1> QED
  BY <1>1, <1>2, <1>3, <1>4 DEF Execute

(* What a request that publishes does: nothing was committed since the version it names. *)
LEMMA PublishingRequest ==
  ASSUME StoreType, NEW t \in Tx, NEW q \in Request, CommitTransaction(t, q) \/ WriteTransaction(t, q)
  PROVE  /\ MayPublish(q) /\ Publishes(q)
         /\ transactions[t] = NoRecord \/ Has(t, "active")
         /\ \E record \in Record : record.snapshot = currentVersion /\ ApplyCommit(t, q, record)
<1>1. CASE CommitTransaction(t, q)
  <2>1. Has(t, "active") /\ transactions[t] \in Record
    BY <1>1, PresentRecord DEF CommitTransaction, CommitAccepts, AtRevision, Has
  <2> DEFINE record == [transactions[t] EXCEPT !.revision = @ + 1]
  <2>2. record \in Record /\ record.snapshot = transactions[t].snapshot
    BY <2>1 DEF Record
  <2> QED
    BY <1>1, <2>1, <2>2 DEF CommitTransaction, CommitAccepts, MayPublish, Publishes
<1>2. CASE BegunAccepts(t, q) /\ ApplyCommit(t, q, [transactions[t] EXCEPT !.revision = @ + 2])
  <2>1. Has(t, "active") /\ transactions[t] \in Record
    BY <1>2, PresentRecord DEF BegunAccepts, AtRevision, Has
  <2> DEFINE record == [transactions[t] EXCEPT !.revision = @ + 2]
  <2>2. record \in Record /\ record.snapshot = transactions[t].snapshot
    BY <2>1 DEF Record
  <2> QED
    BY <1>2, <2>1, <2>2 DEF BegunAccepts, MayPublish, Publishes
<1>3. CASE /\ WriteAccepts(t, q)
           /\ ApplyCommit(t, q, [NewRecord(q.version, q.expires) EXCEPT !.revision = 2])
  <2> DEFINE record == [NewRecord(q.version, q.expires) EXCEPT !.revision = 2]
  <2>1. record \in Record /\ record.snapshot = q.version
    BY Constants DEF NewRecord, Record, Status, Request
  <2> QED
    BY <1>3, <2>1 DEF WriteAccepts, MayPublish, Publishes
<1> QED
  BY <1>1, <1>2, <1>3 DEF WriteTransaction

(* The effects of a publication, field by field. *)
LEMMA ApplyCommitEffect ==
  ASSUME StoreType, NEW t \in Tx, NEW q \in Request, NEW record \in Record, MayPublish(q),
         ApplyCommit(t, q, record)
  PROVE  /\ currentVersion' = currentVersion + 1 /\ currentVersion' \in Versions
         /\ manifests' = [manifests EXCEPT ![currentVersion'] = "readable"]
         /\ blocks' \in [Blocks -> [stored: BOOLEAN, added: 0 .. MaxVersion, removed: 0 .. MaxVersion]]
         /\ blocks'[t] = [stored |-> TRUE, added |-> currentVersion', removed |-> 0]
         /\ \A b \in Blocks \ {t} :
               /\ blocks'[b].stored = blocks[b].stored /\ blocks'[b].added = blocks[b].added
               /\ \/ blocks'[b].removed = blocks[b].removed
                  \/ Visible(b, currentVersion) /\ blocks'[b].removed = currentVersion'
         /\ transactions' \in [Tx -> Record \cup {NoRecord}] /\ transactions'[t] \in Record
         /\ transactions'[t].status = "committed" /\ transactions'[t].committed = currentVersion'
         /\ transactions'[t].snapshot = record.snapshot
         /\ \A u \in Tx \ {t} : transactions'[u] = transactions[u]
         /\ UNCHANGED <<now, leases, job>>
<1>1. currentVersion' = currentVersion + 1 /\ currentVersion' \in Versions /\ currentVersion' \in 0 .. MaxVersion
  BY Constants DEF ApplyCommit, MayPublish, StoreType, Versions
<1>2. t \in Blocks /\ blocks \in [Blocks -> [stored: BOOLEAN, added: 0 .. MaxVersion, removed: 0 .. MaxVersion]]
  BY DEF Blocks, StoreType
<1>3. blocks' = [b \in Blocks |->
                     IF b = t THEN [stored |-> TRUE, added |-> currentVersion', removed |-> 0]
                     ELSE IF b \in q.sources THEN [blocks[b] EXCEPT !.removed = currentVersion']
                     ELSE blocks[b]]
  BY DEF ApplyCommit
<1>4. /\ blocks'[t] = [stored |-> TRUE, added |-> currentVersion', removed |-> 0]
      /\ blocks'[t] \in [stored: BOOLEAN, added: 0 .. MaxVersion, removed: 0 .. MaxVersion]
  BY <1>1, <1>2, <1>3, Constants
<1>5. ASSUME NEW b \in Blocks \ {t}
      PROVE  /\ blocks'[b] \in [stored: BOOLEAN, added: 0 .. MaxVersion, removed: 0 .. MaxVersion]
             /\ blocks'[b].stored = blocks[b].stored /\ blocks'[b].added = blocks[b].added
             /\ \/ blocks'[b].removed = blocks[b].removed
                \/ Visible(b, currentVersion) /\ blocks'[b].removed = currentVersion'
  <2>1. blocks[b] \in [stored: BOOLEAN, added: 0 .. MaxVersion, removed: 0 .. MaxVersion]
    BY <1>2
  <2>2. CASE b \in q.sources
    <3>1. blocks'[b] = [blocks[b] EXCEPT !.removed = currentVersion'] /\ Visible(b, currentVersion)
      BY <1>3, <2>2 DEF MayPublish
    <3> QED
      BY <1>1, <2>1, <3>1
  <2>3. CASE b \notin q.sources
    <3>1. blocks'[b] = blocks[b]
      BY <1>3, <2>3
    <3> QED
      BY <2>1, <3>1
  <2> QED
    BY <2>2, <2>3
<1>6. blocks' \in [Blocks -> [stored: BOOLEAN, added: 0 .. MaxVersion, removed: 0 .. MaxVersion]]
  <2>1. \A b \in Blocks : blocks'[b] \in [stored: BOOLEAN, added: 0 .. MaxVersion, removed: 0 .. MaxVersion]
    BY <1>4, <1>5
  <2>2. blocks' = [b \in Blocks |-> blocks'[b]]
    BY <1>3
  <2> QED
    BY <2>1, <2>2, Zenon
<1> DEFINE new == [record EXCEPT !.status = "committed", !.committed = currentVersion', !.journaled = TRUE]
<1>7. /\ new \in Record /\ new.status = "committed" /\ new.committed = currentVersion'
      /\ new.snapshot = record.snapshot
  BY <1>1 DEF Record, Status
<1>8. transactions' = [transactions EXCEPT ![t] = new] /\ transactions \in [Tx -> Record \cup {NoRecord}]
  BY <1>1 DEF ApplyCommit, StoreType
<1> HIDE DEF new
<1>9. /\ transactions' \in [Tx -> Record \cup {NoRecord}] /\ transactions'[t] = new
      /\ \A u \in Tx \ {t} : transactions'[u] = transactions[u]
  BY <1>7, <1>8
<1> QED
  BY <1>1, <1>4, <1>5, <1>6, <1>7, <1>9 DEF ApplyCommit
(* The other operations on a record. *)
LEMMA TouchesRecord ==
  ASSUME StoreType, NEW t \in Tx, BeginTransaction(t) \/ RenewTransaction(t) \/ Closes(t)
  PROVE  Touches(t)
<1> USE DEF Touches
<1>1. now + TTL \in Times /\ currentVersion \in Versions
  BY Deadline DEF StoreType
<1>2. CASE BeginTransaction(t)
  <2>1. NewRecord(currentVersion, now + TTL) \in Record
    BY <1>1, Constants DEF NewRecord, Record, Status
  <2>2. NewRecord(currentVersion, now + TTL).status = "active"
    BY DEF NewRecord
  <2> QED
    BY <1>2, <2>1, <2>2 DEF BeginTransaction, SetTransaction
<1>3. CASE RenewTransaction(t)
  <2>1. Has(t, "active") /\ transactions[t] \in Record
    BY <1>3, PresentRecord DEF RenewTransaction, Owned, Has
  <2> DEFINE record == [transactions[t] EXCEPT !.expires = now + TTL]
  <2>2. record \in Record /\ record.status = "active"
    BY <1>1, <2>1, Zenon DEF Record, Has
  <2> QED
    BY <1>3, <2>1, <2>2 DEF RenewTransaction, SetTransaction
<1>4. CASE Closes(t)
  <2>1. Has(t, "active") /\ transactions[t] \in Record
    BY <1>4, PresentRecord DEF Closes, Has
  <2> DEFINE record == [transactions[t] EXCEPT !.status = "aborted", !.revision = @ + 1]
  <2>2. record \in Record /\ record.status = "aborted"
    BY <2>1, NextRevision, Zenon DEF Record, Status
  <2> QED
    BY <1>4, <2>1, <2>2 DEF Closes, SetTransaction
<1> QED
  BY <1>2, <1>3, <1>4

(* A touch, field by field. *)
LEMMA TouchEffect ==
  ASSUME StoreType, NEW t \in Tx, Touches(t)
  PROVE  /\ transactions' \in [Tx -> Record \cup {NoRecord}] /\ transactions'[t] \in Record
         /\ transactions'[t].status \in {"active", "aborted"}
         /\ \A u \in Tx \ {t} : transactions'[u] = transactions[u]
         /\ blocks' \in [Blocks -> [stored: BOOLEAN, added: 0 .. MaxVersion, removed: 0 .. MaxVersion]]
         /\ \A b \in Blocks : /\ blocks'[b].added = blocks[b].added
                              /\ blocks'[b].removed = blocks[b].removed
                              /\ blocks[b].stored => blocks'[b].stored
<1>1. t \in Blocks /\ blocks \in [Blocks -> [stored: BOOLEAN, added: 0 .. MaxVersion, removed: 0 .. MaxVersion]]
  BY DEF Blocks, StoreType
<1>2. /\ transactions' \in [Tx -> Record \cup {NoRecord}] /\ transactions'[t] \in Record
      /\ transactions'[t].status \in {"active", "aborted"}
      /\ \A u \in Tx \ {t} : transactions'[u] = transactions[u]
  BY DEF Touches, StoreType
<1>3. CASE UNCHANGED blocks
  BY <1>1, <1>2, <1>3
<1>4. CASE blocks' = [blocks EXCEPT ![t].stored = TRUE]
  <2>1. [blocks[t] EXCEPT !.stored = TRUE] \in [stored: BOOLEAN, added: 0 .. MaxVersion, removed: 0 .. MaxVersion]
    BY <1>1
  <2> QED
    BY <1>1, <1>2, <1>4, <2>1
<1> QED
  BY <1>3, <1>4 DEF Touches

(* A step of the store is a touch, a publication, or a step of the leases, the collector or   *)
(* the clock.                                                                                 *)
Publication(t) ==
    /\ transactions[t] = NoRecord \/ Has(t, "active")
    /\ \E q \in Request, record \in Record :
          MayPublish(q) /\ record.snapshot = currentVersion /\ ApplyCommit(t, q, record)
    /\ published' = published \cup {t}

(* Without the leases, every step. *)
LEMMA UnleasedCases ==
  ASSUME StoreType, UnleasedStep
  PROVE  \/ \E t \in Tx : Touches(t) /\ UNCHANGED published
         \/ \E t \in Tx : Publication(t)
         \/ UNCHANGED published /\ (UNCHANGED coreVars \/ CollectStep \/ Tick)
<1>1. ASSUME NEW t \in Tx, NEW q \in Request, Execute(t, q), Mark(t, q)
      PROVE  Publication(t) \/ (Touches(t) /\ UNCHANGED published)
  <2>1. CASE CommitTransaction(t, q) \/ WriteTransaction(t, q)
    BY <1>1, <2>1, PublishingRequest DEF Publication, Mark
  <2>2. CASE ~(CommitTransaction(t, q) \/ WriteTransaction(t, q))
    <3>1. ~Publishes(q)
      BY <1>1, <2>2 DEF Execute, Publishes, CreateTransaction, CreateAccepts,
                        StageTransactionArtifacts, StageAccepts, AbortTransaction, AbortAccepts,
                        RebaseTransaction, RebaseAccepts
    <3> QED
      BY <1>1, <2>2, <3>1, QuietRequest DEF Mark
  <2> QED
    BY <2>1, <2>2
<1> QED
  BY <1>1, TouchesRecord DEF UnleasedStep, RequestStep, RecordStep

(* With the leases, every step. *)
LEMMA StepCases ==
  ASSUME StoreType, StoreStep
  PROVE  \/ \E t \in Tx : Touches(t) /\ UNCHANGED published
         \/ \E t \in Tx : Publication(t)
         \/ UNCHANGED published /\ (UNCHANGED coreVars \/ LeaseStep \/ CollectStep \/ Tick)
  BY UnleasedCases DEF StoreStep

(* What the collector may do to the manifests, the artifacts and the records. *)
LEMMA CollectEffect ==
  ASSUME StoreType, CollectStep
  PROVE  /\ UNCHANGED <<now, currentVersion>>
         /\ leases' \in [LeaseIds -> Lease \cup {NoLease}] /\ job' \in Job \cup {NoJob}
         /\ manifests' \in [Versions -> {"none", "readable", "pruned"}]
         /\ \A v \in Versions : Readable(v)' => Readable(v)
         /\ Readable(currentVersion) => manifests'[currentVersion] = "readable"
         /\ blocks' \in [Blocks -> [stored: BOOLEAN, added: 0 .. MaxVersion, removed: 0 .. MaxVersion]]
         /\ \A b \in Blocks : /\ blocks'[b].added = blocks[b].added
                              /\ blocks'[b].removed = blocks[b].removed
                              /\ blocks[b].stored /\ Rooted(b) => blocks'[b].stored
         /\ transactions' \in [Tx -> Record \cup {NoRecord}]
         /\ \A t \in Tx : transactions'[t] = transactions[t] \/ (transactions'[t] = NoRecord /\ ~RecordKept(t))
         /\ UNCHANGED manifests \/ UNCHANGED <<blocks, transactions>>
<1> USE DEF StoreType
<1>1. CASE CreateGarbageCollectionJob
  <2>1. \A l \in LeaseIds : Unexpired(l) \in Lease \cup {NoLease}
    BY DEF Unexpired
  <2>2. [cutoff |-> now, family |-> "manifests"] \in Job
    BY Constants DEF Job, Times
  <2> QED
    BY <1>1, <2>1, <2>2 DEF CreateGarbageCollectionJob, Readable
<1>2. ASSUME NEW f, NEW g \in {"blocks", "transactions", "done"}, Examine(f, g)
      PROVE  job' \in Job
  BY <1>2 DEF Examine, Job
<1>3. CASE PruneManifests
  <2>1. job' \in Job
    BY <1>2, <1>3 DEF PruneManifests
  <2>2. /\ manifests' \in [Versions -> {"none", "readable", "pruned"}]
        /\ \A v \in Versions : manifests'[v] = "readable" => manifests[v] = "readable"
        /\ manifests[currentVersion] = "readable" => manifests'[currentVersion] = "readable"
    BY <1>3 DEF PruneManifests, Readable, IsManifestPinned
  <2> QED
    BY <1>3, <2>1, <2>2 DEF PruneManifests, Readable
<1>4. CASE ReclaimBlocks
  <2>1. job' \in Job
    BY <1>2, <1>4 DEF ReclaimBlocks
  <2>2. \A b \in Blocks : [blocks[b] EXCEPT !.stored = FALSE]
                            \in [stored: BOOLEAN, added: 0 .. MaxVersion, removed: 0 .. MaxVersion]
    OBVIOUS
  <2>3. \A b \in Blocks : \/ blocks'[b] = blocks[b]
                          \/ ~Rooted(b) /\ blocks'[b] = [blocks[b] EXCEPT !.stored = FALSE]
    BY <1>4 DEF ReclaimBlocks
  <2>4. blocks' \in [Blocks -> [stored: BOOLEAN, added: 0 .. MaxVersion, removed: 0 .. MaxVersion]]
    BY <1>4, <2>2 DEF ReclaimBlocks
  <2>5. \A b \in Blocks : /\ blocks'[b].added = blocks[b].added
                          /\ blocks'[b].removed = blocks[b].removed
                          /\ blocks[b].stored /\ Rooted(b) => blocks'[b].stored
    BY <2>3, ZenonT(30)
  <2> QED
    BY <1>4, <2>1, <2>4, <2>5 DEF ReclaimBlocks, Readable
<1>5. CASE ReclaimTransactions
  <2>1. job' \in Job
    BY <1>2, <1>5 DEF ReclaimTransactions
  <2>2. /\ transactions' \in [Tx -> Record \cup {NoRecord}]
        /\ \A t \in Tx : transactions'[t] = transactions[t] \/ (transactions'[t] = NoRecord /\ ~RecordKept(t))
    BY <1>5 DEF ReclaimTransactions
  <2> QED
    BY <1>5, <2>1, <2>2 DEF ReclaimTransactions, Readable
<1>6. CASE RemovePrunedManifestRecords
  <2>1. /\ manifests' \in [Versions -> {"none", "readable", "pruned"}]
        /\ \A v \in Versions : manifests'[v] = "readable" => manifests[v] = "readable"
    BY <1>6 DEF RemovePrunedManifestRecords
  <2>2. manifests[currentVersion] = "readable" => manifests'[currentVersion] = "readable"
    BY <1>6 DEF RemovePrunedManifestRecords, Readable, Versions
  <2> QED
    BY <1>6, <2>1, <2>2 DEF RemovePrunedManifestRecords, Readable
<1> QED
  BY <1>1, <1>3, <1>4, <1>5, <1>6 DEF CollectStep, RunGarbageCollectionStep

(* The store keeps its type. *)
LEMMA StoreTypeStep ==
  ASSUME StoreType, StoreStep
  PROVE  StoreType'
<1>1. ASSUME NEW t \in Tx, Touches(t)
      PROVE  StoreType'
  BY <1>1, TouchEffect DEF Touches, StoreType
<1>2. ASSUME NEW t \in Tx, Publication(t)
      PROVE  StoreType'
  <2>1. PICK q \in Request, record \in Record : MayPublish(q) /\ ApplyCommit(t, q, record)
    BY <1>2 DEF Publication
  <2>2. manifests' \in [Versions -> {"none", "readable", "pruned"}]
    BY <2>1, ApplyCommitEffect DEF StoreType
  <2> QED
    BY <2>1, <2>2, ApplyCommitEffect DEF StoreType
<1>3. CASE UNCHANGED coreVars
  BY <1>3 DEF coreVars, StoreType
<1>4. CASE LeaseStep
  BY <1>4 DEF LeaseStep, SetLeases, StoreType
<1>5. CASE CollectStep
  BY <1>5, CollectEffect DEF StoreType
<1>6. CASE Tick
  BY <1>6, Constants DEF Tick, StoreType
<1> QED
  BY <1>1, <1>2, <1>3, <1>4, <1>5, <1>6, StepCases
-------------------------------------------------------------------------------
(***************************************************************************)
(* The store, in every state: what is current can be read and nothing is   *)
(* newer; no listing is newer either; a committed record names the version *)
(* that lists its artifact.                                                *)
(***************************************************************************)
CurrentIsLast == Readable(currentVersion) /\ \A v \in Versions : Readable(v) => v <= currentVersion

ListedByNow ==
    \A b \in Blocks : blocks[b].added <= currentVersion /\ blocks[b].removed <= currentVersion

CommittedIsListed == \A t \in Tx : Has(t, "committed") => transactions[t].committed = blocks[t].added

StoreInv ==
    /\ StoreType
    /\ CurrentIsLast /\ ListedByNow /\ CommittedIsListed
    /\ ReadableComplete /\ NoLostUpdate /\ WitnessKept
(* The initial store. *)
LEMMA StoreInvInit == Init => StoreInv
<1> SUFFICES ASSUME Init PROVE StoreInv
  OBVIOUS
<1> USE Constants DEF Init, CoreInit
<1>1. StoreType
  <2>1. \A b \in Blocks : blocks[b] \in [stored: BOOLEAN, added: 0 .. MaxVersion, removed: 0 .. MaxVersion]
    OBVIOUS
  <2> QED
    BY <2>1 DEF StoreType
<1>2. CurrentIsLast
  BY DEF CurrentIsLast, Readable, Versions
<1>3. ListedByNow
  BY DEF ListedByNow
<1>4. CommittedIsListed /\ NoLostUpdate /\ WitnessKept
  BY DEF CommittedIsListed, NoLostUpdate, WitnessKept, Has
<1>5. ReadableComplete
  BY DEF ReadableComplete, Visible
<1> QED
  BY <1>1, <1>2, <1>3, <1>4, <1>5 DEF StoreInv

(* A touch keeps it: what is published stands on a record that is committed. *)
LEMMA TouchKeeps ==
  ASSUME StoreInv, published \subseteq Tx, NEW t \in Tx, Touches(t), UNCHANGED published
  PROVE  /\ CurrentIsLast' /\ ListedByNow' /\ CommittedIsListed'
         /\ ReadableComplete' /\ NoLostUpdate' /\ WitnessKept'
<1>1. UNCHANGED <<manifests, currentVersion>>
  BY DEF Touches
<1>2. StoreType /\ ~Has(t, "committed")
  BY DEF StoreInv, Touches, Has
<1>3. ~Has(t, "committed")' /\ \A u \in Tx \ {t} : Has(u, "committed")' <=> Has(u, "committed")
  BY <1>2, TouchEffect DEF Has
<1>4. CurrentIsLast'
  BY <1>1 DEF StoreInv, CurrentIsLast, Readable
<1>5. ListedByNow'
  BY <1>1, <1>2, TouchEffect DEF StoreInv, ListedByNow
<1>6. Tx \subseteq Blocks
  BY DEF Blocks
<1>7. CommittedIsListed' /\ NoLostUpdate'
  BY <1>2, <1>3, <1>6, TouchEffect DEF StoreInv, CommittedIsListed, NoLostUpdate
<1>8. ReadableComplete'
  BY <1>1, <1>2, TouchEffect DEF StoreInv, ReadableComplete, Readable, Visible
<1>9. WitnessKept'
  <2> SUFFICES ASSUME NEW u \in published, blocks'[u].added # 0, manifests'[blocks'[u].added] = "readable"
               PROVE  Has(u, "committed")'
    BY DEF WitnessKept, Readable
  <2>1. u \in Tx
    OBVIOUS
  <2> QED
    BY <1>1, <1>2, <1>3, <1>6, <2>1, TouchEffect DEF StoreInv, WitnessKept, Readable
<1> QED
  BY <1>4, <1>5, <1>7, <1>8, <1>9

(* A publication keeps it: its sources were visible until now, and it checked the version. *)
LEMMA PublicationKeeps ==
  ASSUME StoreInv, published \subseteq Tx, NEW t \in Tx, Publication(t)
  PROVE  /\ CurrentIsLast' /\ ListedByNow' /\ CommittedIsListed'
         /\ ReadableComplete' /\ NoLostUpdate' /\ WitnessKept'
<1>1. PICK q \in Request, record \in Record :
           MayPublish(q) /\ record.snapshot = currentVersion /\ ApplyCommit(t, q, record)
  BY DEF Publication
<1>2. StoreType /\ Tx \subseteq Blocks /\ currentVersion \in Versions
  BY DEF StoreInv, StoreType, Blocks
<1> DEFINE next == currentVersion + 1
<1>3. /\ currentVersion' = next /\ next \in Versions
      /\ manifests' = [manifests EXCEPT ![next] = "readable"]
      /\ manifests \in [Versions -> {"none", "readable", "pruned"}]
  BY <1>1, <1>2, ApplyCommitEffect DEF StoreType
<1>4. \A v \in Versions : v \in Nat /\ (Readable(v)' <=> Readable(v) \/ v = next)
  BY <1>3 DEF Readable, Versions
<1>5. /\ blocks'[t] = [stored |-> TRUE, added |-> next, removed |-> 0]
      /\ \A b \in Blocks \ {t} :
            /\ blocks'[b].stored = blocks[b].stored /\ blocks'[b].added = blocks[b].added
            /\ \/ blocks'[b].removed = blocks[b].removed
               \/ Visible(b, currentVersion) /\ blocks'[b].removed = next
  BY <1>1, <1>2, <1>3, ApplyCommitEffect, ZenonT(30)
<1>6. /\ transactions'[t] \in Record
      /\ transactions'[t].status = "committed" /\ transactions'[t].committed = next
      /\ transactions'[t].snapshot = currentVersion
      /\ \A u \in Tx \ {t} : transactions'[u] = transactions[u]
  BY <1>1, <1>2, <1>3, ApplyCommitEffect
<1>7. /\ Has(t, "committed")' /\ ~Has(t, "committed")
      /\ \A u \in Tx \ {t} : Has(u, "committed")' <=> Has(u, "committed")
  BY <1>6, AbsenceAssumption DEF Has, Publication
<1>8. \A b \in Blocks : /\ blocks[b].added \in Nat /\ blocks[b].removed \in Nat
                        /\ blocks[b].added <= currentVersion /\ blocks[b].removed <= currentVersion
  BY <1>2 DEF StoreInv, StoreType, ListedByNow
<1>9. currentVersion \in Nat /\ currentVersion > 0
  BY <1>2 DEF Versions
<1>10. CurrentIsLast'
  BY <1>3, <1>4, <1>9 DEF StoreInv, CurrentIsLast
<1>11. ListedByNow'
  BY <1>3, <1>5, <1>8, <1>9 DEF ListedByNow
<1>12. CommittedIsListed'
  BY <1>2, <1>5, <1>6, <1>7 DEF StoreInv, CommittedIsListed
<1>13. NoLostUpdate'
  BY <1>6, <1>7 DEF StoreInv, NoLostUpdate
<1>14. ReadableComplete'
  <2> SUFFICES ASSUME NEW v \in Versions, NEW b \in Blocks \ {t}, Readable(v)', Visible(b, v)'
               PROVE  blocks[b].stored
    BY <1>5 DEF ReadableComplete
  <2>1. blocks'[b].added = blocks[b].added /\ blocks[b].added # 0 /\ blocks[b].added <= v
    BY <1>5 DEF Visible
  <2>2. CASE v = next
    <3>1. blocks'[b].removed = blocks[b].removed /\ blocks[b].removed = 0
      BY <1>5, <1>8, <1>9, <2>2 DEF Visible
    <3>2. Visible(b, currentVersion)
      BY <1>8, <1>9, <2>1, <3>1 DEF Visible
    <3> QED
      BY <1>2, <3>2 DEF StoreInv, CurrentIsLast, ReadableComplete
  <2>3. CASE v # next
    <3>1. Readable(v) /\ v <= currentVersion /\ v \in Nat
      BY <1>4, <2>3 DEF StoreInv, CurrentIsLast
    <3>2. Visible(b, v)
      BY <1>5, <1>8, <1>9, <2>1, <3>1 DEF Visible
    <3> QED
      BY <3>1, <3>2 DEF StoreInv, ReadableComplete
  <2> QED
    BY <2>2, <2>3
<1>15. WitnessKept'
  <2> SUFFICES ASSUME NEW u \in published', u # t, blocks'[u].added # 0, manifests'[blocks'[u].added] = "readable"
               PROVE  Has(u, "committed")'
    BY <1>7 DEF WitnessKept, Readable
  <2>1. u \in Tx \ {t} /\ u \in published
    BY DEF Publication
  <2>2. blocks'[u].added = blocks[u].added /\ blocks[u].added \in Versions /\ blocks[u].added # next
    BY <1>2, <1>5, <1>8, <1>9, <2>1 DEF StoreType, Versions
  <2>3. Readable(blocks[u].added)
    BY <1>3, <2>2 DEF Readable
  <2> QED
    BY <1>7, <2>1, <2>2, <2>3 DEF StoreInv, WitnessKept
<1> QED
  BY <1>10, <1>11, <1>12, <1>13, <1>14, <1>15

(* The collector keeps it: it decides from the roots of the moment. *)
LEMMA CollectKeeps ==
  ASSUME StoreInv, published \subseteq Tx, CollectStep, UNCHANGED published
  PROVE  /\ CurrentIsLast' /\ ListedByNow' /\ CommittedIsListed'
         /\ ReadableComplete' /\ NoLostUpdate' /\ WitnessKept'
<1>1. StoreType /\ Tx \subseteq Blocks /\ currentVersion \in Versions
  BY DEF StoreInv, StoreType, Blocks
<1>2. UNCHANGED currentVersion /\ \A v \in Versions : Readable(v)' => Readable(v)
  BY <1>1, CollectEffect
<1>3. CurrentIsLast'
  BY <1>1, <1>2, CollectEffect DEF StoreInv, CurrentIsLast, Readable
<1>4. \A b \in Blocks : /\ blocks'[b].added = blocks[b].added
                        /\ blocks'[b].removed = blocks[b].removed
                        /\ blocks[b].stored /\ Rooted(b) => blocks'[b].stored
  BY <1>1, CollectEffect
<1>5. ListedByNow'
  BY <1>2, <1>4 DEF StoreInv, ListedByNow
<1>6. \A t \in Tx : \/ transactions'[t] = transactions[t]
                    \/ transactions'[t] = NoRecord /\ ~RecordKept(t)
  BY <1>1, CollectEffect
<1>7. CommittedIsListed' /\ NoLostUpdate'
  BY <1>1, <1>4, <1>6 DEF StoreInv, CommittedIsListed, NoLostUpdate, Has
<1>8. ReadableComplete'
  <2> SUFFICES ASSUME NEW v \in Versions, NEW b \in Blocks, Readable(v)', Visible(b, v)'
               PROVE  blocks'[b].stored
    BY DEF ReadableComplete
  <2>1. Readable(v) /\ Visible(b, v)
    BY <1>2, <1>4 DEF Visible
  <2> QED
    BY <1>4, <2>1 DEF StoreInv, ReadableComplete, Rooted
<1>9. WitnessKept'
  <2> SUFFICES ASSUME NEW u \in published, blocks'[u].added # 0, manifests'[blocks'[u].added] = "readable"
               PROVE  Has(u, "committed")'
    BY DEF WitnessKept, Readable
  <2>1. u \in Tx /\ blocks[u].added \in Versions /\ blocks'[u].added = blocks[u].added
    BY <1>1, <1>4 DEF StoreType, Versions
  <2>2. Readable(blocks[u].added) /\ Has(u, "committed")
    BY <1>2, <2>1 DEF StoreInv, WitnessKept, Readable
  <2>3. RecordKept(u)
    BY <2>1, <2>2 DEF StoreInv, CommittedIsListed, RecordKept
  <2> QED
    BY <1>6, <2>1, <2>2, <2>3 DEF Has
<1> QED
  BY <1>3, <1>5, <1>7, <1>8, <1>9

(* And so does every step. *)
LEMMA StoreInvStep ==
  ASSUME StoreInv, published \subseteq Tx, StoreStep
  PROVE  StoreInv'
<1>1. StoreType /\ StoreType'
  BY StoreTypeStep DEF StoreInv
<1> USE <1>1
<1>2. ASSUME NEW t \in Tx, Touches(t), UNCHANGED published
      PROVE  StoreInv'
  BY <1>2, TouchKeeps DEF StoreInv
<1>3. ASSUME NEW t \in Tx, Publication(t)
      PROVE  StoreInv'
  BY <1>3, PublicationKeeps DEF StoreInv
<1>4. CASE CollectStep /\ UNCHANGED published
  BY <1>4, CollectKeeps DEF StoreInv
<1>5. CASE UNCHANGED published /\ (UNCHANGED coreVars \/ LeaseStep \/ Tick)
  <2>1. UNCHANGED <<manifests, currentVersion, transactions, blocks, published>>
    BY <1>5 DEF coreVars, LeaseStep, SetLeases, Tick
  <2> QED
    BY <2>1 DEF StoreInv, CurrentIsLast, ListedByNow, CommittedIsListed, ReadableComplete,
                NoLostUpdate, WitnessKept, Readable, Visible, Has
<1> QED
  BY <1>2, <1>3, <1>4, <1>5, StepCases
-------------------------------------------------------------------------------
(***************************************************************************)
(* The objects of the clients keep their types.                            *)
(***************************************************************************)
(* A snapshot object that was just pinned, released or moved. *)
LEMMA OpenPinType ==
  ASSUME StoreType, ClientType, NEW h \in Holders, NEW number \in 0 .. MaxPins, NEW v \in Versions,
         OpenPin(h, number, v)
  PROVE  held' \in [Holders -> Snapshot]
<1> DEFINE new == [mode |-> "open", pins |-> number, version |-> v, expires |-> now + TTL,
                   revision |-> 0, unsure |-> FALSE]
<1>1. new \in Snapshot
  BY Deadline DEF Snapshot, StoreType
<1> QED
  BY <1>1 DEF OpenPin, ClientType

(* A snapshot object in another mode. *)
LEMMA ModeType ==
  ASSUME ClientType, NEW h \in Holders, NEW mode \in {"none", "probed", "open", "lapsed", "lost", "released"}
  PROVE  [held EXCEPT ![h].mode = mode] \in [Holders -> Snapshot]
<1>1. held[h] \in Snapshot /\ held \in [Holders -> Snapshot]
  BY DEF ClientType
<1>2. [held[h] EXCEPT !.mode = mode] \in Snapshot
  BY <1>1 DEF Snapshot
<1> QED
  BY <1>1, <1>2

(* A snapshot object after a move, answered or not. *)
LEMMA MovedType ==
  ASSUME StoreType, ClientType, NEW h \in Holders, NEW v \in Versions, Moved(h, v) \/ MoveLost(h, v)
  PROVE  held' \in [Holders -> Snapshot]
<1>1. held[h] \in Snapshot /\ held \in [Holders -> Snapshot] /\ held[h].revision \in Nat /\ now + TTL \in Times
  BY Deadline DEF ClientType, StoreType, Snapshot
<1>2. [held[h] EXCEPT !.version = v, !.expires = now + TTL, !.revision = @ + 1] \in Snapshot
  BY <1>1, NextRevision, Zenon DEF Snapshot
<1>3. [held[h] EXCEPT !.unsure = TRUE] \in Snapshot
  BY <1>1, TRUE \in BOOLEAN, Zenon DEF Snapshot
<1>4. CASE Moved(h, v)
  <2>1. held' = [held EXCEPT ![h] = [held[h] EXCEPT !.version = v, !.expires = now + TTL, !.revision = @ + 1]]
    BY <1>1, <1>4 DEF Moved
  <2> QED
    BY <1>1, <1>2, <2>1
<1>5. CASE MoveLost(h, v)
  <2>1. held' = [held EXCEPT ![h] = [held[h] EXCEPT !.unsure = TRUE]]
    BY <1>1, <1>5 DEF MoveLost
  <2> QED
    BY <1>1, <1>3, <2>1
<1> QED
  BY <1>4, <1>5

(* The steps of the snapshots. *)
LEMMA LeaseClientType ==
  ASSUME StoreType, ClientType, LeaseNext
  PROVE  ClientType'
<1>1. ASSUME NEW h \in Holders, RenewHeld(h)
      PROVE  held' \in [Holders -> Snapshot]
  <2>1. held[h] \in Snapshot /\ held \in [Holders -> Snapshot] /\ held[h].revision \in Nat /\ now + TTL \in Times
    BY Deadline DEF ClientType, StoreType, Snapshot
  <2>2. [held[h] EXCEPT !.expires = now + TTL, !.revision = @ + 1] \in Snapshot
    BY <2>1, NextRevision, Zenon DEF Snapshot
  <2>3. [held EXCEPT ![h].expires = now + TTL, ![h].revision = @ + 1] =
        [held EXCEPT ![h] = [held[h] EXCEPT !.expires = now + TTL, !.revision = @ + 1]]
    BY <2>1
  <2>4. [held EXCEPT ![h].expires = now + TTL, ![h].revision = @ + 1] \in [Holders -> Snapshot]
    BY <2>1, <2>2, <2>3
  <2>5. [held EXCEPT ![h].mode = "lapsed"] \in [Holders -> Snapshot]
    BY ModeType
  <2> QED
    BY <1>1, <2>1, <2>4, <2>5, Zenon DEF RenewHeld
<1>2. ASSUME NEW h \in Holders, Repin(h)
      PROVE  held' \in [Holders -> Snapshot]
  BY <1>2, HeldType, OpenPinType, ModeType DEF Repin
<1>3. ASSUME NEW h \in Holders, RemoveHeld(h)
      PROVE  held' \in [Holders -> Snapshot]
  <2>1. NewSnapshot \in Snapshot
    BY Constants DEF NewSnapshot, Snapshot
  <2> QED
    BY <1>3, <2>1 DEF RemoveHeld, ClientType
<1>4. Readers \subseteq Holders /\ currentVersion \in Versions
  BY DEF Holders, StoreType
<1>5. ASSUME NEW r \in Readers, ProbeReader(r)
      PROVE  held' \in [Holders -> Snapshot]
  <2>1. held[r] \in Snapshot /\ held \in [Holders -> Snapshot]
    BY <1>4 DEF ClientType
  <2>2. [held[r] EXCEPT !.mode = "probed", !.version = currentVersion] \in Snapshot
    BY <1>4, <2>1, Zenon DEF Snapshot
  <2>3. held' = [held EXCEPT ![r] = [held[r] EXCEPT !.mode = "probed", !.version = currentVersion]]
    BY <1>4, <1>5, <2>1 DEF ProbeReader
  <2> QED
    BY <1>4, <2>1, <2>2, <2>3
<1>6. ASSUME NEW r \in Readers, PinReader(r) \/ MoveReader(r) \/ CloseReader(r)
      PROVE  held' \in [Holders -> Snapshot]
  <2>1. /\ r \in Holders /\ held[r].version \in Versions /\ held[r].pins \in 0 .. MaxPins
        /\ held[r].pins < MaxPins => held[r].pins + 1 \in 0 .. MaxPins
    BY <1>4, HeldType
  <2>2. \A mode \in {"none", "released"} : [held EXCEPT ![r].mode = mode] \in [Holders -> Snapshot]
    BY <2>1, ModeType
  <2>3. CASE PinReader(r)
    BY <2>1, <2>2, <2>3, OpenPinType, Zenon DEF PinReader
  <2>4. CASE MoveReader(r)
    BY <1>4, <2>1, <2>4, OpenPinType, MovedType, Zenon DEF MoveReader
  <2>5. CASE CloseReader(r)
    BY <2>2, <2>5, Zenon DEF CloseReader
  <2> QED
    BY <1>6, <2>3, <2>4, <2>5
<1>7. UNCHANGED <<client, late, published>>
  BY DEF LeaseNext, RenewHeld, Repin, RemoveHeld, ProbeReader, PinReader, MoveReader, CloseReader
<1> QED
  BY <1>1, <1>2, <1>3, <1>5, <1>6, <1>7 DEF LeaseNext, ClientType

(* The object of a write after a step of it. *)
LEMMA WriteClientType ==
  ASSUME StoreType, ClientType, NEW t \in Tx,
         \/ BeginWithReservation(t) \/ SettleLostBegin(t) \/ ProbeDeferred(t) \/ PinDeferred(t)
         \/ Stage(t) \/ Commit(t) \/ GiveUp(t)
         \/ RenewOwnership(t) \/ RenewFails(t) \/ RenewRead(t) \/ Heartbeat(t)
         \/ Answered(t) \/ Refused(t) \/ Lost(t)
         \/ CreateRead(t) \/ StageRead(t) \/ RecoverCommitted(t)
         \/ RebaseRead(t) \/ MoveSnapshotLease(t)
         \/ AbortRead(t) \/ SettleLapsedAbort(t) \/ SettleRead(t)
  PROVE  \E c \in Client : Become(t, c)
<1> DEFINE c == client[t]
<1>1. /\ c \in Client /\ c.persisted \in BOOLEAN /\ c.snapshot \in Versions /\ c.target \in Versions
      /\ c.err \in Errors /\ c.goal \in Calls
      /\ now + TTL \in Times /\ currentVersion \in Versions
      /\ TRUE \in BOOLEAN /\ FALSE \in BOOLEAN /\ "unknown" \in Errors /\ "refused" \in Errors
      /\ "none" \in Errors
  BY Deadline DEF ClientType, StoreType, Client, Errors
<1>2. /\ {"open", "probed", "create", "lostBegin", "idle", "renewRead", "settle", "settleRead", "abortRead", "move"} \subseteq PC
      /\ {"stage", "abort", "rebase"} \subseteq Calls /\ "committed" \in Answers
  BY DEF PC, Calls, Answers
<1>3. \A pc \in PC : [c EXCEPT !.pc = pc] \in Client
  BY <1>1, GotoType
<1>4. transactions[t] # NoRecord => Adopted(t) \in Client
  BY PresentRecord, AdoptedType
<1>5. \A e \in Errors : Failed(t, c, e) \in Client
  BY <1>1, FailedType
<1>6. Finished(c, "none") \in Client /\ Finished(c, "refused") \in Client /\ Finished(c, "unknown") \in Client
  BY FinishedType
<1>7. Settled(c) \in Client /\ Ended("committed", FALSE) \in Client
  BY <1>1, <1>2, SettledType, EndedType
<1>8. CASE BeginWithReservation(t)
  <2>1. Sources(t) \in SUBSET Blocks
    BY DEF Sources
  <2>2. [c EXCEPT !.pc = "open", !.persisted = TRUE, !.snapshot = currentVersion,
                  !.expires = now + TTL, !.sources = Sources(t)] \in Client
    BY <1>1, <1>2, <2>1, Zenon DEF Client
  <2> QED
    BY <1>2, <1>3, <1>8, <2>2, Zenon DEF BeginWithReservation, Goto
<1>9. CASE SettleLostBegin(t)
  BY <1>6, <1>9, Zenon DEF SettleLostBegin
<1>10. CASE ProbeDeferred(t)
  <2>1. \A pc \in {"probed", "open"} :
            [c EXCEPT !.pc = pc, !.snapshot = currentVersion, !.expires = now + TTL] \in Client
    <3> TAKE pc \in {"probed", "open"}
    <3>1. pc \in PC
      BY DEF PC
    <3> QED
      BY <1>1, <3>1, Zenon DEF Client
  <2> QED
    BY <1>10, <2>1, Zenon DEF ProbeDeferred
<1>11. CASE PinDeferred(t)
  <2>1. [c EXCEPT !.pc = "open"] \in Client /\ [c EXCEPT !.pc = "idle"] \in Client
    BY <1>2, <1>3
  <2> QED
    BY <1>11, <2>1, Zenon DEF PinDeferred, Goto
<1>12. CASE Stage(t)
  <2>1. [c EXCEPT !.pc = "create", !.expires = now + TTL] \in Client
    BY <1>1, <1>2, Zenon DEF Client, PC, Calls
  <2>2. Toward(t, c, "stage") \in Client
    BY <1>1, <1>2, TowardType
  <2> QED
    BY <1>12, <2>1, <2>2, Zenon DEF Stage
<1>13. CASE Commit(t)
  BY <1>1, <1>13, TowardType, GoalType, Zenon DEF Commit
<1>14. CASE GiveUp(t)
  BY <1>1, <1>5, <1>14, Zenon DEF GiveUp
<1>15. CASE RenewOwnership(t)
  <2>1. [c EXCEPT !.expires = now + TTL] \in Client
    BY <1>1, Zenon DEF Client
  <2>2. Proceed(c) \in Client /\ Proceed([c EXCEPT !.expires = now + TTL]) \in Client
    BY <1>1, <2>1, ProceedType
  <2>3. [c EXCEPT !.pc = "renewRead"] \in Client
    BY <1>2, <1>3
  <2> QED
    BY <1>15, <2>2, <2>3, Zenon DEF RenewOwnership, Goto
<1>16. CASE RenewFails(t)
  BY <1>1, <1>5, <1>6, <1>16, Zenon DEF RenewFails
<1>17. CASE RenewRead(t)
  <2> DEFINE d == IF transactions[t] = NoRecord THEN client[t] ELSE Adopted(t)
  <2>1. d \in Client
    BY <1>1, <1>4
  <2>2. /\ Failed(t, d, "refused") \in Client /\ Settled(d) \in Client
        /\ [d EXCEPT !.pc = "settle"] \in Client
    BY <1>1, <1>2, <2>1, FailedType, SettledType, GotoType
  <2> QED
    BY <1>17, <2>2, Zenon DEF RenewRead
<1>18. CASE Heartbeat(t)
  <2>1. [c EXCEPT !.expires = now + TTL] \in Client
    BY <1>1, Zenon DEF Client
  <2> QED
    BY <1>4, <1>18, <2>1, Zenon DEF Heartbeat
<1>19. CASE Answered(t)
  BY <1>19, SucceededType, Zenon DEF Answered
<1>20. \A e \in Errors : Recovering(t, e) \in Client
  BY RecoveringType
<1>21. CASE Refused(t)
  <2>1. Refusal(t) \in Errors
    BY DEF Refusal, Errors
  <2>2. [c EXCEPT !.pc = "abortRead"] \in Client
    BY <1>2, <1>3
  <2> QED
    BY <1>20, <1>21, <2>1, <2>2, Zenon DEF Refused
<1>22. CASE Lost(t)
  BY <1>1, <1>6, <1>20, <1>22, Zenon DEF Lost
<1>23. CASE CreateRead(t)
  <2>1. transactions[t] # NoRecord =>
          /\ [Adopted(t) EXCEPT !.err = "none"] \in Client
          /\ Failed(t, Adopted(t), c.err) \in Client
    <3>1. transactions[t] # NoRecord => [Adopted(t) EXCEPT !.err = "none"] \in Client
      BY <1>4 DEF Client
    <3> QED
      BY <1>1, <1>4, <3>1, FailedType
  <2>2. transactions[t] # NoRecord => Toward(t, [Adopted(t) EXCEPT !.err = "none"], "stage") \in Client
    BY <1>2, <2>1, TowardType
  <2> QED
    BY <1>1, <1>5, <1>23, <2>1, <2>2, Zenon DEF CreateRead, AtRevision, Has
<1>24. CASE StageRead(t)
  <2>1. transactions[t] # NoRecord =>
          /\ [Adopted(t) EXCEPT !.pc = "open", !.err = "none"] \in Client
          /\ Failed(t, Adopted(t), c.err) \in Client
    <3>1. transactions[t] # NoRecord => [Adopted(t) EXCEPT !.pc = "open", !.err = "none"] \in Client
      BY <1>1, <1>2, <1>4, Zenon DEF Client, Errors
    <3> QED
      BY <1>1, <1>4, <3>1, FailedType
  <2> QED
    BY <1>1, <1>5, <1>24, <2>1, Zenon DEF StageRead, AtRevision, Has
<1>25. CASE RecoverCommitted(t)
  <2>1. Rethrown(t) \in Client
    BY RethrownType
  <2>2. c.reads + 1 < RecoveryReads => c.reads + 1 \in 0 .. RecoveryReads
    BY <1>1, Constants DEF Client
  <2>3. c.reads + 1 < RecoveryReads => [c EXCEPT !.reads = @ + 1] \in Client
    BY <1>1, <2>2, Zenon DEF Client
  <2> QED
    BY <1>7, <1>25, <2>1, <2>3, Zenon DEF RecoverCommitted
<1>26. CASE RebaseRead(t)
  <2> DEFINE d == [client[t] EXCEPT !.target = currentVersion, !.err = "none"]
  <2>1. d \in Client
    BY <1>1, Zenon DEF Client, Errors
  <2>2. [d EXCEPT !.snapshot = currentVersion] \in Client
    BY <1>1, <2>1, Zenon DEF Client
  <2>3. Toward(t, d, "rebase") \in Client /\ [d EXCEPT !.pc = "move"] \in Client
    BY <1>2, <2>1, TowardType, GotoType
  <2>4. Toward(t, [d EXCEPT !.snapshot = currentVersion], CommitGoal(d)) \in Client
    BY <2>2, TowardType, GoalType
  <2> QED
    BY <1>26, <2>3, <2>4, Zenon DEF RebaseRead
<1>27. CASE MoveSnapshotLease(t)
  <2> DEFINE d == [client[t] EXCEPT !.snapshot = client[t].target, !.goal = CommitGoal(client[t])]
  <2>1. d \in Client
    BY <1>1, GoalType, Zenon DEF Client
  <2>2. Proceed(d) \in Client
    BY <2>1, ProceedType
  <2> QED
    BY <1>1, <1>5, <1>27, <2>2, Zenon DEF MoveSnapshotLease
<1>28. CASE AbortRead(t) \/ SettleRead(t)
  BY <1>6, <1>7, <1>28, Zenon DEF AbortRead, SettleRead
<1>29. CASE SettleLapsedAbort(t)
  <2>1. [c EXCEPT !.pc = "settleRead"] \in Client
    BY <1>2, <1>3
  <2> QED
    BY <1>7, <1>29, <2>1, Zenon DEF SettleLapsedAbort, Goto
<1> QED
  BY <1>8, <1>9, <1>10, <1>11, <1>12, <1>13, <1>14, <1>15, <1>16, <1>17, <1>18, <1>19, <1>21, <1>22,
     <1>23, <1>24, <1>25, <1>26, <1>27, <1>28, <1>29

(* Every step keeps the objects' types. *)
LEMMA ClientTypeStep ==
  ASSUME StoreType, ClientType, [Next]_vars
  PROVE  ClientType'
<1> USE DEF ClientType
<1>1. ASSUME NEW t \in Tx, Mark(t, Call(t))
      PROVE  published' \subseteq Tx
  BY <1>1 DEF Mark
<1>2. ASSUME NEW t \in Tx,
             \/ BeginWithReservation(t) \/ SettleLostBegin(t) \/ ProbeDeferred(t)
             \/ Stage(t) \/ Commit(t) \/ GiveUp(t)
             \/ RenewOwnership(t) \/ RenewFails(t) \/ RenewRead(t) \/ Heartbeat(t)
             \/ Refused(t) \/ CreateRead(t) \/ StageRead(t) \/ RecoverCommitted(t)
             \/ RebaseRead(t) \/ AbortRead(t) \/ SettleLapsedAbort(t) \/ SettleRead(t)
      PROVE  ClientType'
  <2>1. client' \in [Tx -> Client]
    BY <1>2, WriteClientType, BecomeType
  <2>2. UNCHANGED <<held, late, published>>
    BY <1>2 DEF BeginWithReservation, SettleLostBegin, ProbeDeferred, Stage, Commit, GiveUp,
                RenewOwnership, RenewFails, RenewRead, Heartbeat, Refused, CreateRead, StageRead,
                RecoverCommitted, RebaseRead, AbortRead, SettleLapsedAbort, SettleRead
  <2> QED
    BY <2>1, <2>2
<1>3. ASSUME NEW t \in Tx, PinDeferred(t) \/ MoveSnapshotLease(t)
      PROVE  ClientType'
  <2>1. client' \in [Tx -> Client]
    BY <1>3, WriteClientType, BecomeType
  <2>2. t \in Holders /\ client[t].snapshot \in Versions /\ client[t].target \in Versions
    BY DEF Holders, Client
  <2>3. held[t].pins \in 0 .. MaxPins
    BY <2>2, HeldType
  <2>4. held' \in [Holders -> Snapshot]
    <3>1. CASE PinDeferred(t)
      BY <2>2, <2>3, <3>1, OpenPinType, Zenon DEF PinDeferred
    <3>2. CASE MoveSnapshotLease(t)
      BY <2>2, <3>2, MovedType, Zenon DEF MoveSnapshotLease
    <3> QED
      BY <1>3, <3>1, <3>2
  <2>5. UNCHANGED <<late, published>>
    BY <1>3 DEF PinDeferred, MoveSnapshotLease
  <2> QED
    BY <2>1, <2>4, <2>5
<1>4. ASSUME NEW t \in Tx, Answered(t) \/ Lost(t)
      PROVE  ClientType'
  <2>1. client' \in [Tx -> Client]
    BY <1>4, WriteClientType, BecomeType
  <2>2. UNCHANGED held /\ published' \subseteq Tx
    BY <1>1, <1>4 DEF Answered, Lost
  <2>3. Call(t) \in Request
    BY <1>4, CallType DEF Answered, Lost
  <2>4. late' \in [Tx -> SUBSET Request]
    BY <1>4, <2>3 DEF Answered, Lost
  <2> QED
    BY <2>1, <2>2, <2>4
<1>5. ASSUME NEW t \in Tx, LateArrives(t)
      PROVE  ClientType'
  BY <1>5 DEF LateArrives, Mark
<1>6. CASE StoreNext \/ UNCHANGED vars
  BY <1>6 DEF StoreNext, vars
<1> QED
  BY <1>2, <1>3, <1>4, <1>5, <1>6, LeaseClientType DEF Next, ClientNext
-------------------------------------------------------------------------------
(***************************************************************************)
(* What pins a version.  An active record and a live lease can always be   *)
(* read at; a cutoff is in the past; a snapshot object knows its lease as  *)
(* it is, or as it was before it was renewed.                              *)
(***************************************************************************)
RecordsPin ==
    \A t \in Tx : Has(t, "active") =>
        /\ Readable(transactions[t].snapshot)
        /\ transactions[t].journaled => blocks[t].stored

LeasesPin ==
    \A l \in LeaseIds : leases[l] # NoLease /\ leases[l].expires > now => Readable(leases[l].version)

CutoffPast == job # NoJob => job.cutoff <= now

Leased(h) ==
    LET lease == leases[<<h, held[h].pins>>] IN
    held[h].mode = "open" /\ ~held[h].unsure =>
        IF lease = NoLease THEN held[h].expires <= now
        ELSE lease.version = held[h].version /\ held[h].expires <= lease.expires

HeldLeased == \A h \in Holders : Leased(h)

Pins == RecordsPin /\ LeasesPin /\ CutoffPast /\ HeldLeased

(* What a request that does not publish leaves of its record is pinned. *)
LEMMA RequestPins ==
  ASSUME StoreType, RecordsPin, NEW t \in Tx, NEW q \in Request, Execute(t, q),
         ~(CommitTransaction(t, q) \/ WriteTransaction(t, q)), Has(t, "active")'
  PROVE  /\ manifests[transactions'[t].snapshot] = "readable"
         /\ transactions'[t].journaled => blocks'[t].stored
<1> DEFINE r == transactions[t]
           s == transactions'[t]
<1>1. /\ transactions \in [Tx -> Record \cup {NoRecord}] /\ t \in Blocks
      /\ blocks \in [Blocks -> [stored: BOOLEAN, added: 0 .. MaxVersion, removed: 0 .. MaxVersion]]
  BY DEF StoreType, Blocks
<1>2. CASE CreateTransaction(t, q)
  <2>1. s = NewRecord(q.version, q.expires) /\ Readable(q.version)
    BY <1>1, <1>2 DEF CreateTransaction, CreateAccepts, SetTransaction
  <2>2. s.snapshot = q.version /\ s.journaled = FALSE
    BY <2>1 DEF NewRecord
  <2> QED
    BY <2>1, <2>2 DEF Readable
<1>3. CASE StageTransactionArtifacts(t, q)
  <2>1. Has(t, "active") /\ r \in Record
    BY <1>3, PresentRecord DEF StageTransactionArtifacts, StageAccepts, AtRevision, Has
  <2>2. s = [r EXCEPT !.journaled = TRUE, !.revision = @ + 1]
    BY <1>1, <1>3, <2>1 DEF StageTransactionArtifacts
  <2>3. s.snapshot = r.snapshot
    BY <2>1, <2>2 DEF Record
  <2>4. blocks'[t].stored
    BY <1>1, <1>3 DEF StageTransactionArtifacts
  <2> QED
    BY <2>1, <2>3, <2>4 DEF RecordsPin, Readable
<1>4. CASE AbortTransaction(t, q)
  <2>1. r \in Record /\ s = [r EXCEPT !.status = "aborted", !.revision = @ + 1]
    BY <1>1, <1>4, PresentRecord DEF AbortTransaction, AbortAccepts, AtRevision, Has, SetTransaction
  <2>2. s.status = "aborted"
    BY <2>1 DEF Record
  <2> QED
    BY <2>2 DEF Has
<1>5. CASE RebaseTransaction(t, q)
  <2>1. Has(t, "active") /\ r \in Record /\ Readable(q.version) /\ UNCHANGED blocks
    BY <1>5, PresentRecord DEF RebaseTransaction, RebaseAccepts, AtRevision, Has, SetTransaction
  <2>2. s = [r EXCEPT !.snapshot = q.version, !.revision = @ + 1]
    BY <1>1, <1>5, <2>1 DEF RebaseTransaction, SetTransaction
  <2>3. s.snapshot = q.version /\ s.journaled = r.journaled
    BY <2>1, <2>2 DEF Record
  <2> QED
    BY <2>1, <2>3 DEF RecordsPin, Readable
<1> QED
  BY <1>2, <1>3, <1>4, <1>5 DEF Execute

(* So is what the other operations on a record leave. *)
LEMMA RecordPins ==
  ASSUME StoreType, RecordsPin, NEW t \in Tx, BeginTransaction(t) \/ RenewTransaction(t) \/ Closes(t),
         Has(t, "active")'
  PROVE  /\ manifests[transactions'[t].snapshot] = "readable"
         /\ transactions'[t].journaled => blocks'[t].stored
<1> DEFINE r == transactions[t]
           s == transactions'[t]
<1>1. transactions \in [Tx -> Record \cup {NoRecord}]
  BY DEF StoreType
<1>2. CASE BeginTransaction(t)
  <2>1. s = NewRecord(currentVersion, now + TTL) /\ Readable(currentVersion)
    BY <1>1, <1>2 DEF BeginTransaction, SetTransaction
  <2>2. s.snapshot = currentVersion /\ s.journaled = FALSE
    BY <2>1 DEF NewRecord
  <2> QED
    BY <2>1, <2>2 DEF Readable
<1>3. CASE RenewTransaction(t)
  <2>1. Has(t, "active") /\ r \in Record /\ UNCHANGED blocks
    BY <1>3, PresentRecord DEF RenewTransaction, Owned, Has, SetTransaction
  <2>2. s = [r EXCEPT !.expires = now + TTL]
    BY <1>1, <1>3 DEF RenewTransaction, SetTransaction
  <2>3. s.snapshot = r.snapshot /\ s.journaled = r.journaled
    BY <2>1, <2>2 DEF Record
  <2> QED
    BY <2>1, <2>3 DEF RecordsPin, Readable
<1>4. CASE Closes(t)
  <2>1. r \in Record /\ s = [r EXCEPT !.status = "aborted", !.revision = @ + 1]
    BY <1>1, <1>4, PresentRecord DEF Closes, Has, SetTransaction
  <2>2. s.status = "aborted"
    BY <2>1 DEF Record
  <2> QED
    BY <2>2 DEF Has
<1> QED
  BY <1>2, <1>3, <1>4

(* A record that is touched leaves the pins of the others. *)
LEMMA TouchPins ==
  ASSUME StoreType, RecordsPin, NEW t \in Tx, Touches(t),
         Has(t, "active")' => /\ manifests[transactions'[t].snapshot] = "readable"
                              /\ transactions'[t].journaled => blocks'[t].stored
  PROVE  RecordsPin'
<1>1. UNCHANGED manifests
  BY DEF Touches
<1>2. ASSUME NEW u \in Tx \ {t}, Has(u, "active")'
      PROVE  /\ manifests'[transactions'[u].snapshot] = "readable"
             /\ transactions'[u].journaled => blocks'[u].stored
  <2>1. transactions'[u] = transactions[u] /\ u \in Blocks /\ (blocks[u].stored => blocks'[u].stored)
    BY TouchEffect DEF Blocks
  <2>2. Has(u, "active")
    BY <1>2, <2>1 DEF Has
  <2> QED
    BY <1>1, <2>1, <2>2 DEF RecordsPin, Readable
<1> QED
  BY <1>1, <1>2 DEF RecordsPin, Readable

(* A publication adds a version and closes its own record. *)
LEMMA PublicationPins ==
  ASSUME StoreType, RecordsPin, NEW t \in Tx, Publication(t)
  PROVE  RecordsPin'
<1>1. PICK q \in Request, record \in Record : MayPublish(q) /\ ApplyCommit(t, q, record)
  BY DEF Publication
<1>2. /\ manifests' = [manifests EXCEPT ![currentVersion'] = "readable"]
      /\ \A b \in Blocks \ {t} : blocks'[b].stored = blocks[b].stored
      /\ transactions'[t].status = "committed"
      /\ \A u \in Tx \ {t} : transactions'[u] = transactions[u]
  BY <1>1, ApplyCommitEffect
<1>3. ~Has(t, "active")'
  BY <1>2 DEF Has
<1>4. ASSUME NEW u \in Tx \ {t}, Has(u, "active")'
      PROVE  /\ manifests'[transactions'[u].snapshot] = "readable"
             /\ transactions'[u].journaled => blocks'[u].stored
  <2>1. transactions'[u] = transactions[u] /\ u \in Blocks \ {t} /\ transactions[u] # NoRecord
    BY <1>2, <1>4 DEF Blocks, Has
  <2>2. Has(u, "active") /\ transactions[u].snapshot \in Versions
    BY <1>4, <2>1, PresentRecord DEF Has, Record
  <2>3. manifests[transactions[u].snapshot] = "readable"
    BY <2>2 DEF RecordsPin, Readable
  <2>4. manifests'[transactions[u].snapshot] = "readable"
    BY <1>2, <2>2, <2>3 DEF StoreType
  <2> QED
    BY <1>2, <2>1, <2>2, <2>4 DEF RecordsPin
<1> QED
  BY <1>3, <1>4 DEF RecordsPin, Readable

(* The collector keeps what an active record names. *)
LEMMA CollectPins ==
  ASSUME StoreType, RecordsPin, CollectStep
  PROVE  RecordsPin'
<1> SUFFICES ASSUME NEW t \in Tx, Has(t, "active")'
             PROVE  /\ manifests'[transactions'[t].snapshot] = "readable"
                    /\ transactions'[t].journaled => blocks'[t].stored
  BY DEF RecordsPin, Readable
<1>1. transactions'[t] = transactions[t] /\ Has(t, "active")
  BY CollectEffect DEF Has
<1>2. /\ transactions[t].snapshot \in Versions /\ manifests[transactions[t].snapshot] = "readable"
      /\ transactions[t].journaled => blocks[t].stored
  BY <1>1, PresentRecord DEF RecordsPin, Readable, Has, Record
<1>3. transactions[t].journaled => Rooted(t)
  BY <1>1 DEF Rooted
<1>4. transactions[t].journaled => blocks'[t].stored
  BY <1>2, <1>3, CollectEffect DEF Blocks
<1>5. manifests'[transactions[t].snapshot] = "readable"
  <2>1. CASE PruneManifests
    <3>1. IsManifestPinned(transactions[t].snapshot, job.cutoff)
      BY <1>1 DEF IsManifestPinned
    <3> QED
      BY <1>2, <2>1, <3>1 DEF PruneManifests
  <2>2. CASE RemovePrunedManifestRecords
    <3>1. transactions[t].snapshot \in 1 .. transactions[t].snapshot
      BY <1>2 DEF Versions
    <3> QED
      BY <1>2, <2>2, <3>1 DEF RemovePrunedManifestRecords, Readable
  <2>3. CASE UNCHANGED manifests
    BY <1>2, <2>3
  <2> QED
    BY <2>1, <2>2, <2>3
    DEF CollectStep, CreateGarbageCollectionJob, RunGarbageCollectionStep, ReclaimBlocks, ReclaimTransactions
<1> QED
  BY <1>1, <1>4, <1>5

(* Every step keeps the pins of the records. *)
LEMMA RecordsPinStep ==
  ASSUME StoreType, RecordsPin, StoreStep
  PROVE  RecordsPin'
<1>1. ASSUME NEW t \in Tx, NEW q \in Request, Execute(t, q), Mark(t, q)
      PROVE  RecordsPin'
  <2>1. CASE CommitTransaction(t, q) \/ WriteTransaction(t, q)
    <3>1. Publication(t)
      BY <1>1, <2>1, PublishingRequest DEF Publication, Mark
    <3> QED
      BY <3>1, PublicationPins
  <2>2. CASE ~(CommitTransaction(t, q) \/ WriteTransaction(t, q))
    BY <1>1, <2>2, QuietRequest, RequestPins, TouchPins
  <2> QED
    BY <2>1, <2>2
<1>2. ASSUME NEW t \in Tx, BeginTransaction(t) \/ RenewTransaction(t) \/ Closes(t)
      PROVE  RecordsPin'
  <2>1. Touches(t)
    BY <1>2, TouchesRecord
  <2> QED
    BY <1>2, <2>1, RecordPins, TouchPins
<1>3. CASE UNCHANGED coreVars \/ LeaseStep \/ Tick
  BY <1>3 DEF coreVars, LeaseStep, SetLeases, Tick, RecordsPin, Readable, Has
<1> QED
  BY <1>1, <1>2, <1>3, CollectPins DEF StoreStep, UnleasedStep, RequestStep, RecordStep

(* A lease stays as it was, or it had expired and was swept. *)
Swept(l) ==
    \/ leases'[l] = leases[l]
    \/ leases[l] # NoLease /\ leases[l].expires <= now /\ leases'[l] = NoLease

(* The steps that are not of a lease sweep at most, and prune no version that a live one pins. *)
LEMMA StoreSweeps ==
  ASSUME StoreType, CutoffPast, UnleasedStep
  PROVE  /\ now \in Nat /\ now' \in Nat /\ now <= now'
         /\ CutoffPast' /\ \A l \in LeaseIds : Swept(l)
         /\ \A l \in LeaseIds : leases[l] # NoLease /\ leases[l].expires > now /\ Readable(leases[l].version)
                                => manifests'[leases[l].version] = "readable"
<1>1. /\ now \in Nat /\ leases \in [LeaseIds -> Lease \cup {NoLease}]
      /\ manifests \in [Versions -> {"none", "readable", "pruned"}]
      /\ \A l \in LeaseIds : leases[l] # NoLease => leases[l] \in Lease
  BY Constants DEF StoreType
<1>2. ASSUME NEW t \in Tx, Touches(t)
      PROVE  UNCHANGED <<now, leases, job, manifests>>
  BY <1>2 DEF Touches
<1>3. ASSUME NEW t \in Tx, Publication(t)
      PROVE  UNCHANGED <<now, leases, job>> /\ manifests' = [manifests EXCEPT ![currentVersion'] = "readable"]
  BY <1>3, ApplyCommitEffect DEF Publication
<1>4. CASE UNCHANGED coreVars
  BY <1>1, <1>4 DEF coreVars, CutoffPast, Swept, Readable
<1>5. CASE Tick
  <2>1. now' = now + 1 /\ UNCHANGED <<leases, job, manifests>>
    BY <1>5 DEF Tick
  <2>2. job # NoJob => job.cutoff \in Nat
    BY Constants DEF StoreType, Job, Times
  <2> QED
    BY <1>1, <2>1, <2>2 DEF CutoffPast, Swept, Readable
<1>6. CASE CreateGarbageCollectionJob
  <2>1. \A l \in LeaseIds : Swept(l)
    BY <1>6 DEF CreateGarbageCollectionJob, Swept, Unexpired
  <2>2. job' # NoJob => job'.cutoff = now
    BY <1>6 DEF CreateGarbageCollectionJob
  <2> QED
    BY <1>1, <1>6, <2>1, <2>2 DEF CreateGarbageCollectionJob, CutoffPast, Readable
<1>7. ASSUME NEW f, NEW g, Examine(f, g), UNCHANGED now
      PROVE  CutoffPast'
  <2>1. job \in Job /\ job' = [job EXCEPT !.family = g] /\ job.cutoff <= now
    BY <1>7 DEF Examine, StoreType, CutoffPast
  <2>2. job'.cutoff = job.cutoff
    BY <2>1 DEF Job
  <2> QED
    BY <1>7, <2>1, <2>2 DEF CutoffPast
<1>8. CASE PruneManifests
  <2>1. UNCHANGED <<now, leases>> /\ CutoffPast' /\ job # NoJob
    BY <1>7, <1>8 DEF PruneManifests, Examine
  <2>2. ASSUME NEW l \in LeaseIds, leases[l] # NoLease, leases[l].expires > now, Readable(leases[l].version)
        PROVE  manifests'[leases[l].version] = "readable"
    <3>1. /\ leases[l].version \in Versions /\ leases[l].expires \in Nat
          /\ job.cutoff \in Nat /\ job.cutoff <= now
      BY <1>1, <2>1, <2>2, Constants DEF Lease, StoreType, CutoffPast, Job, Times
    <3>2. leases[l].expires > job.cutoff
      BY <1>1, <2>2, <3>1
    <3>3. IsManifestPinned(leases[l].version, job.cutoff)
      BY <2>2, <3>2 DEF IsManifestPinned
    <3> QED
      BY <1>8, <2>2, <3>1, <3>3 DEF PruneManifests, Readable
  <2> QED
    BY <1>1, <2>1, <2>2 DEF Swept
<1>9. CASE ReclaimBlocks \/ ReclaimTransactions
  <2>1. UNCHANGED <<now, leases, manifests>> /\ CutoffPast'
    BY <1>7, <1>9 DEF ReclaimBlocks, ReclaimTransactions
  <2> QED
    BY <1>1, <2>1 DEF Swept, Readable
<1>10. CASE RemovePrunedManifestRecords
  <2>1. UNCHANGED <<now, leases>> /\ job' = NoJob
    BY <1>10 DEF RemovePrunedManifestRecords
  <2>2. ASSUME NEW v \in Versions, Readable(v)
        PROVE  manifests'[v] = "readable"
    BY <1>10, <2>2 DEF RemovePrunedManifestRecords, Readable, Versions
  <2>3. \A l \in LeaseIds : leases[l] # NoLease => leases[l].version \in Versions
    BY <1>1 DEF Lease
  <2> QED
    BY <1>1, <2>1, <2>2, <2>3 DEF Swept, CutoffPast
<1>11. CASE \E t \in Tx : Touches(t) \/ Publication(t)
  <2>1. \A l \in LeaseIds : leases[l] # NoLease => leases[l].version \in Versions
    BY <1>1 DEF Lease
  <2>2. /\ UNCHANGED <<now, leases, job>>
        /\ UNCHANGED manifests \/ manifests' = [manifests EXCEPT ![currentVersion'] = "readable"]
    BY <1>2, <1>3, <1>11
  <2> QED
    BY <1>1, <2>1, <2>2 DEF Swept, CutoffPast, Readable
<1> QED
  BY <1>4, <1>5, <1>6, <1>8, <1>9, <1>10, <1>11, UnleasedCases DEF CollectStep, RunGarbageCollectionStep

(* What is swept at most keeps an object leased, and a live lease its version. *)
LEMMA SweptLeased ==
  ASSUME StoreType, ClientType, NEW h \in Holders, Leased(h), Swept(<<h, held[h].pins>>),
         held'[h] = held[h], now' \in Nat, now <= now'
  PROVE  Leased(h)'
<1>1. <<h, held[h].pins>> \in LeaseIds /\ held[h].expires \in Nat /\ now \in Nat
  <2>1. held[h].expires \in Times /\ now \in 0 .. MaxNow
    BY DEF ClientType, Snapshot, StoreType
  <2>2. <<h, held[h].pins>> \in LeaseIds
    BY HeldType
  <2>3. held[h].expires \in Nat /\ now \in Nat
    BY <2>1, Constants DEF Times
  <2> QED
    BY <2>2, <2>3
<1>2. leases[<<h, held[h].pins>>] # NoLease => leases[<<h, held[h].pins>>].expires \in Nat
  BY <1>1, Constants DEF StoreType, Lease, Times
<1> QED
  BY <1>1, <1>2 DEF Leased, Swept

(* A step that sweeps the leases and no more. *)
LEMMA SweptPins ==
  ASSUME StoreType, ClientType, LeasesPin, CutoffPast, HeldLeased, UnleasedStep, UNCHANGED held
  PROVE  LeasesPin' /\ CutoffPast' /\ HeldLeased'
<1>1. /\ now \in Nat /\ now' \in Nat /\ now <= now'
      /\ CutoffPast' /\ \A l \in LeaseIds : Swept(l)
      /\ \A l \in LeaseIds : leases[l] # NoLease /\ leases[l].expires > now /\ Readable(leases[l].version)
                             => manifests'[leases[l].version] = "readable"
  BY StoreSweeps
<1>2. LeasesPin'
  <2> SUFFICES ASSUME NEW l \in LeaseIds, leases'[l] # NoLease, leases'[l].expires > now'
               PROVE  manifests'[leases'[l].version] = "readable"
    BY DEF LeasesPin, Readable
  <2>1. leases'[l] = leases[l]
    BY <1>1 DEF Swept
  <2>2. leases[l].expires \in Nat
    BY <2>1, Constants DEF StoreType, Lease, Times
  <2> QED
    BY <1>1, <2>1, <2>2 DEF LeasesPin
<1>3. HeldLeased'
  BY <1>1, HeldType, SweptLeased DEF HeldLeased
<1> QED
  BY <1>1, <1>2, <1>3

(* A step of one snapshot object on its own leases. *)
LEMMA HolderPins ==
  ASSUME StoreType, ClientType, LeasesPin, CutoffPast, HeldLeased, NEW h \in Holders,
         UNCHANGED <<now, manifests, job>>,
         \A k \in Holders \ {h}, n \in 0 .. MaxPins : Swept(<<k, n>>),
         \A n \in 0 .. MaxPins : \/ Swept(<<h, n>>)
                                 \/ leases'[<<h, n>>] = NoLease
                                 \/ Readable(leases'[<<h, n>>].version),
         \A k \in Holders \ {h} : held'[k] = held[k],
         Leased(h)'
  PROVE  LeasesPin' /\ CutoffPast' /\ HeldLeased'
<1>1. now \in Nat
  BY Constants DEF StoreType
<1>2. HeldLeased'
  <2> SUFFICES ASSUME NEW k \in Holders \ {h} PROVE Leased(k)'
    BY DEF HeldLeased
  <2>1. held[k].pins \in 0 .. MaxPins
    BY HeldType
  <2>2. Swept(<<k, held[k].pins>>) /\ held'[k] = held[k] /\ Leased(k)
    BY <2>1 DEF HeldLeased
  <2>3. now' \in Nat /\ now <= now'
    BY <1>1
  <2> QED
    BY <2>2, <2>3, SweptLeased
<1>3. LeasesPin'
  <2> SUFFICES ASSUME NEW k \in Holders, NEW n \in 0 .. MaxPins, leases'[<<k, n>>] # NoLease,
                      leases'[<<k, n>>].expires > now
               PROVE  manifests[leases'[<<k, n>>].version] = "readable"
    BY DEF LeasesPin, Readable, LeaseIds
  <2>1. CASE Swept(<<k, n>>)
    BY <2>1 DEF LeasesPin, LeaseIds, Swept, Readable
  <2>2. CASE k = h /\ Readable(leases'[<<h, n>>].version)
    BY <2>2 DEF Readable
  <2> QED
    BY <2>1, <2>2
<1> QED
  BY <1>2, <1>3 DEF CutoffPast

(* A snapshot that is pinned. *)
LEMMA OpenPinPins ==
  ASSUME StoreType, ClientType, LeasesPin, CutoffPast, HeldLeased, NEW h \in Holders,
         NEW number \in 0 .. MaxPins, NEW v \in Versions, OpenPin(h, number, v)
  PROVE  LeasesPin' /\ CutoffPast' /\ HeldLeased'
<1> DEFINE new == [version |-> v, expires |-> now + TTL, revision |-> 0]
           own == [mode |-> "open", pins |-> number, version |-> v, expires |-> now + TTL,
                   revision |-> 0, unsure |-> FALSE]
<1>1. /\ UNCHANGED <<now, manifests, job>> /\ Readable(v)
      /\ leases' = [k \in LeaseIds |-> IF k = <<h, number>> THEN new ELSE Unexpired(k)]
      /\ held' = [held EXCEPT ![h] = own]
  BY DEF OpenPin, CreateLease, SetLeases
<1>2. \A k \in LeaseIds : k # <<h, number>> => Swept(k)
  BY <1>1 DEF Swept, Unexpired
<1>3. \A k \in Holders \ {h}, n \in 0 .. MaxPins : Swept(<<k, n>>)
  BY <1>2 DEF LeaseIds
<1>4. leases'[<<h, number>>] = new /\ held'[h] = own /\ \A k \in Holders \ {h} : held'[k] = held[k]
  BY <1>1 DEF LeaseIds, ClientType
<1>5. \A n \in 0 .. MaxPins : Swept(<<h, n>>) \/ Readable(leases'[<<h, n>>].version)
  <2> SUFFICES ASSUME NEW n \in 0 .. MaxPins PROVE Swept(<<h, n>>) \/ Readable(leases'[<<h, n>>].version)
    OBVIOUS
  <2>1. CASE n = number
    BY <1>1, <1>4, <2>1
  <2>2. CASE n # number
    BY <1>2, <2>2 DEF LeaseIds
  <2> QED
    BY <2>1, <2>2
<1>6. Leased(h)'
  <2>1. now + TTL \in Nat /\ new \in Lease
    BY Deadline, Constants DEF StoreType, Times, Lease
  <2>2. new # NoLease /\ new.version = v /\ new.expires = now + TTL
    BY <2>1, AbsenceAssumption
  <2>3. own.pins = number /\ own.version = v /\ own.expires = now + TTL
    OBVIOUS
  <2> HIDE DEF new, own
  <2> QED
    BY <1>4, <2>1, <2>2, <2>3 DEF Leased
<1> QED
  BY <1>1, <1>3, <1>4, <1>5, <1>6, HolderPins

(* The lease of an object is renewed, moved or removed; the object may not hear of it. *)
LEMMA OwnLeasePins ==
  ASSUME StoreType, ClientType, LeasesPin, CutoffPast, HeldLeased, NEW h \in Holders,
         NEW lease \in Lease \cup {NoLease}, SetLeases([leases EXCEPT ![<<h, held[h].pins>>] = lease]),
         lease # NoLease => Readable(lease.version),
         NEW own, held' = [held EXCEPT ![h] = own], own.pins = held[h].pins,
         own.mode = "open" /\ ~own.unsure =>
            lease # NoLease /\ lease.version = own.version /\ own.expires <= lease.expires
  PROVE  LeasesPin' /\ CutoffPast' /\ HeldLeased'
<1>1. UNCHANGED <<now, manifests, job>> /\ leases' = [leases EXCEPT ![<<h, held[h].pins>>] = lease]
  BY DEF SetLeases
<1>2. /\ leases \in [LeaseIds -> Lease \cup {NoLease}] /\ <<h, held[h].pins>> \in LeaseIds
  BY HeldType DEF StoreType
<1>3. /\ leases'[<<h, held[h].pins>>] = lease
      /\ \A k \in LeaseIds : k # <<h, held[h].pins>> => leases'[k] = leases[k]
  BY <1>1, <1>2
<1>4. \A k \in Holders \ {h}, n \in 0 .. MaxPins : Swept(<<k, n>>)
  BY <1>3 DEF LeaseIds, Swept
<1>5. \A n \in 0 .. MaxPins : \/ Swept(<<h, n>>)
                              \/ leases'[<<h, n>>] = NoLease
                              \/ Readable(leases'[<<h, n>>].version)
  <2> SUFFICES ASSUME NEW n \in 0 .. MaxPins, ~Swept(<<h, n>>)
               PROVE  leases'[<<h, n>>] = NoLease \/ Readable(leases'[<<h, n>>].version)
    OBVIOUS
  <2>1. n = held[h].pins
    BY <1>3 DEF LeaseIds, Swept
  <2> QED
    BY <1>3, <2>1
<1>6. held'[h] = own /\ \A k \in Holders \ {h} : held'[k] = held[k]
  BY DEF ClientType
<1>7. Leased(h)'
  BY <1>3, <1>6 DEF Leased
<1> QED
  BY <1>1, <1>4, <1>5, <1>6, <1>7, HolderPins

(* An object that goes to another mode, its lease as it was. *)
LEMMA ModePins ==
  ASSUME StoreType, ClientType, LeasesPin, CutoffPast, HeldLeased, NEW h \in Holders,
         UNCHANGED coreVars, NEW own, held' = [held EXCEPT ![h] = own], own.mode # "open"
  PROVE  LeasesPin' /\ CutoffPast' /\ HeldLeased'
<1>1. UNCHANGED <<now, manifests, job, leases>>
  BY DEF coreVars
<1>2. \A l \in LeaseIds : Swept(l)
  BY <1>1 DEF Swept
<1>3. \A k \in Holders, n \in 0 .. MaxPins : Swept(<<k, n>>)
  BY <1>2 DEF LeaseIds
<1>4. held'[h] = own /\ \A k \in Holders \ {h} : held'[k] = held[k]
  BY DEF ClientType
<1>5. Leased(h)'
  BY <1>4 DEF Leased
<1> QED
  BY <1>1, <1>3, <1>4, <1>5, HolderPins

(* A move, answered or not. *)
LEMMA MovePins ==
  ASSUME StoreType, ClientType, LeasesPin, CutoffPast, HeldLeased, NEW h \in Holders, NEW v \in Versions,
         Moved(h, v) \/ MoveLost(h, v)
  PROVE  LeasesPin' /\ CutoffPast' /\ HeldLeased'
<1> DEFINE l == <<h, held[h].pins>>
           lease == [version |-> v, expires |-> now + TTL, revision |-> leases[l].revision + 1]
           moved == [held[h] EXCEPT !.version = v, !.expires = now + TTL, !.revision = @ + 1]
           lost == [held[h] EXCEPT !.unsure = TRUE]
<1>1. l \in LeaseIds /\ held[h] \in Snapshot /\ held \in [Holders -> Snapshot]
  BY HeldType DEF ClientType
<1>2. SetLeases([leases EXCEPT ![l] = lease]) /\ Readable(v) /\ leases[l] \in Lease
  BY <1>1 DEF Moved, MoveLost, MoveLease, LeaseLive, StoreType
<1>3. lease \in Lease /\ now + TTL \in Nat
  BY <1>2, Deadline, Constants DEF Lease, StoreType, Times
<1>4. /\ moved.pins = held[h].pins /\ moved.version = v /\ moved.expires = now + TTL
      /\ lost.pins = held[h].pins /\ lost.unsure = TRUE
  BY <1>1 DEF Snapshot
<1>5. lease.version = v /\ lease.expires = now + TTL
  OBVIOUS
<1>6. CASE Moved(h, v)
  <2>1. held' = [held EXCEPT ![h] = moved]
    BY <1>1, <1>6 DEF Moved
  <2> HIDE DEF moved, lease
  <2>2. lease # NoLease /\ lease.version = moved.version /\ moved.expires <= lease.expires
    BY <1>3, <1>4, <1>5, AbsenceAssumption
  <2> QED
    BY <1>2, <1>3, <1>4, <1>5, <2>1, <2>2, OwnLeasePins
<1>7. CASE MoveLost(h, v)
  <2>1. held' = [held EXCEPT ![h] = lost]
    BY <1>1, <1>7 DEF MoveLost
  <2> HIDE DEF lost, lease
  <2> QED
    BY <1>2, <1>3, <1>4, <1>5, <2>1, OwnLeasePins
<1> QED
  BY <1>6, <1>7

(* The renewal of a lease, answered, lost or refused. *)
LEMMA RenewPins ==
  ASSUME StoreType, ClientType, LeasesPin, CutoffPast, HeldLeased, NEW h \in Holders, RenewHeld(h)
  PROVE  LeasesPin' /\ CutoffPast' /\ HeldLeased'
<1> DEFINE l == <<h, held[h].pins>>
           lease == [leases[l] EXCEPT !.expires = now + TTL, !.revision = @ + 1]
           renewed == [held[h] EXCEPT !.expires = now + TTL, !.revision = @ + 1]
           lapsed == [held[h] EXCEPT !.mode = "lapsed"]
<1>1. /\ l \in LeaseIds /\ held[h] \in Snapshot /\ held \in [Holders -> Snapshot]
      /\ leases \in [LeaseIds -> Lease \cup {NoLease}] /\ now + TTL \in Times /\ now + TTL \in Nat
      /\ held[h].expires \in Nat /\ held[h].expires < now + TTL /\ held[h].mode = "open"
  <2>1. held[h].expires \in Times /\ now + TTL \in Times
    BY Deadline DEF ClientType, StoreType, Snapshot
  <2>2. held[h].expires \in Nat /\ now + TTL \in Nat
    BY <2>1, Constants DEF Times
  <2>3. l \in LeaseIds
    BY HeldType
  <2> QED
    BY <2>1, <2>2, <2>3 DEF ClientType, StoreType, RenewHeld
<1>2. CASE RenewLease(l, held[h].revision)
  <2>1. leases[l] \in Lease /\ Readable(leases[l].version) /\ leases[l] # NoLease
    BY <1>1, <1>2 DEF RenewLease, LeaseLive
  <2>2. leases[l].revision + 1 \in Nat
    BY <2>1 DEF Lease
  <2>3. lease \in Lease /\ lease.version = leases[l].version /\ lease.expires = now + TTL
    BY <1>1, <2>1, <2>2 DEF Lease
  <2>4. SetLeases([leases EXCEPT ![l] = lease])
    BY <1>1, <1>2 DEF RenewLease, SetLeases
  <2>5. lease # NoLease
    BY <2>3, AbsenceAssumption
  <2>6. held[h].mode = "open" /\ ~held[h].unsure => leases[l].version = held[h].version
    BY <2>1 DEF HeldLeased, Leased
  <2>7. CASE held' = [held EXCEPT ![h].expires = now + TTL, ![h].revision = @ + 1]
    <3>1. held' = [held EXCEPT ![h] = renewed]
      BY <1>1, <2>7
    <3>2. /\ renewed.pins = held[h].pins /\ renewed.version = held[h].version /\ renewed.mode = held[h].mode
          /\ renewed.unsure = held[h].unsure /\ renewed.expires = now + TTL
      BY <1>1 DEF Snapshot
    <3>3. /\ renewed.expires <= lease.expires
          /\ renewed.mode = "open" /\ ~renewed.unsure => lease.version = renewed.version
      BY <1>1, <2>3, <2>6, <3>2
    <3> HIDE DEF renewed, lease, l
    <3> QED
      BY <2>1, <2>3, <2>4, <2>5, <3>1, <3>2, <3>3, OwnLeasePins DEF l
  <2>8. CASE UNCHANGED held
    <3>1. held' = [held EXCEPT ![h] = held[h]]
      BY <1>1, <2>8
    <3>2. /\ held[h].expires <= lease.expires
          /\ held[h].mode = "open" /\ ~held[h].unsure => lease.version = held[h].version
      BY <1>1, <2>3, <2>6
    <3> HIDE DEF lease, l
    <3> QED
      BY <2>1, <2>3, <2>4, <2>5, <3>1, <3>2, OwnLeasePins DEF l
  <2> QED
    BY <1>2, <2>7, <2>8 DEF RenewHeld, RenewLease
<1>3. CASE held' = [held EXCEPT ![h].mode = "lapsed"] /\ UNCHANGED coreVars
  <2>1. held' = [held EXCEPT ![h] = lapsed] /\ lapsed.mode = "lapsed"
    BY <1>1, <1>3 DEF Snapshot
  <2> HIDE DEF lapsed
  <2> QED
    BY <1>3, <2>1, ModePins
<1> QED
  BY <1>2, <1>3 DEF RenewHeld

(* A snapshot object that takes a step of its own. *)
LEMMA SnapshotPins ==
  ASSUME StoreType, ClientType, LeasesPin, CutoffPast, HeldLeased,
         \/ LeaseNext
         \/ \E t \in Tx : PinDeferred(t) \/ MoveSnapshotLease(t)
  PROVE  LeasesPin' /\ CutoffPast' /\ HeldLeased'
<1>1. \A h \in Holders : /\ held[h].version \in Versions /\ held[h].pins \in 0 .. MaxPins
                         /\ held[h].pins < MaxPins => held[h].pins + 1 \in 0 .. MaxPins
                         /\ held[h] \in Snapshot
  BY HeldType DEF ClientType
<1>2. Tx \subseteq Holders /\ Readers \subseteq Holders /\ currentVersion \in Versions
  BY DEF Holders, StoreType
<1>3. held \in [Holders -> Snapshot]
  BY DEF ClientType
<1>4. ASSUME NEW h \in Holders, NEW mode, mode # "open", held' = [held EXCEPT ![h].mode = mode],
             UNCHANGED coreVars
      PROVE  LeasesPin' /\ CutoffPast' /\ HeldLeased'
  <2> DEFINE own == [held[h] EXCEPT !.mode = mode]
  <2>1. held' = [held EXCEPT ![h] = own] /\ own.mode = mode
    BY <1>1, <1>3, <1>4 DEF Snapshot
  <2> HIDE DEF own
  <2> QED
    BY <1>4, <2>1, ModePins
<1>5. ASSUME UNCHANGED <<coreVars, held>>
      PROVE  LeasesPin' /\ CutoffPast' /\ HeldLeased'
  BY <1>5 DEF coreVars, LeasesPin, CutoffPast, HeldLeased, Leased, Readable
<1>6. ASSUME NEW t \in Tx, PinDeferred(t)
      PROVE  LeasesPin' /\ CutoffPast' /\ HeldLeased'
  <2>1. client[t].snapshot \in Versions
    BY DEF ClientType, Client
  <2>2. OpenPin(t, held[t].pins, client[t].snapshot) \/ UNCHANGED <<coreVars, held>>
    BY <1>6 DEF PinDeferred
  <2> QED
    BY <1>1, <1>2, <1>5, <2>1, <2>2, OpenPinPins
<1>7. ASSUME NEW t \in Tx, MoveSnapshotLease(t)
      PROVE  LeasesPin' /\ CutoffPast' /\ HeldLeased'
  <2>1. client[t].target \in Versions
    BY DEF ClientType, Client
  <2>2. Moved(t, client[t].target) \/ MoveLost(t, client[t].target) \/ UNCHANGED <<coreVars, held>>
    BY <1>7 DEF MoveSnapshotLease
  <2> QED
    BY <1>2, <1>5, <2>1, <2>2, MovePins
<1>8. ASSUME NEW h \in Holders, Repin(h)
      PROVE  LeasesPin' /\ CutoffPast' /\ HeldLeased'
  <2>1. \/ OpenPin(h, held[h].pins + 1, held[h].version) /\ held[h].pins < MaxPins
        \/ held' = [held EXCEPT ![h].mode = "lost"] /\ UNCHANGED coreVars
    BY <1>8 DEF Repin
  <2> QED
    BY <1>1, <1>4, <2>1, OpenPinPins
<1>9. ASSUME NEW h \in Holders, RemoveHeld(h)
      PROVE  LeasesPin' /\ CutoffPast' /\ HeldLeased'
  <2>1. /\ SetLeases([leases EXCEPT ![<<h, held[h].pins>>] = NoLease])
        /\ held' = [held EXCEPT ![h] = NewSnapshot]
    BY <1>9 DEF RemoveHeld, RemoveLease
  <2>2. /\ UNCHANGED <<now, manifests, job>>
        /\ leases' = [leases EXCEPT ![<<h, held[h].pins>>] = NoLease]
        /\ leases \in [LeaseIds -> Lease \cup {NoLease}] /\ <<h, held[h].pins>> \in LeaseIds
    BY <2>1, HeldType DEF SetLeases, StoreType
  <2>3. \A l \in LeaseIds : leases'[l] = leases[l] \/ (l = <<h, held[h].pins>> /\ leases'[l] = NoLease)
    BY <2>2
  <2>4. \A k \in Holders \ {h}, n \in 0 .. MaxPins : Swept(<<k, n>>)
    BY <2>3 DEF LeaseIds, Swept
  <2>5. \A n \in 0 .. MaxPins : Swept(<<h, n>>) \/ leases'[<<h, n>>] = NoLease
    BY <2>3 DEF LeaseIds, Swept
  <2>6. /\ held'[h] = NewSnapshot /\ NewSnapshot.mode = "none"
        /\ \A k \in Holders \ {h} : held'[k] = held[k]
    BY <1>3, <2>1 DEF NewSnapshot
  <2>7. Leased(h)'
    BY <2>6 DEF Leased
  <2> QED
    BY <2>2, <2>4, <2>5, <2>6, <2>7, HolderPins
<1>10. ASSUME NEW r \in Readers, ProbeReader(r)
       PROVE  LeasesPin' /\ CutoffPast' /\ HeldLeased'
  <2> DEFINE own == [held[r] EXCEPT !.mode = "probed", !.version = currentVersion]
  <2>1. held' = [held EXCEPT ![r] = own] /\ own.mode = "probed" /\ UNCHANGED coreVars
    BY <1>1, <1>2, <1>3, <1>10 DEF ProbeReader, Snapshot
  <2> HIDE DEF own
  <2> QED
    BY <1>2, <2>1, ModePins
<1>11. ASSUME NEW r \in Readers, PinReader(r)
       PROVE  LeasesPin' /\ CutoffPast' /\ HeldLeased'
  <2>1. \/ OpenPin(r, held[r].pins, held[r].version)
        \/ held' = [held EXCEPT ![r].mode = "none"] /\ UNCHANGED coreVars
    BY <1>11 DEF PinReader
  <2> QED
    BY <1>1, <1>2, <1>4, <2>1, OpenPinPins
<1>12. ASSUME NEW r \in Readers, MoveReader(r)
       PROVE  LeasesPin' /\ CutoffPast' /\ HeldLeased'
  <2>1. \/ Moved(r, currentVersion) \/ MoveLost(r, currentVersion)
        \/ OpenPin(r, held[r].pins + 1, currentVersion) /\ held[r].pins < MaxPins
    BY <1>12 DEF MoveReader
  <2> QED
    BY <1>1, <1>2, <2>1, OpenPinPins, MovePins
<1>13. ASSUME NEW r \in Readers, CloseReader(r)
       PROVE  LeasesPin' /\ CutoffPast' /\ HeldLeased'
  <2>1. held' = [held EXCEPT ![r].mode = "released"] /\ UNCHANGED coreVars
    BY <1>13 DEF CloseReader
  <2> QED
    BY <1>2, <1>4, <2>1
<1> QED
  BY <1>6, <1>7, <1>8, <1>9, <1>10, <1>11, <1>12, <1>13, RenewPins DEF LeaseNext

(* Every step keeps what pins. *)
LEMMA PinsStep ==
  ASSUME StoreType, ClientType, Pins, [Next]_vars
  PROVE  Pins'
<1>1. RecordsPin'
  BY StepShape, RecordsPinStep DEF Pins
<1>2. CASE /\ ClientNext \/ StoreNext \/ UNCHANGED vars
           /\ \A t \in Tx : ~PinDeferred(t) /\ ~MoveSnapshotLease(t)
  BY <1>1, <1>2, UnleasedShape, SweptPins DEF Pins
<1>3. CASE LeaseNext \/ \E t \in Tx : PinDeferred(t) \/ MoveSnapshotLease(t)
  BY <1>1, <1>3, SnapshotPins DEF Pins
<1> QED
  BY <1>2, <1>3 DEF Next

(* What pins at the start. *)
LEMMA PinsInit == Init => Pins
<1> SUFFICES ASSUME Init PROVE Pins
  OBVIOUS
<1>1. RecordsPin /\ LeasesPin /\ CutoffPast
  BY DEF Init, CoreInit, RecordsPin, LeasesPin, CutoffPast, Has
<1>2. HeldLeased
  BY DEF Init, HeldLeased, Leased, NewSnapshot
<1> QED
  BY <1>1, <1>2 DEF Pins
-------------------------------------------------------------------------------
(***************************************************************************)
(* The theorems.                                                           *)
(***************************************************************************)
Inv == StoreInv /\ ClientType

(* The invariant holds in every state of the specification. *)
THEOREM Invariance == Spec => []Inv
<1>1. Init => Inv
  <2> SUFFICES ASSUME Init PROVE ClientType
    BY StoreInvInit DEF Inv
  <2>1. NewSnapshot \in Snapshot
    BY Constants DEF NewSnapshot, Snapshot
  <2> QED
    BY <2>1, NewClientType DEF Init, ClientType
<1>2. Inv /\ [Next]_vars => Inv'
  <2> SUFFICES ASSUME Inv, [Next]_vars PROVE Inv'
    OBVIOUS
  <2>1. StoreInv /\ StoreType /\ ClientType /\ published \subseteq Tx
    BY DEF Inv, StoreInv, ClientType
  <2>2. StoreStep
    BY <2>1, StepShape
  <2> QED
    BY <2>1, <2>2, StoreInvStep, ClientTypeStep DEF Inv
<1> QED
  BY <1>1, <1>2, PTL DEF Spec

(* The store and the objects over it keep their types. *)
THEOREM TypeCorrect == Spec => []TypeOK
<1>1. Inv => TypeOK
  BY TypesSuffice DEF Inv, StoreInv
<1> QED
  BY <1>1, Invariance, PTL

(* Whatever the collector was told and however late it acts, and whatever requests arrive    *)
(* out of time, every artifact that a readable manifest lists is stored.                     *)
THEOREM NothingReadableIsLost == Spec => []ReadableComplete
<1>1. Inv => ReadableComplete
  BY DEF Inv, StoreInv
<1> QED
  BY <1>1, Invariance, PTL

(* A committed transaction follows directly on the version it read, rebased or not, its      *)
(* commit answered, lost or late.                                                            *)
THEOREM UpdatesFollow == Spec => []NoLostUpdate
<1>1. Inv => NoLostUpdate
  BY DEF Inv, StoreInv
<1> QED
  BY <1>1, Invariance, PTL

(* The record that recovery reads to find out whether a commit landed stays while its        *)
(* manifest can be read.                                                                     *)
THEOREM WitnessStays == Spec => []WitnessKept
<1>1. Inv => WitnessKept
  BY DEF Inv, StoreInv
<1> QED
  BY <1>1, Invariance, PTL

(* Whatever has a live lease or an active record on a version keeps that version, and what   *)
(* it journaled, from the collector.                                                         *)
THEOREM PinsKept == Spec => []Pins
<1>1. Inv /\ Pins /\ [Next]_vars => Pins'
  BY PinsStep DEF Inv, StoreInv
<1> QED
  BY <1>1, Invariance, PinsInit, PTL DEF Spec

(***************************************************************************)
(* Proofs that callers are told the truth: Transactions implements         *)
(* TransactionOutcome, and an abort that has returned is final.  The last  *)
(* part proves that what a transaction or a snapshot reads stays there.    *)
(*                                                                         *)
(* What holds of one transaction relates four things: the object c of its  *)
(* client, the requests L still on their way, whether it is published (p)  *)
(* and its record r.                                                       *)
(***************************************************************************)
Open(r) == r # NoRecord /\ r.status = "active"
Committed(r) == r # NoRecord /\ r.status = "committed"

(* It is published, or something on its way may publish it. *)
Exposed(L, p) == p \/ \E q \in L : Publishes(q)

(* The write made its attempt, does not know what became of it, and has nothing left to do but *)
(* find out or abort.                                                                          *)
Doubtful(c) ==
    /\ c.attempted /\ c.err = "unknown"
    /\ \/ c.pc \in {"recover", "abort", "abortRead", "settle", "settleRead"}
       \/ c.pc \in {"renew", "renewRead"} /\ c.goal = "abort"

(* One attempt is made; a closed record stays closed for whoever saw it; the requests that create *)
(* a record come before all others and only from an object that has none.                         *)
Steady(c, L, p, r) ==
    /\ Committed(r) => p
    /\ \A q \in L : Publishes(q) => ~p /\ \A o \in L : Publishes(o) => o = q
    /\ ~c.persisted => c.status = "active"
    /\ c.persisted /\ c.status # "active" => ~Open(r)
    /\ \A q \in L : q.op \in {"create", "write"} => ~c.persisted /\ ~c.settled
    /\ \A q \in L : q.op = "create" => r = NoRecord /\ L = {q}

Running(c, L, p, r) ==
    /\ c.told = "nothing" /\ ~c.settled /\ c.goal # "create"
    /\ Exposed(L, p) => Doubtful(c)
    /\ c.pc \in {"idle", "probed", "lostBegin", "create", "createRead"} => ~c.persisted
    /\ c.pc \in {"idle", "probed", "lostBegin", "create"} \/ (c.pc = "open" /\ ~c.persisted) => L = {}
    /\ c.pc \in {"idle", "probed", "create"} \/ (c.pc = "open" /\ ~c.persisted) => r = NoRecord
    /\ c.pc \in {"stage", "stageRead"} => c.persisted
    /\ c.pc \in {"renew", "renewRead"} /\ c.goal = "stage" => c.persisted
    /\ c.pc \in {"commit", "write"} => c.attempted
    /\ \A q \in L : q.op = "create" => c.pc = "createRead"
    /\ \A q \in L : q.op = "write" => c.pc = "recover"

Over(c, L, p, r) ==
    /\ ~c.persisted /\ c.told # "nothing"
    /\ c.told = "committed" => p
    /\ c.told = "failed" => ~Exposed(L, p)
    /\ c.settled => ~Open(r)

Sound(c, L, p, r) ==
    Steady(c, L, p, r) /\ IF c.pc = "done" THEN Over(c, L, p, r) ELSE Running(c, L, p, r)

SoundFor(t) == Sound(client[t], late[t], t \in published, transactions[t])

Protocol == \A t \in Tx : SoundFor(t)
--------------------------------------------------------------------------------
(* The fields that the operations on an object leave. *)
LEMMA EndedFields ==
  ASSUME NEW answer, NEW settled
  PROVE  LET e == Ended(answer, settled) IN
         /\ e.pc = "done" /\ e.told = answer /\ e.settled = settled
         /\ ~e.persisted /\ e.status = "active"
  BY DEF Ended, NewClient

(* The object of a write on its way to a call. *)
LEMMA TowardFields ==
  ASSUME NEW t \in Tx, NEW c \in Client, NEW goal \in Calls
  PROVE  LET g == Toward(t, c, goal) IN
         /\ g.goal = goal /\ g.pc \in {goal, "renew"}
         /\ g.told = c.told /\ g.settled = c.settled /\ g.persisted = c.persisted
         /\ g.status = c.status /\ g.err = c.err
         /\ c.attempted => g.attempted
         /\ g.pc \in {"commit", "write"} => g.attempted
<1> DEFINE d == [c EXCEPT !.goal = goal]
<1>1. /\ d.goal = goal /\ d.told = c.told /\ d.settled = c.settled /\ d.persisted = c.persisted
      /\ d.status = c.status /\ d.err = c.err /\ d.attempted = c.attempted /\ d \in Client
  BY DEF Client
<1> HIDE DEF d
<1>2. CASE Toward(t, c, goal) = [d EXCEPT !.pc = "renew"]
  <2>1. LET g == Toward(t, c, goal) IN
        /\ g.goal = d.goal /\ g.pc = "renew" /\ g.told = d.told /\ g.settled = d.settled
        /\ g.persisted = d.persisted /\ g.status = d.status /\ g.err = d.err /\ g.attempted = d.attempted
    BY <1>1, <1>2 DEF Client
  <2> QED
    BY <1>1, <2>1
<1>3. CASE Toward(t, c, goal) = Proceed(d)
  <2>1. LET g == Toward(t, c, goal) IN
        /\ g.goal = d.goal /\ g.pc = goal /\ g.told = d.told /\ g.settled = d.settled
        /\ g.persisted = d.persisted /\ g.status = d.status /\ g.err = d.err
        /\ g.attempted = (d.attempted \/ goal \in {"commit", "write"})
    BY <1>1, <1>3 DEF Client, Proceed
  <2> QED
    BY <1>1, <2>1
<1> QED
  BY <1>2, <1>3 DEF Toward, d

(* The record's life: it may be renewed, moved on, closed or removed. *)
LEMMA RecordSound ==
  ASSUME NEW c, NEW L, NEW p, NEW r, NEW s, Sound(c, L, p, r),
         Open(s) => Open(r), Committed(s) => Committed(r), r = NoRecord => s = NoRecord
  PROVE  Sound(c, L, p, s)
  BY DEF Sound, Steady, Running, Over

(* The write ends and its caller is told. *)
LEMMA EndedSound ==
  ASSUME NEW c, NEW L, NEW p, NEW r, Steady(c, L, p, r),
         NEW answer \in {"committed", "failed", "uncertain"}, NEW settled \in BOOLEAN,
         answer = "committed" => p, answer = "failed" => ~Exposed(L, p),
         settled => c.persisted /\ ~Open(r)
  PROVE  Sound(Ended(answer, settled), L, p, r)
<1> DEFINE e == Ended(answer, settled)
<1>1. /\ e.pc = "done" /\ e.told = answer /\ e.settled = settled
      /\ ~e.persisted /\ e.status = "active"
  BY EndedFields
<1> HIDE DEF e
<1>2. Sound(e, L, p, r)
  BY <1>1 DEF Sound, Steady, Over
<1> QED
  BY <1>2 DEF e

(* What it is told of a failure does not hide that it may be published. *)
LEMMA ReportSound ==
  ASSUME NEW c, NEW err, NEW L, NEW p, Exposed(L, p) => c.attempted /\ c.err = "unknown"
  PROVE  /\ Report(c, err) \in {"committed", "failed", "uncertain"}
         /\ Report(c, err) # "committed"
         /\ Report(c, err) = "failed" => ~Exposed(L, p)
  BY DEF Report

(* A write ends with what abort() threw. *)
LEMMA FinishedSound ==
  ASSUME NEW c, NEW err, NEW L, NEW p, NEW r, Steady(c, L, p, r),
         Exposed(L, p) => c.attempted /\ c.err = "unknown"
  PROVE  Sound(Finished(c, err), L, p, r)
<1>1. Sound(Ended(Report(c, err), FALSE), L, p, r)
  BY ReportSound, EndedSound
<1> QED
  BY <1>1 DEF Finished

(* A write ends with an abort that returned. *)
LEMMA SettledSound ==
  ASSUME NEW c \in Client, NEW L, NEW p, NEW r, Steady(c, L, p, r),
         Exposed(L, p) => c.attempted /\ c.err = "unknown",
         c.persisted => ~Open(r)
  PROVE  Sound(Settled(c), L, p, r)
<1>1. c.persisted \in BOOLEAN
  BY DEF Client
<1>2. Sound(Ended(Report(c, "none"), c.persisted), L, p, r)
  BY <1>1, ReportSound, EndedSound
<1> QED
  BY <1>2 DEF Settled

(* A running write goes on to a call. *)
LEMMA TowardSound ==
  ASSUME NEW t \in Tx, NEW c \in Client, NEW goal \in Calls \ {"create"}, NEW L, NEW p, NEW r,
         Steady(c, L, p, r), c.told = "nothing", ~c.settled,
         Exposed(L, p) => goal = "abort" /\ c.attempted /\ c.err = "unknown",
         goal = "stage" => c.persisted,
         \A q \in L : q.op \notin {"create", "write"}
  PROVE  Sound(Toward(t, c, goal), L, p, r)
<1> DEFINE g == Toward(t, c, goal)
<1>1. /\ g.goal = goal /\ g.pc \in {goal, "renew"}
      /\ g.told = c.told /\ g.settled = c.settled /\ g.persisted = c.persisted
      /\ g.status = c.status /\ g.err = c.err
      /\ c.attempted => g.attempted
      /\ g.pc \in {"commit", "write"} => g.attempted
  BY TowardFields
<1>2. g.pc \in {"stage", "commit", "write", "abort", "rebase", "renew"}
  BY <1>1 DEF Calls
<1> HIDE DEF g
<1>3. Steady(g, L, p, r)
  BY <1>1 DEF Steady
<1>4. Running(g, L, p, r)
  BY <1>1, <1>2 DEF Running, Doubtful
<1>5. Sound(g, L, p, r)
  BY <1>2, <1>3, <1>4 DEF Sound
<1> QED
  BY <1>5 DEF g

(* A write fails and aborts. *)
LEMMA FailedSound ==
  ASSUME NEW t \in Tx, NEW c \in Client, NEW err \in Errors, NEW L, NEW p, NEW r,
         Steady(c, L, p, r), c.told = "nothing", ~c.settled,
         Exposed(L, p) => c.attempted /\ err = "unknown"
  PROVE  Sound(Failed(t, c, err), L, p, r)
<1> DEFINE e == [c EXCEPT !.err = err]
<1>1. /\ e \in Client /\ e.told = c.told /\ e.settled = c.settled /\ e.persisted = c.persisted
      /\ e.status = c.status /\ e.err = err /\ e.attempted = c.attempted
  BY DEF Client, Errors
<1> HIDE DEF e
<1>2. Steady(e, L, p, r)
  BY <1>1 DEF Steady
<1>3. CASE e.status = "active" /\ e.persisted
  <2>1. Failed(t, c, err) = Toward(t, e, "abort")
    BY <1>3 DEF Failed, e
  <2>2. \A q \in L : q.op \notin {"create", "write"}
    BY <1>2, <1>3 DEF Steady
  <2>3. "abort" \in Calls \ {"create"}
    BY DEF Calls
  <2>4. Sound(Toward(t, e, "abort"), L, p, r)
    BY <1>1, <1>2, <2>2, <2>3, TowardSound
  <2> QED
    BY <2>1, <2>4
<1>4. CASE ~(e.status = "active" /\ e.persisted)
  <2>1. Failed(t, c, err) = Settled(e)
    BY <1>4, Zenon DEF Failed, e
  <2>2. e.persisted => ~Open(r)
    BY <1>2, <1>4 DEF Steady
  <2>3. Sound(Settled(e), L, p, r)
    BY <1>1, <1>2, <2>2, SettledSound
  <2> QED
    BY <2>1, <2>3
<1> QED
  BY <1>3, <1>4
--------------------------------------------------------------------------------
(***************************************************************************)
(* The steps of a write that leave the store, the requests on their way    *)
(* and what is published alone.  Each takes the object to another that is  *)
(* sound over the same L, p and r.                                         *)
(***************************************************************************)
Live(t) == ClientType /\ StoreType /\ SoundFor(t) /\ client[t].pc # "done"

Becomes(t) ==
    \E d \in Client : Become(t, d) /\ Sound(d, late[t], t \in published, transactions[t])

(* Of an object only these fields matter to what holds beside its place in the protocol. *)
LEMMA SteadyOn ==
  ASSUME NEW c, NEW d, NEW L, NEW p, NEW r, Steady(c, L, p, r),
         d.persisted = c.persisted, d.status = c.status, d.settled = c.settled
  PROVE  Steady(d, L, p, r)
  BY DEF Steady

(* A running write whose attempt is not in doubt is neither published nor about to be. *)
LEMMA LiveFacts ==
  ASSUME NEW t \in Tx, Live(t)
  PROVE  /\ client[t] \in Client /\ client[t].err \in Errors /\ client[t].goal \in Calls
         /\ Steady(client[t], late[t], t \in published, transactions[t])
         /\ Running(client[t], late[t], t \in published, transactions[t])
         /\ client[t].told = "nothing" /\ ~client[t].settled
         /\ Exposed(late[t], t \in published) => Doubtful(client[t])
  BY DEF Live, ClientType, SoundFor, Sound, Running, Client, Errors

(* It probes the current version. *)
LEMMA ProbeDeferredSound ==
  ASSUME NEW t \in Tx, Live(t), ProbeDeferred(t)
  PROVE  Becomes(t)
<1> DEFINE c == client[t]
<1>1. PICK pc \in {"probed", "open"} :
          Become(t, [c EXCEPT !.pc = pc, !.snapshot = currentVersion, !.expires = now + TTL])
  BY DEF ProbeDeferred
<1> DEFINE d == [c EXCEPT !.pc = pc, !.snapshot = currentVersion, !.expires = now + TTL]
<1>2. /\ d \in Client /\ d.pc = pc /\ d.told = c.told /\ d.settled = c.settled
      /\ d.persisted = c.persisted /\ d.status = c.status /\ d.goal = c.goal
  <2>1. pc \in PC /\ currentVersion \in Versions /\ now + TTL \in Times /\ c \in Client
    BY Deadline, LiveFacts DEF PC, Live, StoreType
  <2> QED
    BY <2>1, Zenon DEF Client
<1> HIDE DEF d
<1>3. Steady(d, late[t], t \in published, transactions[t])
  BY <1>2, LiveFacts, SteadyOn
<1>4. Running(d, late[t], t \in published, transactions[t])
  BY <1>2, LiveFacts DEF ProbeDeferred, At, Running, Doubtful
<1>5. Sound(d, late[t], t \in published, transactions[t])
  BY <1>2, <1>3, <1>4 DEF Sound
<1> QED
  BY <1>1, <1>2, <1>5 DEF Becomes, d

(* It asks for its artifact, its commit, or gives up. *)
LEMMA AskSound ==
  ASSUME NEW t \in Tx, Live(t), Stage(t) \/ Commit(t) \/ GiveUp(t)
  PROVE  Becomes(t)
<1> DEFINE c == client[t]
           L == late[t]
           p == t \in published
           r == transactions[t]
<1>1. /\ c \in Client /\ c.pc = "open" /\ Steady(c, L, p, r) /\ Running(c, L, p, r)
      /\ ~Exposed(L, p) /\ c.told = "nothing" /\ ~c.settled
      /\ \A q \in L : q.op \notin {"create", "write"}
  BY LiveFacts DEF Stage, Commit, GiveUp, At, Doubtful, Running
<1>2. CASE Stage(t)
  <2>1. CASE c.persisted
    <3>1. Become(t, Toward(t, c, "stage"))
      BY <1>2, <2>1 DEF Stage
    <3>2. "stage" \in Calls \ {"create"}
      BY DEF Calls
    <3>3. Sound(Toward(t, c, "stage"), L, p, r) /\ Toward(t, c, "stage") \in Client
      BY <1>1, <2>1, <3>2, TowardSound, TowardType
    <3> QED
      BY <3>1, <3>3 DEF Becomes
  <2>2. CASE ~c.persisted
    <3> DEFINE d == [c EXCEPT !.pc = "create", !.expires = now + TTL]
    <3>1. Become(t, d)
      BY <1>2, <2>2 DEF Stage
    <3>2. now + TTL \in Times /\ "create" \in PC
      BY Deadline DEF Live, StoreType, PC, Calls
    <3>3. /\ d \in Client /\ d.pc = "create" /\ d.told = c.told /\ d.settled = c.settled
          /\ d.persisted = c.persisted /\ d.status = c.status /\ d.goal = c.goal
      BY <1>1, <3>2, Zenon DEF Client
    <3> HIDE DEF d
    <3>4. Steady(d, L, p, r)
      BY <1>1, <3>3, SteadyOn
    <3>5. Running(d, L, p, r)
      BY <1>1, <2>2, <3>3 DEF Running
    <3>6. Sound(d, L, p, r)
      BY <3>3, <3>4, <3>5 DEF Sound
    <3> QED
      BY <3>1, <3>3, <3>6 DEF Becomes
  <2> QED
    BY <2>1, <2>2
<1>3. CASE Commit(t)
  <2>1. CommitGoal(c) \in Calls \ {"create"} /\ CommitGoal(c) # "stage"
    BY DEF CommitGoal, Calls
  <2>2. Sound(Toward(t, c, CommitGoal(c)), L, p, r) /\ Toward(t, c, CommitGoal(c)) \in Client
    BY <1>1, <2>1, TowardSound, TowardType
  <2> QED
    BY <1>3, <2>2 DEF Commit, Becomes
<1>4. CASE GiveUp(t)
  <2>1. "refused" \in Errors
    BY DEF Errors
  <2>2. Sound(Failed(t, c, "refused"), L, p, r) /\ Failed(t, c, "refused") \in Client
    BY <1>1, <2>1, FailedSound, FailedType
  <2> QED
    BY <1>4, <2>2 DEF GiveUp, Becomes
<1> QED
  BY <1>2, <1>3, <1>4

(* An object that takes over a record it read. *)
LEMMA AdoptedSteady ==
  ASSUME NEW t \in Tx, Live(t), transactions[t] # NoRecord,
         \A q \in late[t] : q.op \notin {"create", "write"}
  PROVE  LET d == Adopted(t) IN
         /\ d \in Client /\ Steady(d, late[t], t \in published, transactions[t])
         /\ d.persisted /\ d.status = transactions[t].status
         /\ d.pc = client[t].pc /\ d.goal = client[t].goal /\ d.err = client[t].err
         /\ d.attempted = client[t].attempted /\ d.told = client[t].told /\ d.settled = client[t].settled
<1> DEFINE d == Adopted(t)
<1>1. d \in Client
  BY AdoptedType, PresentRecord DEF Live
<1>2. /\ d.persisted = TRUE /\ d.status = transactions[t].status
      /\ d.pc = client[t].pc /\ d.goal = client[t].goal /\ d.err = client[t].err
      /\ d.attempted = client[t].attempted /\ d.told = client[t].told /\ d.settled = client[t].settled
  BY LiveFacts DEF Adopted, Client
<1> HIDE DEF d
<1>3. Steady(d, late[t], t \in published, transactions[t])
  BY <1>2, LiveFacts DEF Steady, Open
<1> QED
  BY <1>1, <1>2, <1>3 DEF d

(* It finds its record closed, or not owned. *)
LEMMA RenewReadSound ==
  ASSUME NEW t \in Tx, Live(t), RenewRead(t)
  PROVE  Becomes(t)
<1> DEFINE L == late[t]
           p == t \in published
           r == transactions[t]
           c == IF r = NoRecord THEN client[t] ELSE Adopted(t)
<1>1. /\ client[t].pc = "renewRead" /\ \A q \in L : q.op \notin {"create", "write"}
  BY LiveFacts DEF RenewRead, At, Running
<1>2. /\ c \in Client /\ Steady(c, L, p, r) /\ c.pc = "renewRead" /\ c.goal = client[t].goal
      /\ c.told = "nothing" /\ ~c.settled /\ c.goal # "create"
      /\ Exposed(L, p) => c.goal = "abort" /\ c.attempted /\ c.err = "unknown"
      /\ c.goal = "stage" => c.persisted
  BY <1>1, LiveFacts, AdoptedSteady DEF Doubtful, Running
<1>3. Become(t, IF c.goal # "abort" THEN Failed(t, c, "refused")
                ELSE IF c.status # "active" THEN Settled(c)
                ELSE [c EXCEPT !.pc = "settle"])
  BY DEF RenewRead
<1> HIDE DEF c
<1>4. CASE c.goal # "abort"
  <2>1. Sound(Failed(t, c, "refused"), L, p, r) /\ Failed(t, c, "refused") \in Client
    BY <1>2, <1>4, FailedSound, FailedType DEF Errors
  <2> QED
    BY <1>3, <1>4, <2>1 DEF Becomes
<1>5. CASE c.goal = "abort" /\ c.status # "active"
  <2>1. c.persisted => ~Open(r)
    BY <1>2, <1>5 DEF Steady
  <2>2. Sound(Settled(c), L, p, r) /\ Settled(c) \in Client
    BY <1>2, <2>1, SettledSound, SettledType
  <2> QED
    BY <1>3, <1>5, <2>2 DEF Becomes
<1>6. CASE c.goal = "abort" /\ c.status = "active"
  <2> DEFINE d == [c EXCEPT !.pc = "settle"]
  <2>1. d \in Client
    BY <1>2, GotoType DEF PC
  <2>2. /\ d.pc = "settle" /\ d.told = c.told /\ d.settled = c.settled
        /\ d.persisted = c.persisted /\ d.status = c.status /\ d.goal = c.goal
        /\ d.attempted = c.attempted /\ d.err = c.err
    BY <1>2 DEF Client
  <2>3. Become(t, d)
    BY <1>3, <1>6
  <2> HIDE DEF d
  <2>4. Steady(d, L, p, r)
    BY <1>2, <2>2, SteadyOn
  <2>5. Running(d, L, p, r)
    BY <1>1, <1>2, <2>2 DEF Running, Doubtful
  <2>6. Sound(d, L, p, r)
    BY <2>2, <2>4, <2>5 DEF Sound
  <2> QED
    BY <2>1, <2>3, <2>6 DEF Becomes
<1> QED
  BY <1>4, <1>5, <1>6

(* It reads back what its first request left, or its stage. *)
LEMMA ReadBackSound ==
  ASSUME NEW t \in Tx, Live(t), CreateRead(t) \/ StageRead(t)
  PROVE  Becomes(t)
<1> DEFINE c == client[t]
           L == late[t]
           p == t \in published
           r == transactions[t]
           a == Adopted(t)
<1>1. /\ c \in Client /\ c.pc \in {"createRead", "stageRead"} /\ Steady(c, L, p, r) /\ Running(c, L, p, r)
      /\ ~Exposed(L, p) /\ c.told = "nothing" /\ ~c.settled /\ c.err \in Errors
  BY LiveFacts DEF CreateRead, StageRead, At, Doubtful, Running
<1>2. Sound(Failed(t, c, c.err), L, p, r) /\ Failed(t, c, c.err) \in Client
  BY <1>1, FailedSound, FailedType
<1>3. CASE Become(t, Failed(t, c, c.err))
  BY <1>2, <1>3 DEF Becomes
<1>4. CASE r # NoRecord
  <2>1. \A q \in L : q.op \notin {"create", "write"}
    BY <1>1, <1>4 DEF Steady, Running
  <2>2. /\ a \in Client /\ Steady(a, L, p, r) /\ a.persisted /\ a.status = r.status
        /\ a.told = "nothing" /\ ~a.settled /\ a.goal = c.goal
    BY <1>1, <1>4, <2>1, AdoptedSteady
  <2> HIDE DEF a
  <2>3. Sound(Failed(t, a, c.err), L, p, r) /\ Failed(t, a, c.err) \in Client
    BY <1>1, <2>2, FailedSound, FailedType
  <2> DEFINE b == [a EXCEPT !.err = "none"]
             d == [a EXCEPT !.pc = "open", !.err = "none"]
  <2>4. /\ b \in Client /\ b.persisted = a.persisted /\ b.status = a.status
        /\ b.told = a.told /\ b.settled = a.settled
    BY <2>2 DEF Client
  <2>5. /\ d \in Client /\ d.pc = "open" /\ d.persisted = a.persisted /\ d.status = a.status
        /\ d.told = a.told /\ d.settled = a.settled /\ d.goal = a.goal
    BY <2>2 DEF Client, PC
  <2> HIDE DEF b, d
  <2>6. Steady(b, L, p, r) /\ Steady(d, L, p, r)
    BY <2>2, <2>4, <2>5, SteadyOn
  <2>7. "stage" \in Calls \ {"create"} /\ "stage" \in Calls
    BY DEF Calls
  <2>8. Sound(Toward(t, b, "stage"), L, p, r) /\ Toward(t, b, "stage") \in Client
    BY <1>1, <2>1, <2>2, <2>4, <2>6, <2>7, TowardSound, TowardType
  <2>9. Running(d, L, p, r)
    BY <1>1, <2>1, <2>2, <2>5 DEF Running
  <2>10. Sound(d, L, p, r)
    BY <2>5, <2>6, <2>9 DEF Sound
  <2>11. CASE Become(t, Failed(t, a, c.err)) \/ Become(t, Toward(t, b, "stage")) \/ Become(t, d)
    BY <2>3, <2>5, <2>8, <2>10, <2>11 DEF Becomes
  <2> QED
    BY <1>3, <2>11, Zenon DEF CreateRead, StageRead, a, b, d
<1> QED
  BY <1>3, <1>4 DEF CreateRead, StageRead, AtRevision, Has

(* A call of a write comes back with an error, having had an effect or not. *)
LEMMA RecoveringSound ==
  ASSUME NEW t \in Tx, ClientType, NEW err \in Errors, NEW L, NEW p, NEW r,
         client[t].pc \in Calls \ {"abort"},
         Steady(client[t], L, p, r), client[t].told = "nothing", ~client[t].settled,
         client[t].goal # "create",
         Exposed(L, p) => client[t].pc \in {"commit", "write"} /\ client[t].attempted /\ err = "unknown",
         client[t].pc = "create" => ~client[t].persisted,
         client[t].pc = "stage" => client[t].persisted,
         \A q \in L : q.op = "create" => client[t].pc = "create",
         \A q \in L : q.op = "write" => client[t].pc = "write"
  PROVE  Sound(Recovering(t, err), L, p, r) /\ Recovering(t, err) \in Client
<1> DEFINE c == [client[t] EXCEPT !.err = err]
           goes(pc) == [c EXCEPT !.pc = pc]
           recovers == [c EXCEPT !.pc = "recover", !.reads = 0]
<1>1. /\ c \in Client /\ c.err = err /\ c.pc = client[t].pc /\ c.goal = client[t].goal
      /\ c.told = "nothing" /\ ~c.settled /\ c.persisted = client[t].persisted
      /\ c.status = client[t].status /\ c.settled = client[t].settled /\ c.attempted = client[t].attempted
  BY DEF ClientType, Client, Errors
<1>2. Recovering(t, err) \in Client
  BY RecoveringType
<1>3. \/ Recovering(t, err) = Failed(t, c, err) /\ c.pc \in {"create", "rebase"}
      \/ Recovering(t, err) = goes("createRead") /\ c.pc = "create"
      \/ Recovering(t, err) = goes("stageRead") /\ c.pc = "stage"
      \/ Recovering(t, err) = goes("rebaseRead") /\ c.pc = "rebase"
      \/ Recovering(t, err) = recovers /\ c.pc \in {"commit", "write"}
  <2>1. c.pc \in {"create", "stage", "rebase", "commit", "write"}
    BY <1>1 DEF Calls
  <2>2. CASE c.pc = "create"
    BY <2>2, Zenon DEF Recovering
  <2>3. CASE c.pc = "stage"
    <3>1. Recovering(t, err) = goes("stageRead")
      BY <2>3 DEF Recovering
    <3> QED
      BY <2>3, <3>1
  <2>4. CASE c.pc = "rebase"
    <3>1. Recovering(t, err) = IF err = "conflict" THEN goes("rebaseRead") ELSE Failed(t, c, err)
      BY <2>4 DEF Recovering
    <3> QED
      BY <2>4, <3>1
  <2>5. CASE c.pc \in {"commit", "write"}
    <3>1. Recovering(t, err) = recovers
      BY <2>5 DEF Recovering
    <3> QED
      BY <2>5, <3>1
  <2> QED
    BY <2>1, <2>2, <2>3, <2>4, <2>5
<1>4. \A pc \in {"createRead", "stageRead", "rebaseRead"} :
         LET d == goes(pc) IN
         /\ d.pc = pc /\ d.goal = c.goal /\ d.err = c.err /\ d.attempted = c.attempted
         /\ d.told = c.told /\ d.settled = c.settled /\ d.persisted = c.persisted /\ d.status = c.status
  BY <1>1 DEF Client
<1>5. LET d == recovers IN
      /\ d.pc = "recover" /\ d.goal = c.goal /\ d.err = c.err /\ d.attempted = c.attempted
      /\ d.told = c.told /\ d.settled = c.settled /\ d.persisted = c.persisted /\ d.status = c.status
  BY <1>1 DEF Client
<1> HIDE DEF c, goes, recovers
<1>6. Steady(c, L, p, r)
  BY <1>1, SteadyOn
<1>7. CASE Recovering(t, err) = Failed(t, c, err) /\ c.pc \in {"create", "rebase"}
  BY <1>1, <1>2, <1>6, <1>7, FailedSound
<1>8. CASE Recovering(t, err) = recovers /\ c.pc \in {"commit", "write"}
  <2>1. Steady(recovers, L, p, r)
    BY <1>5, <1>6, SteadyOn
  <2>2. Running(recovers, L, p, r)
    BY <1>1, <1>5, <1>8 DEF Running, Doubtful
  <2> QED
    BY <1>2, <1>5, <1>8, <2>1, <2>2 DEF Sound
<1>9. ASSUME NEW pc \in {"createRead", "stageRead", "rebaseRead"}, Recovering(t, err) = goes(pc),
             pc = "createRead" <=> c.pc = "create", pc = "stageRead" <=> c.pc = "stage",
             c.pc \notin {"commit", "write"}
      PROVE  Sound(Recovering(t, err), L, p, r)
  <2>1. Steady(goes(pc), L, p, r)
    BY <1>4, <1>6, SteadyOn
  <2>2. Running(goes(pc), L, p, r)
    BY <1>1, <1>4, <1>9 DEF Running
  <2> QED
    BY <1>4, <1>9, <2>1, <2>2 DEF Sound
<1> QED
  BY <1>2, <1>3, <1>7, <1>8, <1>9

(* A call is refused: it had no effect. *)
LEMMA RefusedSound ==
  ASSUME NEW t \in Tx, Live(t), Refused(t)
  PROVE  Becomes(t)
<1> DEFINE c == client[t]
           L == late[t]
           p == t \in published
           r == transactions[t]
           d == [c EXCEPT !.pc = "abortRead"]
<1>1. c \in Client /\ c.pc \in Calls /\ Steady(c, L, p, r) /\ Running(c, L, p, r)
  BY LiveFacts DEF Refused, Waits
<1>2. CASE c.pc = "abort"
  <2>1. Become(t, d)
    BY <1>2 DEF Refused, At
  <2>2. /\ d.pc = "abortRead" /\ d.told = c.told /\ d.settled = c.settled
        /\ d.persisted = c.persisted /\ d.status = c.status /\ d.goal = c.goal
        /\ d.attempted = c.attempted /\ d.err = c.err /\ d \in Client
    BY <1>1 DEF Client, PC
  <2> HIDE DEF d
  <2>3. Steady(d, L, p, r)
    BY <1>1, <2>2, SteadyOn
  <2>4. Running(d, L, p, r)
    BY <1>1, <1>2, <2>2 DEF Running, Doubtful
  <2>5. Sound(d, L, p, r)
    BY <2>2, <2>3, <2>4 DEF Sound
  <2> QED
    BY <2>1, <2>2, <2>5 DEF Becomes
<1>3. CASE c.pc # "abort"
  <2>1. Refusal(t) \in Errors
    BY DEF Refusal, Errors
  <2>2. Become(t, Recovering(t, Refusal(t)))
    BY <1>3 DEF Refused, At
  <2>3. c.pc \in {"create", "stage", "rebase", "commit", "write"}
    BY <1>1, <1>3 DEF Calls
  <2>4. ~Exposed(L, p)
    BY <1>1, <2>3 DEF Running, Doubtful
  <2>5. /\ c.told = "nothing" /\ ~c.settled /\ c.goal # "create"
        /\ c.pc = "create" => ~c.persisted
        /\ c.pc = "stage" => c.persisted
        /\ \A q \in L : q.op \notin {"create", "write"}
    BY <1>1, <2>3 DEF Running
  <2>6. Sound(Recovering(t, Refusal(t)), L, p, r) /\ Recovering(t, Refusal(t)) \in Client
    BY <1>1, <1>3, <2>1, <2>4, <2>5, RecoveringSound DEF Live
  <2> QED
    BY <2>2, <2>6 DEF Becomes
<1> QED
  BY <1>2, <1>3

(* It reads whether its commit landed. *)
LEMMA RecoverSound ==
  ASSUME NEW t \in Tx, Live(t), RecoverCommitted(t)
  PROVE  Becomes(t)
<1> DEFINE c == client[t]
           L == late[t]
           p == t \in published
           r == transactions[t]
<1>1. /\ c \in Client /\ c.pc = "recover" /\ Steady(c, L, p, r) /\ Running(c, L, p, r)
      /\ c.err \in Errors /\ c.told = "nothing" /\ ~c.settled
      /\ Exposed(L, p) => c.attempted /\ c.err = "unknown"
  BY LiveFacts DEF RecoverCommitted, At, Doubtful
<1>2. CASE Landed(t) /\ Become(t, Ended("committed", FALSE))
  <2>1. p
    BY <1>1, <1>2 DEF Landed, Has, Steady, Committed
  <2>2. Sound(Ended("committed", FALSE), L, p, r) /\ Ended("committed", FALSE) \in Client
    BY <1>1, <2>1, EndedSound, EndedType DEF Answers
  <2> QED
    BY <1>2, <2>2 DEF Becomes
<1>3. CASE Become(t, Rethrown(t))
  <2>1. Rethrown(t) \in Client
    BY RethrownType DEF Live
  <2>2. CASE c.err = "conflict" /\ c.retries < MaxRetries
    <3> DEFINE d == [c EXCEPT !.pc = "rebaseRead", !.retries = @ + 1, !.err = "none"]
    <3>1. Rethrown(t) = d
      BY <2>2 DEF Rethrown
    <3>2. /\ d.pc = "rebaseRead" /\ d.told = c.told /\ d.settled = c.settled
          /\ d.persisted = c.persisted /\ d.status = c.status /\ d.goal = c.goal
      BY <1>1 DEF Client
    <3> HIDE DEF d
    <3>3. Steady(d, L, p, r)
      BY <1>1, <3>2, SteadyOn
    <3>4. Running(d, L, p, r)
      BY <1>1, <2>2, <3>2 DEF Running, Exposed, Publishes
    <3>5. Sound(d, L, p, r)
      BY <3>2, <3>3, <3>4 DEF Sound
    <3> QED
      BY <1>3, <2>1, <3>1, <3>5 DEF Becomes
  <2>3. CASE ~(c.err = "conflict" /\ c.retries < MaxRetries)
    <3>1. Rethrown(t) = Failed(t, c, c.err)
      BY <2>3 DEF Rethrown
    <3>2. Sound(Failed(t, c, c.err), L, p, r)
      BY <1>1, FailedSound
    <3> QED
      BY <1>3, <2>1, <3>1, <3>2 DEF Becomes
  <2> QED
    BY <2>2, <2>3
<1>4. CASE c.reads + 1 < RecoveryReads /\ Become(t, [c EXCEPT !.reads = @ + 1])
  <2> DEFINE d == [c EXCEPT !.reads = @ + 1]
  <2>1. c.reads + 1 \in 0 .. RecoveryReads
    BY <1>1, <1>4, Constants DEF Client
  <2>2. d \in Client
    BY <1>1, <2>1, Zenon DEF Client
  <2>3. /\ d.pc = c.pc /\ d.told = c.told /\ d.settled = c.settled
        /\ d.persisted = c.persisted /\ d.status = c.status /\ d.goal = c.goal
        /\ d.attempted = c.attempted /\ d.err = c.err
    BY <1>1 DEF Client
  <2> HIDE DEF d
  <2>4. Steady(d, L, p, r)
    BY <1>1, <2>3, SteadyOn
  <2>5. Running(d, L, p, r)
    BY <1>1, <2>3 DEF Running, Doubtful
  <2>6. Sound(d, L, p, r)
    BY <1>1, <2>3, <2>4, <2>5 DEF Sound
  <2>7. Become(t, d)
    BY <1>4 DEF d
  <2> QED
    BY <2>2, <2>6, <2>7 DEF Becomes
<1> QED
  BY <1>2, <1>3, <1>4 DEF RecoverCommitted

(* It rebases: its local snapshot, its lease or its record comes next. *)
LEMMA RebaseReadSound ==
  ASSUME NEW t \in Tx, Live(t), RebaseRead(t)
  PROVE  Becomes(t)
<1> DEFINE L == late[t]
           p == t \in published
           r == transactions[t]
           c == [client[t] EXCEPT !.target = currentVersion, !.err = "none"]
           b == [c EXCEPT !.snapshot = currentVersion]
           d == [c EXCEPT !.pc = "move"]
<1>1. /\ client[t].pc = "rebaseRead" /\ ~Exposed(L, p) /\ client[t] \in Client /\ currentVersion \in Versions
      /\ Steady(client[t], L, p, r) /\ Running(client[t], L, p, r)
      /\ \A q \in L : q.op \notin {"create", "write"}
  BY LiveFacts DEF RebaseRead, At, Doubtful, Running, Live, StoreType
<1>2. /\ c \in Client /\ c.pc = "rebaseRead" /\ c.told = "nothing" /\ ~c.settled
      /\ c.settled = client[t].settled /\ c.persisted = client[t].persisted /\ c.status = client[t].status
      /\ c.goal = client[t].goal
  BY <1>1 DEF Client, Running
<1>3. \/ Become(t, Toward(t, c, "rebase"))
      \/ Become(t, Toward(t, b, CommitGoal(c)))
      \/ Become(t, d)
  BY DEF RebaseRead
<1>4. /\ b \in Client /\ b.told = c.told /\ b.settled = c.settled
      /\ b.persisted = c.persisted /\ b.status = c.status
  BY <1>1, <1>2 DEF Client
<1>5. /\ d \in Client /\ d.pc = "move" /\ d.told = c.told /\ d.settled = c.settled
      /\ d.persisted = c.persisted /\ d.status = c.status /\ d.goal = c.goal
  BY <1>1, <1>2 DEF Client, PC
<1> HIDE DEF c, b, d
<1>6. Steady(c, L, p, r)
  BY <1>1, <1>2, SteadyOn
<1>7. Steady(b, L, p, r) /\ Steady(d, L, p, r)
  BY <1>4, <1>5, <1>6, SteadyOn
<1>8. "rebase" \in Calls \ {"create"} /\ CommitGoal(c) \in Calls \ {"create"} /\ CommitGoal(c) # "stage"
  BY DEF Calls, CommitGoal
<1>9. Sound(Toward(t, c, "rebase"), L, p, r) /\ Toward(t, c, "rebase") \in Client
  BY <1>1, <1>2, <1>6, <1>8, TowardSound, TowardType
<1>10. Sound(Toward(t, b, CommitGoal(c)), L, p, r) /\ Toward(t, b, CommitGoal(c)) \in Client
  BY <1>1, <1>2, <1>4, <1>7, <1>8, TowardSound, TowardType
<1>11. Running(d, L, p, r)
  BY <1>1, <1>2, <1>5 DEF Running
<1>12. Sound(d, L, p, r)
  BY <1>5, <1>7, <1>11 DEF Sound
<1> QED
  BY <1>3, <1>5, <1>9, <1>10, <1>12 DEF Becomes

(* It moves its lease. *)
LEMMA MoveSound ==
  ASSUME NEW t \in Tx, Live(t), MoveSnapshotLease(t)
  PROVE  Becomes(t)
<1> DEFINE c == client[t]
           L == late[t]
           p == t \in published
           r == transactions[t]
           b == [c EXCEPT !.snapshot = c.target, !.goal = CommitGoal(c)]
           d == Proceed(b)
<1>1. /\ c.pc = "move" /\ ~Exposed(L, p) /\ c \in Client /\ c.target \in Versions
      /\ Steady(c, L, p, r) /\ Running(c, L, p, r) /\ c.told = "nothing" /\ ~c.settled
      /\ \A q \in L : q.op \notin {"create", "write"}
  BY LiveFacts DEF MoveSnapshotLease, At, Doubtful, Running, Client
<1>2. CASE Become(t, d)
  <2>1. CommitGoal(c) \in {"commit", "write"} /\ CommitGoal(c) \in Calls
    BY DEF CommitGoal, Calls
  <2>2. b \in Client
    BY <1>1, <2>1, Zenon DEF Client
  <2>3. /\ b.goal = CommitGoal(c) /\ b.told = c.told /\ b.settled = c.settled
        /\ b.persisted = c.persisted /\ b.status = c.status
    BY <1>1 DEF Client
  <2> HIDE DEF b
  <2>4. d \in Client
    BY <2>2, ProceedType
  <2>5. /\ d.pc = b.goal /\ d.goal = b.goal /\ d.told = b.told /\ d.settled = b.settled
        /\ d.persisted = b.persisted /\ d.status = b.status
        /\ d.attempted = (b.attempted \/ b.goal \in {"commit", "write"})
    BY <2>2 DEF Client, Proceed
  <2> HIDE DEF d
  <2>6. Steady(d, L, p, r)
    BY <1>1, <2>3, <2>5, SteadyOn
  <2>7. Running(d, L, p, r)
    BY <1>1, <2>1, <2>3, <2>5 DEF Running
  <2>8. Sound(d, L, p, r)
    BY <2>1, <2>3, <2>5, <2>6, <2>7 DEF Sound
  <2> QED
    BY <1>2, <2>4, <2>8 DEF Becomes
<1>3. \A err \in {"unknown", "refused"} : Sound(Failed(t, c, err), L, p, r) /\ Failed(t, c, err) \in Client
  BY <1>1, FailedSound, FailedType DEF Errors
<1>4. \/ Become(t, d)
      \/ \E err \in {"unknown", "refused"} : Become(t, Failed(t, c, err))
  BY Zenon DEF MoveSnapshotLease
<1> QED
  BY <1>2, <1>3, <1>4 DEF Becomes

(* It pins the version it probed. *)
LEMMA PinSound ==
  ASSUME NEW t \in Tx, Live(t), PinDeferred(t)
  PROVE  Becomes(t)
<1> DEFINE c == client[t]
           L == late[t]
           p == t \in published
           r == transactions[t]
<1>1. c \in Client /\ c.pc = "probed" /\ Steady(c, L, p, r) /\ Running(c, L, p, r)
  BY LiveFacts DEF PinDeferred, At
<1>2. PICK pc \in {"open", "idle"} : Become(t, [c EXCEPT !.pc = pc])
  BY Zenon DEF PinDeferred, Goto
<1> DEFINE d == [c EXCEPT !.pc = pc]
<1>3. pc \in PC
  BY DEF PC
<1>4. /\ d \in Client /\ d.pc = pc /\ d.told = c.told /\ d.settled = c.settled
      /\ d.persisted = c.persisted /\ d.status = c.status /\ d.goal = c.goal
  BY <1>1, <1>3, Zenon DEF Client
<1> HIDE DEF d
<1>5. Steady(d, L, p, r)
  BY <1>1, <1>4, SteadyOn
<1>6. Running(d, L, p, r)
  BY <1>1, <1>4 DEF Running, Doubtful
<1>7. Sound(d, L, p, r)
  BY <1>4, <1>5, <1>6 DEF Sound
<1> QED
  BY <1>2, <1>4, <1>7 DEF Becomes, d

(* The reads that end an abort. *)
LEMMA AbortReadSound ==
  ASSUME NEW t \in Tx, Live(t), AbortRead(t) \/ SettleRead(t)
  PROVE  Becomes(t)
<1> DEFINE c == client[t]
           L == late[t]
           p == t \in published
           r == transactions[t]
<1>1. /\ c \in Client /\ Steady(c, L, p, r)
      /\ Exposed(L, p) => c.attempted /\ c.err = "unknown"
  BY LiveFacts DEF Doubtful
<1>2. Finished(c, "refused") \in Client /\ Sound(Finished(c, "refused"), L, p, r)
  BY <1>1, FinishedType, FinishedSound
<1>3. ~Open(r) => Settled(c) \in Client /\ Sound(Settled(c), L, p, r)
  BY <1>1, SettledType, SettledSound
<1>4. \/ Become(t, Finished(c, "refused"))
      \/ ~Open(r) /\ Become(t, Settled(c))
  BY DEF AbortRead, SettleRead, Terminal, Has, Open
<1> QED
  BY <1>2, <1>3, <1>4 DEF Becomes
--------------------------------------------------------------------------------
(***************************************************************************)
(* The steps that also change the record.  A record follows another when   *)
(* it was renewed, moved on, closed or removed.                            *)
(***************************************************************************)
Follows(r, s) ==
    /\ Open(s) => Open(r)
    /\ Committed(s) => Committed(r)
    /\ r = NoRecord => s = NoRecord

BecomesNow(t) ==
    \E d \in Client : Become(t, d) /\ Sound(d, late[t], t \in published, transactions'[t])

(* A record that moved on leaves the bookkeeping steady. *)
LEMMA SteadyFollows ==
  ASSUME NEW c, NEW L, NEW p, NEW r, NEW s, Steady(c, L, p, r), Follows(r, s)
  PROVE  Steady(c, L, p, s)
  BY DEF Steady, Follows

(* It leaves the object sound. *)
LEMMA BecomesFollows ==
  ASSUME NEW t \in Tx, Becomes(t), Follows(transactions[t], transactions'[t])
  PROVE  BecomesNow(t)
  BY RecordSound DEF Becomes, BecomesNow, Follows

(* A renewal is followed, and so is the closing of a record, which leaves none open. *)
LEMMA RenewFollows ==
  ASSUME StoreType, NEW t \in Tx, RenewTransaction(t)
  PROVE  Follows(transactions[t], transactions'[t])
<1>1. transactions[t] \in Record /\ Has(t, "active") /\ transactions \in [Tx -> Record \cup {NoRecord}]
  BY PresentRecord DEF RenewTransaction, Owned, Has, StoreType
<1>2. transactions'[t] = [transactions[t] EXCEPT !.expires = now + TTL]
  BY <1>1 DEF RenewTransaction, SetTransaction
<1>3. transactions'[t].status = "active"
  BY <1>1, <1>2 DEF Record, Has
<1> QED
  BY <1>1, <1>3 DEF Follows, Open, Committed, Has

(* Closing a record is moving on. *)
LEMMA ClosesFollows ==
  ASSUME StoreType, NEW t \in Tx, Closes(t)
  PROVE  /\ Follows(transactions[t], transactions'[t]) /\ ~Open(transactions'[t])
<1>1. transactions[t] \in Record /\ Has(t, "active") /\ transactions \in [Tx -> Record \cup {NoRecord}]
  BY PresentRecord DEF Closes, Has, StoreType
<1>2. transactions'[t] = [transactions[t] EXCEPT !.status = "aborted", !.revision = @ + 1]
  BY <1>1 DEF Closes, SetTransaction
<1>3. transactions'[t].status = "aborted"
  BY <1>1, <1>2 DEF Record
<1> QED
  BY <1>1, <1>3 DEF Follows, Open, Committed, Has

(* So is leaving it alone. *)
LEMMA SameFollows ==
  ASSUME NEW t, UNCHANGED transactions
  PROVE  Follows(transactions[t], transactions'[t])
  BY DEF Follows

(* Ownership is renewed, or was lost, on the way to a call. *)
LEMMA RenewOwnershipSound ==
  ASSUME NEW t \in Tx, Live(t), RenewOwnership(t)
  PROVE  BecomesNow(t)
<1> DEFINE c == client[t]
           L == late[t]
           p == t \in published
           r == transactions[t]
           b == [c EXCEPT !.expires = now + TTL]
           e == [c EXCEPT !.pc = "renewRead"]
<1>1. /\ c \in Client /\ c.pc = "renew" /\ Steady(c, L, p, r) /\ Running(c, L, p, r)
      /\ \A q \in L : q.op \notin {"create", "write"}
      /\ c.goal \in Calls \ {"create"} /\ c.told = "nothing" /\ ~c.settled
      /\ Exposed(L, p) => c.goal = "abort" /\ c.attempted /\ c.err = "unknown"
  BY LiveFacts DEF RenewOwnership, At, Running, Doubtful
<1>2. now + TTL \in Times
  BY Deadline DEF Live, StoreType
<1>3. /\ b \in Client /\ b.pc = c.pc /\ b.told = c.told /\ b.settled = c.settled
      /\ b.persisted = c.persisted /\ b.status = c.status /\ b.goal = c.goal
      /\ b.attempted = c.attempted /\ b.err = c.err
  BY <1>1, <1>2, Zenon DEF Client
<1>4. /\ e \in Client /\ e.pc = "renewRead" /\ e.told = c.told /\ e.settled = c.settled
      /\ e.persisted = c.persisted /\ e.status = c.status /\ e.goal = c.goal
      /\ e.attempted = c.attempted /\ e.err = c.err
  BY <1>1 DEF Client, PC
<1>5. /\ Follows(transactions[t], transactions'[t])
      /\ Become(t, Proceed(c)) \/ Become(t, Proceed(b)) \/ Become(t, e)
  BY RenewFollows, SameFollows DEF RenewOwnership, Goto, Live, coreVars
<1> HIDE DEF b, e
<1>6. Steady(b, L, p, r) /\ Steady(e, L, p, r)
  BY <1>1, <1>3, <1>4, SteadyOn
<1>7. Running(e, L, p, r)
  BY <1>1, <1>4 DEF Running, Doubtful
<1>8. Sound(e, L, p, r)
  BY <1>4, <1>6, <1>7 DEF Sound
<1>9. ASSUME NEW a \in Client, Steady(a, L, p, r), a.told = "nothing", ~a.settled, a.goal = c.goal,
             a.persisted = c.persisted, a.attempted = c.attempted, a.err = c.err
      PROVE  Sound(Proceed(a), L, p, r) /\ Proceed(a) \in Client
  <2> DEFINE d == Proceed(a)
  <2>1. d \in Client
    BY ProceedType
  <2>2. /\ d.pc = a.goal /\ d.goal = a.goal /\ d.told = a.told /\ d.settled = a.settled
        /\ d.persisted = a.persisted /\ d.status = a.status /\ d.err = a.err
        /\ d.attempted = (a.attempted \/ a.goal \in {"commit", "write"})
    BY DEF Client, Proceed
  <2> HIDE DEF d
  <2>3. Steady(d, L, p, r)
    BY <1>9, <2>2, SteadyOn
  <2>4. d.pc \in {"stage", "commit", "write", "abort", "rebase"}
    BY <1>1, <1>9, <2>2 DEF Calls
  <2>5. Running(d, L, p, r)
    BY <1>1, <1>9, <2>2, <2>4 DEF Running, Doubtful
  <2>6. Sound(d, L, p, r)
    BY <2>3, <2>4, <2>5 DEF Sound
  <2> QED
    BY <2>1, <2>6 DEF d
<1>10. Sound(Proceed(c), L, p, r) /\ Proceed(c) \in Client
  BY <1>1, <1>9
<1>11. Sound(Proceed(b), L, p, r) /\ Proceed(b) \in Client
  BY <1>1, <1>3, <1>6, <1>9
<1>12. Becomes(t)
  BY <1>4, <1>5, <1>8, <1>10, <1>11 DEF Becomes
<1> QED
  BY <1>5, <1>12, BecomesFollows

(* The renewal fails, and the operation or the abort with it. *)
LEMMA RenewFailsSound ==
  ASSUME NEW t \in Tx, Live(t), RenewFails(t)
  PROVE  BecomesNow(t)
<1> DEFINE c == client[t]
           L == late[t]
           p == t \in published
           r == transactions[t]
<1>1. /\ c \in Client /\ Steady(c, L, p, r) /\ c.told = "nothing" /\ ~c.settled
      /\ Exposed(L, p) => c.goal = "abort" /\ c.attempted /\ c.err = "unknown"
  BY LiveFacts DEF RenewFails, At, Doubtful
<1>2. PICK err \in {"unknown", "refused"} :
         /\ RenewTransaction(t) \/ UNCHANGED coreVars
         /\ Become(t, IF c.goal = "abort" THEN Finished(c, err) ELSE Failed(t, c, err))
  BY DEF RenewFails
<1>3. Follows(transactions[t], transactions'[t])
  BY <1>2, RenewFollows, SameFollows DEF Live, coreVars
<1>4. Sound(Finished(c, err), L, p, r) /\ Finished(c, err) \in Client
  BY <1>1, FinishedSound, FinishedType
<1>5. c.goal # "abort" => Sound(Failed(t, c, err), L, p, r) /\ Failed(t, c, err) \in Client
  BY <1>1, FailedSound, FailedType DEF Errors
<1>6. Becomes(t)
  BY <1>2, <1>4, <1>5 DEF Becomes
<1> QED
  BY <1>3, <1>6, BecomesFollows

(* The heartbeat beside the operations. *)
LEMMA HeartbeatSound ==
  ASSUME NEW t \in Tx, Live(t), Heartbeat(t)
  PROVE  BecomesNow(t)
<1> DEFINE c == client[t]
           L == late[t]
           p == t \in published
           r == transactions[t]
           b == [c EXCEPT !.expires = now + TTL]
<1>1. c \in Client /\ c.persisted /\ Steady(c, L, p, r) /\ Running(c, L, p, r) /\ c.pc # "done"
  BY LiveFacts DEF Heartbeat, Live
<1>2. Follows(transactions[t], transactions'[t])
  BY RenewFollows, SameFollows DEF Heartbeat, Live, coreVars
<1>3. ASSUME NEW d \in Client, Steady(d, L, p, r), d.persisted, d.pc = c.pc, d.goal = c.goal, d.err = c.err,
             d.attempted = c.attempted, d.told = c.told, d.settled = c.settled
      PROVE  Sound(d, L, p, r)
  <2>1. Running(d, L, p, r)
    BY <1>1, <1>3 DEF Running, Doubtful
  <2> QED
    BY <1>1, <1>3, <2>1 DEF Sound
<1>4. CASE Become(t, b)
  <2>1. now + TTL \in Times
    BY Deadline DEF Live, StoreType
  <2>2. /\ b \in Client /\ b.pc = c.pc /\ b.told = c.told /\ b.settled = c.settled
        /\ b.persisted = c.persisted /\ b.status = c.status /\ b.goal = c.goal
        /\ b.attempted = c.attempted /\ b.err = c.err
    BY <1>1, <2>1, Zenon DEF Client
  <2> HIDE DEF b
  <2>3. Steady(b, L, p, r)
    BY <1>1, <2>2, SteadyOn
  <2>4. Sound(b, L, p, r)
    BY <1>1, <1>3, <2>2, <2>3
  <2>5. Becomes(t)
    BY <1>4, <2>2, <2>4 DEF Becomes
  <2> QED
    BY <1>2, <2>5, BecomesFollows
<1>5. CASE r # NoRecord /\ Become(t, Adopted(t))
  <2>1. \A q \in L : q.op \notin {"create", "write"}
    BY <1>1 DEF Steady
  <2>2. Sound(Adopted(t), L, p, r) /\ Adopted(t) \in Client
    BY <1>1, <1>3, <1>5, <2>1, AdoptedSteady
  <2>3. Becomes(t)
    BY <1>5, <2>2 DEF Becomes
  <2> QED
    BY <1>2, <2>3, BecomesFollows
<1> QED
  BY <1>4, <1>5 DEF Heartbeat

(* The steps that close the record. *)
LEMMA SettleSound ==
  ASSUME NEW t \in Tx, Live(t), SettleLapsedAbort(t)
  PROVE  BecomesNow(t)
<1> DEFINE c == client[t]
           L == late[t]
           p == t \in published
           r == transactions[t]
           d == [c EXCEPT !.pc = "settleRead"]
<1>1. /\ c \in Client /\ c.pc = "settle" /\ Steady(c, L, p, r) /\ Running(c, L, p, r)
      /\ Exposed(L, p) => c.attempted /\ c.err = "unknown"
  BY LiveFacts DEF SettleLapsedAbort, At, Doubtful
<1>2. CASE AbortTransactionIfExpired(t, now) /\ Become(t, Settled(c))
  <2>1. Closes(t)
    BY <1>2 DEF AbortTransactionIfExpired, Closes
  <2>2. Steady(c, L, p, transactions'[t]) /\ ~Open(transactions'[t])
    BY <1>1, <2>1, ClosesFollows, SteadyFollows DEF Live
  <2>3. Sound(Settled(c), L, p, transactions'[t]) /\ Settled(c) \in Client
    BY <1>1, <2>2, SettledSound, SettledType
  <2> QED
    BY <1>2, <2>3 DEF BecomesNow
<1>3. CASE Become(t, d) /\ UNCHANGED coreVars
  <2>1. /\ d \in Client /\ d.pc = "settleRead" /\ d.told = c.told /\ d.settled = c.settled
        /\ d.persisted = c.persisted /\ d.status = c.status /\ d.goal = c.goal
        /\ d.attempted = c.attempted /\ d.err = c.err
    BY <1>1 DEF Client, PC
  <2> HIDE DEF d
  <2>2. Steady(d, L, p, r)
    BY <1>1, <2>1, SteadyOn
  <2>3. Running(d, L, p, r)
    BY <1>1, <2>1 DEF Running, Doubtful
  <2>4. Sound(d, L, p, r)
    BY <2>1, <2>2, <2>3 DEF Sound
  <2>5. transactions'[t] = r
    BY <1>3 DEF coreVars
  <2> QED
    BY <1>3, <2>1, <2>4, <2>5 DEF BecomesNow
<1> QED
  BY <1>2, <1>3 DEF SettleLapsedAbort, Goto

(* The settlement of a begin that was not answered. *)
LEMMA LostBeginSound ==
  ASSUME NEW t \in Tx, Live(t), SettleLostBegin(t)
  PROVE  BecomesNow(t)
<1> DEFINE c == client[t]
           L == late[t]
           p == t \in published
           r == transactions[t]
<1>1. c.pc = "lostBegin" /\ Steady(c, L, p, r) /\ ~Exposed(L, p)
  BY LiveFacts DEF SettleLostBegin, At, Doubtful
<1>2. Follows(transactions[t], transactions'[t])
  BY ClosesFollows, SameFollows
  DEF SettleLostBegin, AbortTransaction, AbortAccepts, Closes, Live, coreVars
<1>3. Sound(Finished(c, "none"), L, p, r) /\ Finished(c, "none") \in Client
  BY <1>1, FinishedSound, FinishedType
<1>4. Becomes(t)
  BY <1>3 DEF SettleLostBegin, Becomes
<1> QED
  BY <1>2, <1>4, BecomesFollows
--------------------------------------------------------------------------------
(***************************************************************************)
(* The requests.                                                           *)
(***************************************************************************)
(* What a request finds and leaves of its record. *)
LEMMA ExecuteEffect ==
  ASSUME StoreType, NEW t \in Tx, NEW q \in Request, Execute(t, q)
  PROVE  LET r == transactions[t]
             s == transactions'[t] IN
         /\ s # NoRecord
         /\ q.op = "create" => r = NoRecord /\ Open(s) /\ ~Committed(s)
         /\ q.op \in {"stage", "rebase"} => Open(r) /\ Open(s) /\ ~Committed(s)
         /\ q.op = "abort" => Open(r) /\ ~Open(s) /\ ~Committed(s)
         /\ Publishes(q) => ~Open(s) /\ Committed(s)
         /\ q.op = "write" => r = NoRecord
         /\ q.op \in {"commit", "begun"} => Open(r)
         /\ \A u \in Tx \ {t} : transactions'[u] = transactions[u]
<1> DEFINE r == transactions[t]
           s == transactions'[t]
<1> USE DEF Open, Committed
<1>1. transactions \in [Tx -> Record \cup {NoRecord}]
  BY DEF StoreType
<1>2. CASE CreateTransaction(t, q)
  <2>1. s = NewRecord(q.version, q.expires) /\ r = NoRecord /\ q.op = "create"
    BY <1>1, <1>2 DEF CreateTransaction, CreateAccepts, SetTransaction
  <2>2. s \in Record /\ s.status = "active"
    BY <2>1, Constants DEF NewRecord, Record, Status, Request
  <2> QED
    BY <1>1, <1>2, <2>1, <2>2, AbsenceAssumption DEF CreateTransaction, SetTransaction, Publishes
<1>3. CASE StageTransactionArtifacts(t, q)
  <2>1. Open(r) /\ r \in Record /\ q.op = "stage"
    BY <1>3, PresentRecord DEF StageTransactionArtifacts, StageAccepts, AtRevision, Has
  <2>2. s = [r EXCEPT !.journaled = TRUE, !.revision = @ + 1]
    BY <1>1, <1>3, <2>1 DEF StageTransactionArtifacts
  <2>3. s \in Record /\ s.status = "active"
    BY <2>1, <2>2, NextRevision, TRUE \in BOOLEAN, Zenon DEF Record
  <2>4. \A u \in Tx \ {t} : transactions'[u] = transactions[u]
    BY <1>1, <1>3 DEF StageTransactionArtifacts
  <2> QED
    BY <2>1, <2>3, <2>4, AbsenceAssumption DEF Publishes
<1>4. CASE AbortTransaction(t, q)
  <2>1. Open(r) /\ r \in Record /\ q.op = "abort"
    BY <1>4, PresentRecord DEF AbortTransaction, AbortAccepts, AtRevision, Has
  <2>2. s = [r EXCEPT !.status = "aborted", !.revision = @ + 1]
    BY <1>1, <1>4, <2>1 DEF AbortTransaction, SetTransaction
  <2>3. s \in Record /\ s.status = "aborted"
    BY <2>1, <2>2, NextRevision, Zenon DEF Record, Status
  <2>4. \A u \in Tx \ {t} : transactions'[u] = transactions[u]
    BY <1>1, <1>4 DEF AbortTransaction, SetTransaction
  <2> QED
    BY <2>1, <2>3, <2>4, AbsenceAssumption DEF Publishes
<1>5. CASE RebaseTransaction(t, q)
  <2>1. Open(r) /\ r \in Record /\ q.op = "rebase"
    BY <1>5, PresentRecord DEF RebaseTransaction, RebaseAccepts, AtRevision, Has
  <2>2. s = [r EXCEPT !.snapshot = q.version, !.revision = @ + 1]
    BY <1>1, <1>5, <2>1 DEF RebaseTransaction, SetTransaction
  <2>3. s \in Record /\ s.status = "active"
    BY <2>1, <2>2, NextRevision, ZenonT(30) DEF Record, Request
  <2>4. \A u \in Tx \ {t} : transactions'[u] = transactions[u]
    BY <1>1, <1>5 DEF RebaseTransaction, SetTransaction
  <2> QED
    BY <2>1, <2>3, <2>4, AbsenceAssumption DEF Publishes
<1>6. CASE CommitTransaction(t, q) \/ WriteTransaction(t, q)
  <2>1. PICK record \in Record : ApplyCommit(t, q, record)
    BY <1>6, PublishingRequest
  <2>2. MayPublish(q)
    BY <1>6, PublishingRequest
  <2>3. /\ s \in Record /\ s.status = "committed"
        /\ \A u \in Tx \ {t} : transactions'[u] = transactions[u]
    BY <2>1, <2>2, ApplyCommitEffect
  <2>4. \/ q.op = "write" /\ r = NoRecord
        \/ q.op \in {"commit", "begun"} /\ Open(r)
    BY <1>6 DEF CommitTransaction, CommitAccepts, WriteTransaction, BegunAccepts, WriteAccepts,
                AtRevision, Has
  <2> QED
    BY <2>3, <2>4, AbsenceAssumption DEF Publishes
<1> QED
  BY <1>2, <1>3, <1>4, <1>5, <1>6 DEF Execute

(* A call that has its effect leaves what holds of the write. *)
LEMMA ExecutedSteady ==
  ASSUME StoreType, NEW t \in Tx, NEW q \in Request, Execute(t, q),
         NEW c, NEW L, NEW p, NEW n, Steady(c, L, p, transactions[t]),
         p => n, Publishes(q) => n, n => p \/ Publishes(q),
         q.op = "create" => L = {} /\ ~c.persisted,
         q.op = "write" => (\A o \in L : o.op # "create") /\ ~c.persisted,
         Publishes(q) => \A o \in L : ~Publishes(o)
  PROVE  Steady(c, L, n, transactions'[t])
<1> DEFINE r == transactions[t]
           s == transactions'[t]
<1>1. /\ s # NoRecord
      /\ q.op = "create" => r = NoRecord /\ Open(s) /\ ~Committed(s)
      /\ q.op \in {"stage", "rebase"} => Open(r) /\ Open(s) /\ ~Committed(s)
      /\ q.op = "abort" => Open(r) /\ ~Open(s) /\ ~Committed(s)
      /\ Publishes(q) => ~Open(s) /\ Committed(s)
      /\ q.op = "write" => r = NoRecord
      /\ q.op \in {"commit", "begun"} => Open(r)
  BY ExecuteEffect
<1>2. q.op \in {"create", "stage", "commit", "write", "begun", "abort", "rebase"}
  BY DEF Request
<1>3. Open(r) => r # NoRecord
  BY DEF Open
<1> HIDE DEF r, s
<1>4. Steady(c, L, n, s)
  BY <1>1, <1>2, <1>3 DEF Steady, Publishes, r
<1> QED
  BY <1>4 DEF s

(* What a step of a write, or the arrival of a request of it, must leave. *)
Stepped(t) ==
    /\ SoundFor(t)'
    /\ client[t].pc = "done" => client'[t] = client[t]
    /\ t \in published => t \in published'
    /\ t \in published' /\ t \notin published =>
          ~client[t].settled /\ client'[t].told \in {client[t].told, "committed"}

(* An object that becomes sound has stepped. *)
LEMMA BecomesStepped ==
  ASSUME NEW t \in Tx, Live(t), BecomesNow(t), UNCHANGED <<late, published>>
  PROVE  Stepped(t)
<1>1. PICK d \in Client : Become(t, d) /\ Sound(d, late[t], t \in published, transactions'[t])
  BY DEF BecomesNow
<1>2. client'[t] = d /\ client[t].pc # "done"
  BY <1>1 DEF Become, Live, ClientType
<1> QED
  BY <1>1, <1>2 DEF Stepped, SoundFor

(* The reservation creates the record. *)
LEMMA BeginStepped ==
  ASSUME NEW t \in Tx, Live(t), BeginWithReservation(t)
  PROVE  Stepped(t)
<1> DEFINE c == client[t]
           L == late[t]
           p == t \in published
           s == transactions'[t]
           open == [c EXCEPT !.pc = "open", !.persisted = TRUE, !.snapshot = currentVersion,
                             !.expires = now + TTL, !.sources = Sources(t)]
           lost == [c EXCEPT !.pc = "lostBegin"]
<1>1. /\ c \in Client /\ c.pc = "idle" /\ Steady(c, L, p, transactions[t]) /\ Running(c, L, p, transactions[t])
      /\ L = {} /\ ~p /\ ~c.persisted
  BY LiveFacts DEF BeginWithReservation, At, Doubtful, Running, Exposed
<1>2. /\ transactions \in [Tx -> Record \cup {NoRecord}] /\ now + TTL \in Times /\ currentVersion \in Versions
  BY Deadline DEF Live, StoreType
<1>3. s = NewRecord(currentVersion, now + TTL)
  BY <1>2 DEF BeginWithReservation, BeginTransaction, SetTransaction
<1>4. ~Committed(s)
  BY <1>3 DEF Committed, NewRecord
<1>5. Sources(t) \in SUBSET Blocks
  BY DEF Sources
<1>6. open \in Client /\ lost \in Client
  <2>1. "open" \in PC /\ "lostBegin" \in PC /\ TRUE \in BOOLEAN
    BY DEF PC
  <2> QED
    BY <1>1, <1>2, <1>5, <2>1, Zenon DEF Client
<1>7. /\ open.pc = "open" /\ open.persisted = TRUE /\ open.status = c.status /\ open.goal = c.goal
      /\ open.told = c.told /\ open.settled = c.settled
  BY <1>1 DEF Client
<1>8. /\ lost.pc = "lostBegin" /\ lost.persisted = c.persisted /\ lost.status = c.status /\ lost.goal = c.goal
      /\ lost.told = c.told /\ lost.settled = c.settled
  BY <1>1 DEF Client
<1>9. Become(t, open) \/ Become(t, lost)
  BY DEF BeginWithReservation, Goto
<1>10. UNCHANGED <<late, published>>
  BY DEF BeginWithReservation
<1> HIDE DEF open, lost, s
<1>11. Steady(open, L, p, s) /\ Steady(lost, L, p, s)
  BY <1>1, <1>4, <1>7, <1>8 DEF Steady
<1>12. Running(open, L, p, s) /\ Running(lost, L, p, s)
  BY <1>1, <1>7, <1>8 DEF Running, Exposed
<1>13. Sound(open, L, p, s) /\ Sound(lost, L, p, s)
  BY <1>7, <1>8, <1>11, <1>12 DEF Sound
<1>14. BecomesNow(t)
  BY <1>6, <1>9, <1>13 DEF BecomesNow, s
<1> QED
  BY <1>10, <1>14, BecomesStepped

(* What a write waits for when it waits. *)
LEMMA CallFacts ==
  ASSUME NEW t \in Tx, Live(t), Waits(t)
  PROVE  LET c == client[t]
             q == Call(t)
             L == late[t] IN
         /\ q \in Request
         /\ q.op = IF c.pc = "write" /\ c.persisted THEN "begun" ELSE c.pc
         /\ c.pc \in {"create", "stage", "commit", "write", "abort", "rebase"}
         /\ Publishes(q) <=> c.pc \in {"commit", "write"}
         /\ c.pc # "abort" => ~Exposed(L, t \in published)
         /\ \A o \in L : o.op \notin {"create", "write"}
<1>1. client[t].pc \in {"create", "stage", "commit", "write", "abort", "rebase"}
  BY DEF Waits, Calls
<1>2. Call(t) \in Request
  BY CallType DEF Live
<1>3. Call(t).op = IF client[t].pc = "write" /\ client[t].persisted THEN "begun" ELSE client[t].pc
  BY DEF Call
<1>4. /\ client[t].pc # "abort" => ~Exposed(late[t], t \in published)
      /\ \A o \in late[t] : o.op \notin {"create", "write"}
  BY <1>1, LiveFacts DEF Running, Doubtful
<1> QED
  BY <1>1, <1>2, <1>3, <1>4 DEF Publishes

(* The effect of a call that was awaited. *)
LEMMA CallSteady ==
  ASSUME NEW t \in Tx, Live(t), Waits(t), Execute(t, Call(t)), Mark(t, Call(t))
  PROVE  /\ t \in published' <=> t \in published \/ Publishes(Call(t))
         /\ Steady(client[t], late[t], t \in published', transactions'[t])
         /\ client[t].pc = "abort" => ~Open(transactions'[t])
<1> DEFINE c == client[t]
           L == late[t]
           q == Call(t)
<1>1. t \in published' <=> t \in published \/ Publishes(q)
  BY DEF Mark
<1>2. /\ q \in Request
      /\ q.op = IF c.pc = "write" /\ c.persisted THEN "begun" ELSE c.pc
      /\ c.pc \in {"create", "stage", "commit", "write", "abort", "rebase"}
      /\ Publishes(q) <=> c.pc \in {"commit", "write"}
      /\ c.pc # "abort" => ~Exposed(L, t \in published)
      /\ \A o \in L : o.op \notin {"create", "write"}
  BY CallFacts
<1>3. Steady(c, L, t \in published, transactions[t]) /\ Running(c, L, t \in published, transactions[t])
  BY LiveFacts
<1>4. q.op = "create" => L = {} /\ ~c.persisted
  BY <1>2, <1>3 DEF Running
<1>5. q.op = "write" => ~c.persisted
  BY <1>2
<1>6. Publishes(q) => \A o \in L : ~Publishes(o)
  BY <1>2 DEF Exposed
<1> HIDE DEF q
<1>7. Execute(t, q) /\ StoreType
  BY DEF q, Live
<1>8. Steady(c, L, t \in published', transactions'[t])
  <2> DEFINE p == t \in published
             n == t \in published'
  <2>1. /\ p => n
        /\ Publishes(q) => n
        /\ n => p \/ Publishes(q)
        /\ q.op = "write" => (\A o \in L : o.op # "create") /\ ~c.persisted
        /\ Steady(c, L, p, transactions[t]) /\ q \in Request
    BY <1>1, <1>2, <1>3, <1>5
  <2> HIDE DEF c, L, p, n
  <2>2. Steady(c, L, n, transactions'[t])
    BY <1>4, <1>6, <1>7, <2>1, ExecutedSteady
  <2> QED
    BY <2>2 DEF n
<1>9. c.pc = "abort" => ~Open(transactions'[t])
  BY <1>2, <1>7, ExecuteEffect
<1> QED
  BY <1>1, <1>8, <1>9 DEF q

(* A call is answered. *)
LEMMA AnsweredStepped ==
  ASSUME NEW t \in Tx, Live(t), Answered(t)
  PROVE  Stepped(t)
<1> DEFINE c == client[t]
           L == late[t]
           p == t \in published'
           s == transactions'[t]
           d == Succeeded(t)
<1>1. Waits(t) /\ Execute(t, Call(t)) /\ Mark(t, Call(t)) /\ Become(t, d) /\ UNCHANGED late
  BY DEF Answered
<1>2. /\ p <=> t \in published \/ Publishes(Call(t))
      /\ Steady(c, L, p, s)
      /\ c.pc = "abort" => ~Open(s)
  BY <1>1, CallSteady
<1>3. /\ c.pc \in {"create", "stage", "commit", "write", "abort", "rebase"}
      /\ Publishes(Call(t)) <=> c.pc \in {"commit", "write"}
      /\ c.pc # "abort" => ~Exposed(L, t \in published)
      /\ \A o \in L : o.op \notin {"create", "write"}
  BY <1>1, CallFacts
<1>4. /\ c \in Client /\ c.told = "nothing" /\ ~c.settled /\ c.goal # "create" /\ c.target \in Versions
      /\ Running(c, L, t \in published, transactions[t]) /\ c.revision \in Nat
      /\ Exposed(L, t \in published) => Doubtful(c)
  BY LiveFacts DEF Running, Client
<1>5. Exposed(L, p) <=> Exposed(L, t \in published) \/ c.pc \in {"commit", "write"}
  BY <1>2, <1>3 DEF Exposed
<1> HIDE DEF p, s
<1>6. ASSUME c.pc = "create"
     PROVE  Sound(d, L, p, s)
  <2> DEFINE b == [c EXCEPT !.persisted = TRUE]
  <2>1. d = Toward(t, b, "stage")
    BY <1>6 DEF Succeeded
  <2>2. /\ b \in Client /\ b.persisted = TRUE /\ b.status = c.status /\ b.told = c.told
        /\ b.settled = c.settled
    BY <1>4 DEF Client
  <2> HIDE DEF b
  <2>3. L = {} /\ ~c.persisted
    BY <1>4, <1>6 DEF Running
  <2>4. Steady(b, L, p, s)
    BY <1>2, <2>2, <2>3 DEF Steady
  <2>5. Sound(Toward(t, b, "stage"), L, p, s)
    BY <1>3, <1>4, <1>5, <1>6, <2>2, <2>4, TowardSound DEF Calls
  <2> QED
    BY <2>1, <2>5
<1>7. ASSUME c.pc = "stage"
     PROVE  Sound(d, L, p, s)
  <2> DEFINE b == [c EXCEPT !.journaled = TRUE, !.revision = @ + 1, !.pc = "open"]
  <2>1. d = b
    BY <1>7 DEF Succeeded
  <2>2. /\ b.pc = "open" /\ b.persisted = c.persisted /\ b.status = c.status /\ b.told = c.told
        /\ b.settled = c.settled /\ b.goal = c.goal
    BY <1>4 DEF Client
  <2> HIDE DEF b
  <2>3. c.persisted
    BY <1>4, <1>7 DEF Running
  <2>4. Steady(b, L, p, s)
    BY <1>2, <2>2, SteadyOn
  <2>5. Running(b, L, p, s)
    BY <1>3, <1>4, <1>5, <1>7, <2>2, <2>3 DEF Running
  <2> QED
    BY <2>1, <2>2, <2>4, <2>5 DEF Sound
<1>8. ASSUME c.pc = "rebase"
     PROVE  Sound(d, L, p, s)
  <2> DEFINE b == [c EXCEPT !.snapshot = c.target, !.revision = @ + 1]
  <2>1. d = Toward(t, b, CommitGoal(c))
    BY <1>8 DEF Succeeded
  <2>2. /\ b.persisted = c.persisted /\ b.status = c.status /\ b.told = c.told
        /\ b.settled = c.settled
    BY <1>4 DEF Client
  <2>3. b \in Client
    BY <1>4, NextRevision, Zenon DEF Client
  <2> HIDE DEF b
  <2>4. Steady(b, L, p, s)
    BY <1>2, <2>2, SteadyOn
  <2>5. CommitGoal(c) \in Calls \ {"create"} /\ CommitGoal(c) # "stage"
    BY DEF CommitGoal, Calls
  <2>6. Sound(Toward(t, b, CommitGoal(c)), L, p, s)
    BY <1>3, <1>4, <1>5, <1>8, <2>2, <2>3, <2>4, <2>5, TowardSound
  <2> QED
    BY <2>1, <2>6
<1>9. ASSUME c.pc = "abort"
     PROVE  Sound(d, L, p, s)
  <2>1. d = Settled(c)
    BY <1>9 DEF Succeeded
  <2>2. Sound(Settled(c), L, p, s)
    BY <1>2, <1>4, <1>5, <1>9, SettledSound DEF Doubtful
  <2> QED
    BY <2>1, <2>2
<1>10. ASSUME c.pc \in {"commit", "write"}
      PROVE  Sound(d, L, p, s)
  <2>1. d = Ended("committed", FALSE)
    BY <1>10 DEF Succeeded
  <2>2. p
    BY <1>2, <1>3, <1>10
  <2>3. Sound(Ended("committed", FALSE), L, p, s)
    BY <1>2, <2>2, EndedSound
  <2> QED
    BY <2>1, <2>3
<1>11. Sound(d, L, p, s)
  BY <1>3, <1>6, <1>7, <1>8, <1>9, <1>10
<1>12. c.pc \in {"commit", "write"} => d.told = "committed"
  <2>1. c.pc \in {"commit", "write"} => d = Ended("committed", FALSE)
    BY DEF Succeeded
  <2>2. Ended("committed", FALSE).told = "committed"
    BY EndedFields, ZenonT(30)
  <2> QED
    BY <2>1, <2>2
<1>13. client'[t] = d /\ late' = late
  BY <1>1 DEF Become, Live, ClientType
<1>14. SoundFor(t)'
  BY <1>11, <1>13 DEF SoundFor, p, s
<1>15. c.pc # "done"
  BY <1>3
<1> QED
  BY <1>2, <1>3, <1>4, <1>12, <1>13, <1>14, <1>15 DEF Stepped, p

(* A call whose answer never comes: it had its effect, or is on its way. *)
LEMMA LostStepped ==
  ASSUME NEW t \in Tx, Live(t), Lost(t)
  PROVE  Stepped(t)
<1> DEFINE c == client[t]
           q == Call(t)
           L == late[t]
           p == t \in published
           M == late'[t]
           n == t \in published'
           s == transactions'[t]
           d == IF c.pc = "abort" THEN Finished(c, "unknown") ELSE Recovering(t, "unknown")
<1>1. Waits(t) /\ Become(t, d)
  BY DEF Lost, At
<1>2. /\ q \in Request
      /\ q.op = IF c.pc = "write" /\ c.persisted THEN "begun" ELSE c.pc
      /\ c.pc \in {"create", "stage", "commit", "write", "abort", "rebase"}
      /\ Publishes(q) <=> c.pc \in {"commit", "write"}
      /\ c.pc # "abort" => ~Exposed(L, p)
      /\ \A o \in L : o.op \notin {"create", "write"}
  BY <1>1, CallFacts
<1>3. /\ c \in Client /\ c.told = "nothing" /\ ~c.settled /\ c.goal # "create"
      /\ Steady(c, L, p, transactions[t]) /\ Running(c, L, p, transactions[t])
      /\ Exposed(L, p) => c.attempted /\ c.err = "unknown"
  BY LiveFacts DEF Running, Doubtful
<1>4. /\ c.pc = "create" => L = {} /\ ~c.persisted /\ transactions[t] = NoRecord
      /\ c.pc = "stage" => c.persisted
      /\ c.pc \in {"commit", "write"} => c.attempted
  BY <1>3 DEF Running
<1>5. /\ Steady(c, M, n, s)
      /\ p => n
      /\ Exposed(M, n) => Exposed(L, p) \/ Publishes(q)
      /\ \A o \in M : o \in L \/ o = q
      /\ n => p \/ Publishes(q)
  <2>1. CASE Execute(t, q) /\ Mark(t, q) /\ UNCHANGED late
    <3>1. (n <=> p \/ Publishes(q)) /\ Steady(c, L, n, s) /\ M = L
      BY <1>1, <2>1, CallSteady
    <3> QED
      BY <3>1 DEF Exposed
  <2>2. CASE late' = [late EXCEPT ![t] = @ \cup {q}] /\ UNCHANGED <<coreVars, published>>
    <3>1. M = L \cup {q} /\ n = p /\ s = transactions[t]
      BY <2>2 DEF Live, ClientType, coreVars
    <3> HIDE DEF M, n, s, c, L, p, q
    <3>2. Steady(c, L \cup {q}, p, transactions[t])
      BY <1>2, <1>3, <1>4 DEF Steady, Exposed
    <3> QED
      BY <3>1, <3>2 DEF Exposed
  <2> QED
    BY <2>1, <2>2 DEF Lost
<1>6. client'[t] = d
  BY <1>1 DEF Become, Live, ClientType
<1>7. c.pc # "done" /\ (n /\ ~p => Publishes(q))
  BY <1>2, <1>5
<1>8. ASSUME c.pc = "abort"
      PROVE  Sound(d, M, n, s)
  <2>1. Exposed(M, n) => c.attempted /\ c.err = "unknown"
    BY <1>2, <1>3, <1>5, <1>8
  <2>2. Sound(Finished(c, "unknown"), M, n, s)
    BY <1>5, <2>1, FinishedSound
  <2> QED
    BY <1>8, <2>2
<1>9. ASSUME c.pc # "abort"
      PROVE  Sound(d, M, n, s)
  <2>1. c.pc \in Calls \ {"abort"} /\ ClientType /\ "unknown" \in Errors
    BY <1>2, <1>9 DEF Calls, Live, Errors
  <2>2. /\ Exposed(M, n) => c.pc \in {"commit", "write"} /\ c.attempted
        /\ \A o \in M : o.op = "create" => c.pc = "create"
        /\ \A o \in M : o.op = "write" => c.pc = "write"
    BY <1>2, <1>4, <1>5, <1>9
  <2>3. Sound(Recovering(t, "unknown"), M, n, s)
    BY <1>3, <1>4, <1>5, <2>1, <2>2, RecoveringSound
  <2> QED
    BY <1>9, <2>3
<1>10. c.pc \in {"commit", "write"} => d.told = c.told
  <2>1. c.pc \in {"commit", "write"} =>
           d = [[client[t] EXCEPT !.err = "unknown"] EXCEPT !.pc = "recover", !.reads = 0]
    BY <1>3 DEF Recovering, Client
  <2> QED
    BY <1>3, <2>1 DEF Client
<1>11. Sound(d, M, n, s)
  BY <1>8, <1>9
<1>12. SoundFor(t)'
  BY <1>6, <1>11 DEF SoundFor
<1> QED
  BY <1>2, <1>3, <1>5, <1>6, <1>7, <1>10, <1>12 DEF Stepped

(* A request arrives that nobody waits for. *)
LEMMA LateStepped ==
  ASSUME NEW t \in Tx, ClientType, StoreType, SoundFor(t), LateArrives(t)
  PROVE  Stepped(t)
<1> DEFINE c == client[t]
           L == late[t]
           p == t \in published
           r == transactions[t]
           M == late'[t]
           n == t \in published'
           s == transactions'[t]
<1>1. PICK q \in L :
         /\ IF Accepts(t, q) THEN Execute(t, q) /\ Mark(t, q) ELSE UNCHANGED <<coreVars, published>>
         /\ late' = [late EXCEPT ![t] = @ \ {q}]
         /\ UNCHANGED <<client, held>>
  BY DEF LateArrives
<1>2. M = L \ {q} /\ client'[t] = c /\ q \in Request /\ q \in L
  BY <1>1 DEF ClientType
<1>3. Steady(c, L, p, r) /\ Sound(c, L, p, r)
  BY DEF SoundFor, Sound
<1>4. Steady(c, M, p, r)
  BY <1>2, <1>3 DEF Steady
<1>5. CASE UNCHANGED <<coreVars, published>>
  <2>1. n = p /\ s = r
    BY <1>5 DEF coreVars
  <2> HIDE DEF M, n, s, c, L, p, r
  <2>2. Sound(c, M, p, r)
    BY <1>2, <1>3, <1>4 DEF Sound, Running, Over, Exposed
  <2>3. SoundFor(t)'
    BY <1>2, <2>1, <2>2 DEF SoundFor, M, n, s
  <2> QED
    BY <1>2, <2>1, <2>3 DEF Stepped, n, p, c
<1>6. CASE Execute(t, q) /\ Mark(t, q)
  <2>1. n <=> p \/ Publishes(q)
    BY <1>6 DEF Mark
  <2>2. /\ s # NoRecord
        /\ q.op = "create" => r = NoRecord /\ Open(s) /\ ~Committed(s)
        /\ q.op \in {"stage", "rebase"} => Open(r) /\ Open(s) /\ ~Committed(s)
        /\ q.op = "abort" => Open(r) /\ ~Open(s) /\ ~Committed(s)
        /\ Publishes(q) => ~Open(s) /\ Committed(s)
        /\ q.op = "write" => r = NoRecord
        /\ q.op \in {"commit", "begun"} => Open(r)
    BY <1>2, <1>6, ExecuteEffect
  <2>3. q.op \in {"create", "stage", "commit", "write", "begun", "abort", "rebase"}
    BY <1>2 DEF Request
  <2>4. /\ q.op = "create" => M = {} /\ ~c.persisted /\ ~c.settled
        /\ q.op = "write" => (\A o \in M : o.op # "create") /\ ~c.persisted /\ ~c.settled
        /\ Publishes(q) => ~p /\ \A o \in M : ~Publishes(o)
    <3>1. q.op = "create" => L = {q} /\ ~c.persisted /\ ~c.settled
      BY <1>2, <1>3 DEF Steady
    <3>2. q.op = "write" => (\A o \in L : o.op # "create") /\ ~c.persisted /\ ~c.settled
      BY <1>2, <1>3 DEF Steady
    <3>3. Publishes(q) => ~p /\ \A o \in L : Publishes(o) => o = q
      BY <1>2, <1>3 DEF Steady
    <3> QED
      BY <1>2, <3>1, <3>2, <3>3
  <2> HIDE DEF M, n, s, c, L, p
  <2>5. Steady(c, M, n, s)
    <3>1. (p => n) /\ (Publishes(q) => n) /\ (n => p \/ Publishes(q))
      BY <2>1
    <3>2. Steady(c, M, n, transactions'[t])
      BY <1>2, <1>4, <1>6, <2>4, <3>1, ExecutedSteady
    <3> QED
      BY <3>2 DEF s
  <2>6. Exposed(M, n) => Exposed(L, p)
    BY <1>2, <2>1 DEF Exposed
  <2> HIDE DEF r
  <2>7. ASSUME c.pc = "done"
        PROVE  Over(c, M, n, s)
    BY <1>3, <2>1, <2>2, <2>3, <2>4, <2>6, <2>7 DEF Sound, Over, Publishes
  <2>8. ASSUME c.pc # "done"
        PROVE  Running(c, M, n, s)
    BY <1>2, <1>3, <2>6, <2>8 DEF Sound, Running
  <2>9. Sound(c, M, n, s)
    BY <2>5, <2>7, <2>8 DEF Sound
  <2>10. SoundFor(t)'
    BY <1>2, <2>9 DEF SoundFor, M, n, s, c
  <2>11. n /\ ~p => ~c.settled
    BY <1>3, <2>1, <2>2, <2>4 DEF Sound, Over, Running, Publishes
  <2> QED
    BY <1>2, <2>1, <2>10, <2>11 DEF Stepped, n, p, c
<1> QED
  BY <1>1, <1>5, <1>6
--------------------------------------------------------------------------------
(***************************************************************************)
(* A step of one transaction is none of another, and the steps of the      *)
(* snapshots and of the store are none of any.                             *)
(***************************************************************************)
Apart(t) ==
    \A u \in Tx \ {t} :
        /\ client'[u] = client[u] /\ late'[u] = late[u] /\ transactions'[u] = transactions[u]
        /\ u \in published' <=> u \in published

(* A write of one record leaves the others. *)
LEMMA SetApart ==
  ASSUME StoreType, NEW t \in Tx, NEW record, SetTransaction(t, record)
  PROVE  \A u \in Tx \ {t} : transactions'[u] = transactions[u]
  BY DEF StoreType, SetTransaction

(* A change of one object leaves the others. *)
LEMMA BecomeApart ==
  ASSUME ClientType, NEW t \in Tx, NEW d, Become(t, d)
  PROVE  \A u \in Tx \ {t} : client'[u] = client[u]
  BY DEF ClientType, Become

(* The steps that make no request. *)
LEMMA QuietStepped ==
  ASSUME ClientType, StoreType, NEW t \in Tx, SoundFor(t),
         \/ SettleLostBegin(t) \/ ProbeDeferred(t) \/ PinDeferred(t)
         \/ Stage(t) \/ Commit(t) \/ GiveUp(t)
         \/ RenewOwnership(t) \/ RenewFails(t) \/ RenewRead(t) \/ Heartbeat(t)
         \/ Refused(t) \/ CreateRead(t) \/ StageRead(t) \/ RecoverCommitted(t)
         \/ RebaseRead(t) \/ MoveSnapshotLease(t)
         \/ AbortRead(t) \/ SettleLapsedAbort(t) \/ SettleRead(t)
  PROVE  Stepped(t)
<1>1. client[t].pc # "done"
  BY DEF SettleLostBegin, ProbeDeferred, PinDeferred, Stage, Commit, GiveUp, RenewOwnership, RenewFails,
         RenewRead, Heartbeat, Refused, Waits, Calls, CreateRead, StageRead, RecoverCommitted,
         RebaseRead, MoveSnapshotLease, AbortRead, SettleLapsedAbort, SettleRead, At
<1>2. Live(t)
  BY <1>1 DEF Live
<1>3. UNCHANGED <<late, published>>
  BY DEF SettleLostBegin, ProbeDeferred, PinDeferred, Stage, Commit, GiveUp, RenewOwnership, RenewFails,
         RenewRead, Heartbeat, Refused, CreateRead, StageRead, RecoverCommitted,
         RebaseRead, MoveSnapshotLease, AbortRead, SettleLapsedAbort, SettleRead
<1>4. CASE \/ ProbeDeferred(t) \/ Stage(t) \/ Commit(t) \/ GiveUp(t) \/ RenewRead(t)
           \/ Refused(t) \/ CreateRead(t) \/ StageRead(t) \/ RecoverCommitted(t)
           \/ RebaseRead(t) \/ AbortRead(t) \/ SettleRead(t) \/ PinDeferred(t) \/ MoveSnapshotLease(t)
  <2>1. UNCHANGED transactions
    BY <1>4
    DEF ProbeDeferred, Stage, Commit, GiveUp, RenewRead, Refused, CreateRead, StageRead,
        RecoverCommitted, RebaseRead, AbortRead, SettleRead, coreVars,
        PinDeferred, OpenPin, CreateLease, MoveSnapshotLease, Moved, MoveLost, MoveLease, SetLeases
  <2>2. Becomes(t)
    BY <1>2, <1>4, ProbeDeferredSound, AskSound, RenewReadSound, RefusedSound, ReadBackSound,
       RecoverSound, RebaseReadSound, AbortReadSound, PinSound, MoveSound
  <2> QED
    BY <1>2, <1>3, <2>1, <2>2, SameFollows, BecomesFollows, BecomesStepped
<1>5. CASE \/ SettleLostBegin(t) \/ RenewOwnership(t) \/ RenewFails(t) \/ Heartbeat(t)
           \/ SettleLapsedAbort(t)
  <2>1. BecomesNow(t)
    BY <1>2, <1>5, LostBeginSound, RenewOwnershipSound, RenewFailsSound, HeartbeatSound, SettleSound
  <2> QED
    BY <1>2, <1>3, <2>1, BecomesStepped
<1> QED
  BY <1>4, <1>5

(* They leave the others alone. *)
LEMMA QuietApart ==
  ASSUME ClientType, StoreType, NEW t \in Tx,
         \/ BeginWithReservation(t)
         \/ SettleLostBegin(t) \/ ProbeDeferred(t) \/ PinDeferred(t)
         \/ Stage(t) \/ Commit(t) \/ GiveUp(t)
         \/ RenewOwnership(t) \/ RenewFails(t) \/ RenewRead(t) \/ Heartbeat(t)
         \/ Refused(t) \/ CreateRead(t) \/ StageRead(t) \/ RecoverCommitted(t)
         \/ RebaseRead(t) \/ MoveSnapshotLease(t)
         \/ AbortRead(t) \/ SettleLapsedAbort(t) \/ SettleRead(t)
  PROVE  Apart(t)
<1>1. UNCHANGED <<late, published>>
  BY DEF BeginWithReservation, SettleLostBegin, ProbeDeferred, PinDeferred, Stage, Commit, GiveUp,
         RenewOwnership, RenewFails, RenewRead, Heartbeat, Refused, CreateRead, StageRead,
         RecoverCommitted, RebaseRead, MoveSnapshotLease, AbortRead, SettleLapsedAbort, SettleRead
<1>2. \A u \in Tx \ {t} : client'[u] = client[u]
  <2>1. \E d \in Client : Become(t, d)
    BY WriteClientType
  <2> QED
    BY <2>1, BecomeApart
<1>3. \A u \in Tx \ {t} : transactions'[u] = transactions[u]
  <2>1. CASE \/ ProbeDeferred(t) \/ Stage(t) \/ Commit(t) \/ GiveUp(t) \/ RenewRead(t)
             \/ Refused(t) \/ CreateRead(t) \/ StageRead(t) \/ RecoverCommitted(t)
             \/ RebaseRead(t) \/ AbortRead(t) \/ SettleRead(t) \/ PinDeferred(t) \/ MoveSnapshotLease(t)
    BY <2>1
    DEF ProbeDeferred, Stage, Commit, GiveUp, RenewRead, Refused, CreateRead, StageRead,
        RecoverCommitted, RebaseRead, AbortRead, SettleRead, coreVars,
        PinDeferred, OpenPin, CreateLease, MoveSnapshotLease, Moved, MoveLost, MoveLease, SetLeases
  <2>2. CASE \/ BeginWithReservation(t) \/ SettleLostBegin(t) \/ RenewOwnership(t) \/ RenewFails(t)
             \/ Heartbeat(t) \/ SettleLapsedAbort(t)
    <3>1. UNCHANGED transactions \/ \E record : SetTransaction(t, record)
      BY <2>2
      DEF BeginWithReservation, BeginTransaction, SettleLostBegin, AbortTransaction, RenewOwnership,
          RenewFails, Heartbeat, RenewTransaction, SettleLapsedAbort, AbortTransactionIfExpired, coreVars
    <3> QED
      BY <3>1, SetApart
  <2> QED
    BY <2>1, <2>2
<1> QED
  BY <1>1, <1>2, <1>3 DEF Apart

(* So do the requests. *)
LEMMA RequestApart ==
  ASSUME ClientType, StoreType, NEW t \in Tx, Answered(t) \/ Lost(t) \/ LateArrives(t)
  PROVE  Apart(t)
<1>1. PICK q \in Request :
         \/ Execute(t, q) /\ Mark(t, q)
         \/ UNCHANGED <<coreVars, published>>
  BY CallType DEF Answered, Lost, LateArrives, ClientType
<1>2. \A u \in Tx \ {t} : /\ transactions'[u] = transactions[u]
                          /\ u \in published' <=> u \in published
  BY <1>1, ExecuteEffect DEF Mark, coreVars
<1>3. \A u \in Tx \ {t} : client'[u] = client[u]
  <2>1. CASE Answered(t) \/ Lost(t)
    <3>1. \E d \in Client : Become(t, d)
      BY <2>1, WriteClientType
    <3> QED
      BY <3>1, BecomeApart
  <2>2. CASE LateArrives(t)
    BY <2>2 DEF LateArrives
  <2> QED
    BY <2>1, <2>2
<1>4. \A u \in Tx \ {t} : late'[u] = late[u]
  BY DEF Answered, Lost, LateArrives, ClientType
<1> QED
  BY <1>2, <1>3, <1>4 DEF Apart

(* A step of a client. *)
LEMMA ClientStepped ==
  ASSUME ClientType, StoreType, Protocol, ClientNext
  PROVE  \E t \in Tx : Stepped(t) /\ Apart(t)
<1>1. ASSUME NEW t \in Tx, BeginWithReservation(t)
      PROVE  Stepped(t) /\ Apart(t)
  <2>1. Live(t)
    BY <1>1 DEF Live, Protocol, BeginWithReservation, At
  <2> QED
    BY <1>1, <2>1, BeginStepped, QuietApart
<1>2. ASSUME NEW t \in Tx, Answered(t) \/ Lost(t)
      PROVE  Stepped(t) /\ Apart(t)
  <2>1. Live(t)
    BY <1>2 DEF Live, Protocol, Answered, Lost, Waits, Calls
  <2> QED
    BY <1>2, <2>1, AnsweredStepped, LostStepped, RequestApart
<1>3. ASSUME NEW t \in Tx, LateArrives(t)
      PROVE  Stepped(t) /\ Apart(t)
  BY <1>3, LateStepped, RequestApart DEF Protocol
<1> QED
  BY <1>1, <1>2, <1>3, QuietStepped, QuietApart DEF ClientNext, Protocol

(* A step of the snapshots or of the store. *)
LEMMA OthersFollow ==
  ASSUME ClientType, StoreType, LeaseNext \/ StoreNext \/ UNCHANGED vars
  PROVE  /\ UNCHANGED <<client, late, published>>
         /\ \A t \in Tx : Follows(transactions[t], transactions'[t])
<1>1. UNCHANGED <<client, late, published>>
  BY DEF LeaseNext, RenewHeld, Repin, RemoveHeld, ProbeReader, PinReader, MoveReader, CloseReader,
         StoreNext, vars
<1>2. CASE LeaseNext \/ UNCHANGED vars
  <2>1. UNCHANGED transactions
    BY <1>2
    DEF LeaseNext, RenewHeld, Repin, RemoveHeld, ProbeReader, PinReader, MoveReader, CloseReader,
        OpenPin, CreateLease, RenewLease, RemoveLease, Moved, MoveLost, MoveLease, SetLeases,
        coreVars, vars
  <2> QED
    BY <1>1, <2>1, SameFollows
<1>3. CASE StoreNext
  <2>1. CASE CollectStep
    <3>1. \A t \in Tx : transactions'[t] = transactions[t] \/ transactions'[t] = NoRecord
      BY <2>1, CollectEffect
    <3> QED
      BY <1>1, <3>1 DEF Follows, Open, Committed
  <2>2. CASE Tick
    BY <1>1, <2>2, SameFollows DEF Tick
  <2>3. ASSUME NEW t \in Tx, SweepExpired(t)
        PROVE  \A u \in Tx : Follows(transactions[u], transactions'[u])
    <3>1. Closes(t)
      BY <2>3 DEF SweepExpired, AbortTransactionIfExpired, Closes
    <3>2. \A u \in Tx \ {t} : transactions'[u] = transactions[u]
      BY <3>1, SetApart DEF Closes
    <3> QED
      BY <3>1, <3>2, ClosesFollows DEF Follows
  <2> QED
    BY <1>1, <1>3, <2>1, <2>2, <2>3 DEF StoreNext, CollectStep
<1> QED
  BY <1>2, <1>3

(* Every step keeps the protocol. *)
LEMMA ProtocolStep ==
  ASSUME ClientType, StoreType, Protocol, [Next]_vars
  PROVE  Protocol'
<1>1. CASE ClientNext
  <2>1. PICK t \in Tx : Stepped(t) /\ Apart(t)
    BY <1>1, ClientStepped
  <2>2. ASSUME NEW u \in Tx \ {t}
        PROVE  SoundFor(u)'
    <3>1. /\ client'[u] = client[u] /\ late'[u] = late[u] /\ transactions'[u] = transactions[u]
          /\ u \in published' <=> u \in published
      BY <2>1 DEF Apart
    <3>2. (u \in published') = (u \in published)
      BY <3>1
    <3> QED
      BY <3>1, <3>2 DEF Protocol, SoundFor
  <2> QED
    BY <2>1, <2>2 DEF Protocol, Stepped
<1>2. CASE LeaseNext \/ StoreNext \/ UNCHANGED vars
  <2>1. /\ UNCHANGED <<client, late, published>>
        /\ \A t \in Tx : Follows(transactions[t], transactions'[t])
    BY <1>2, OthersFollow
  <2>2. ASSUME NEW t \in Tx
        PROVE  Sound(client[t], late[t], t \in published, transactions'[t])
    BY <2>1, RecordSound DEF Protocol, SoundFor, Follows
  <2> QED
    BY <2>1, <2>2 DEF Protocol, SoundFor
<1> QED
  BY <1>1, <1>2 DEF Next
--------------------------------------------------------------------------------
(***************************************************************************)
(* The theorems.                                                           *)
(***************************************************************************)
(* The protocol holds from the start. *)
LEMMA ProtocolInit == Init => Protocol
<1> SUFFICES ASSUME Init, NEW t \in Tx PROVE SoundFor(t)
  BY DEF Protocol
<1>1. client[t] = NewClient /\ late[t] = {} /\ published = {} /\ transactions[t] = NoRecord
  BY DEF Init, CoreInit
<1>2. /\ NewClient.pc = "idle" /\ NewClient.told = "nothing" /\ NewClient.settled = FALSE
      /\ NewClient.persisted = FALSE /\ NewClient.status = "active" /\ NewClient.goal = "stage"
  BY DEF NewClient
<1>3. Sound(NewClient, {}, FALSE, NoRecord)
  BY <1>2 DEF Sound, Steady, Running, Exposed, Committed
<1>4. (t \in published) = FALSE
  BY <1>1
<1> QED
  BY <1>1, <1>3, <1>4 DEF SoundFor

(* It holds in every state: whoever may be published is known to be in doubt. *)
THEOREM ProtocolKept == Spec => []Protocol
<1>1. Inv /\ Protocol /\ [Next]_vars => Protocol'
  BY ProtocolStep DEF Inv, StoreInv
<1> QED
  BY <1>1, Invariance, ProtocolInit, PTL DEF Spec

(* Once abort() has returned for a persisted transaction that is not published, no request that *)
(* is still on its way publishes it.                                                            *)
THEOREM AbortIsFinal == Spec => SettledIsFinal
<1> DEFINE Final == \A t \in Tx : client[t].settled /\ t \notin published => t \notin published'
<1>1. Inv /\ Protocol /\ [Next]_vars => [Final]_vars
  <2> SUFFICES ASSUME ClientType, StoreType, Protocol, [Next]_vars
               PROVE  Final
    BY DEF Inv, StoreInv
  <2>1. CASE ClientNext
    <3>1. PICK t \in Tx : Stepped(t) /\ Apart(t)
      BY <2>1, ClientStepped
    <3> QED
      BY <3>1 DEF Stepped, Apart
  <2>2. CASE LeaseNext \/ StoreNext \/ UNCHANGED vars
    BY <2>2, OthersFollow
  <2> QED
    BY <2>1, <2>2 DEF Next
<1> QED
  BY <1>1, Invariance, ProtocolKept, PTL DEF Spec, SettledIsFinal

(* The abstract writer starts where the transactions start. *)
LEMMA OutcomeInit == Init => Outcome!Init
  BY DEF Init, Outcome!Init, NewClient

(* What a step of a transaction publishes and tells. *)
LEMMA OutcomeStep ==
  ASSUME ClientType, ClientType', Protocol, NEW t \in Tx, Stepped(t), Apart(t)
  PROVE  [Outcome!Next]_<<published, [u \in Tx |-> client[u].told]>>
<1> DEFINE told == [u \in Tx |-> client[u].told]
           c == client[t]
           d == client'[t]
<1>1. told' = [told EXCEPT ![t] = d.told] /\ told[t] = c.told
  BY DEF Apart
<1>2. c.told \in Answers /\ d.told \in Answers
  BY DEF ClientType, Client
<1>3. /\ published' = IF t \in published' THEN published \cup {t} ELSE published \ {t}
      /\ t \in published => t \in published'
  BY DEF Apart, ClientType, Stepped
<1>4. /\ c.pc = "done" => Over(c, late[t], t \in published, transactions[t])
      /\ c.pc # "done" => c.told = "nothing"
  BY DEF Protocol, SoundFor, Sound, Running
<1>5. /\ d.pc = "done" => Over(d, late'[t], t \in published', transactions'[t])
      /\ d.pc # "done" => d.told = "nothing"
  BY DEF Stepped, SoundFor, Sound, Running
<1>6. /\ c.told = "committed" => t \in published
      /\ d.told = "committed" => t \in published'
      /\ d.told = "failed" => t \notin published'
      /\ c.told # d.told => c.told = "nothing"
      /\ t \in published' /\ t \notin published => d.told \in {c.told, "committed"}
  BY <1>4, <1>5 DEF Over, Exposed, Stepped
<1>7. CASE t \in published <=> t \in published'
  <2>1. published' = published
    BY <1>3, <1>7
  <2>2. CASE d.told = c.told
    BY <1>1, <2>1, <2>2
  <2>3. CASE d.told # c.told
    <3>1. Outcome!Tell(t)
      BY <1>1, <1>2, <1>6, <2>1, <2>3 DEF Outcome!Tell, Answers
    <3> QED
      BY <3>1 DEF Outcome!Next
  <2> QED
    BY <2>2, <2>3
<1>8. CASE t \notin published /\ t \in published'
  <2>1. published' = published \cup {t}
    BY <1>3, <1>8
  <2>2. CASE d.told = c.told
    <3>1. told' = told /\ c.told \in {"nothing", "uncertain"}
      BY <1>1, <1>2, <1>6, <1>8, <2>2 DEF Answers
    <3>2. Outcome!Publish(t)
      BY <1>1, <1>8, <2>1, <3>1 DEF Outcome!Publish
    <3> QED
      BY <3>2 DEF Outcome!Next
  <2>3. CASE d.told # c.told
    <3>1. Outcome!PublishAndTell(t)
      BY <1>1, <1>6, <1>8, <2>1, <2>3 DEF Outcome!PublishAndTell
    <3> QED
      BY <3>1 DEF Outcome!Next
  <2> QED
    BY <2>2, <2>3
<1> QED
  BY <1>3, <1>7, <1>8

(* Whatever answers are lost and whenever requests arrive: a transaction is published at most    *)
(* once, its caller is told that it committed only when it is published, and that it failed only *)
(* if it never is.                                                                               *)
THEOREM CallersAreToldTheTruth == Spec => OutcomeHolds
<1>1. Inv /\ Inv' /\ Protocol /\ [Next]_vars =>
        [Outcome!Next]_<<published, [t \in Tx |-> client[t].told]>>
  <2> SUFFICES ASSUME ClientType, ClientType', StoreType, Protocol, [Next]_vars
               PROVE  [Outcome!Next]_<<published, [t \in Tx |-> client[t].told]>>
    BY DEF Inv, StoreInv
  <2>1. CASE ClientNext
    BY <2>1, ClientStepped, OutcomeStep
  <2>2. CASE LeaseNext \/ StoreNext \/ UNCHANGED vars
    BY <2>2, OthersFollow
  <2> QED
    BY <2>1, <2>2 DEF Next
<1> QED
  BY <1>1, Invariance, ProtocolKept, OutcomeInit, PTL DEF Spec, OutcomeHolds, Outcome!Spec
--------------------------------------------------------------------------------
(***************************************************************************)
(* A transaction reads at what its record pins.  While its object takes    *)
(* itself for the owner of an active record, the record is as the object   *)
(* knows it, but for renewals and for an artifact whose journaling was not *)
(* answered, or it lapsed by the object's own copy of the expiry.  Nothing *)
(* but such an artifact is on its way then.                                *)
(***************************************************************************)
Owning(c) ==
    /\ c.persisted /\ c.status = "active"
    /\ \/ c.pc \in {"open", "stage", "stageRead", "rebaseRead", "rebase", "commit", "write"}
       \/ c.pc \in {"renew", "renewRead"} /\ c.goal # "abort"
       \/ c.pc = "recover" /\ c.err # "unknown"

Match(c, L, r, time) ==
    /\ \A q \in L : q.op = "stage"
    /\ IF Open(r)
       THEN r.snapshot = c.snapshot /\ (c.journaled => r.journaled) /\ c.expires <= r.expires
       ELSE c.expires <= time

Together(c, L, r, time) ==
    /\ ~c.persisted => ~c.journaled
    /\ c.pc = "move" => ~c.persisted
    /\ c.pc = "createRead" => \A q \in L : q.op = "create"
    /\ Owning(c) => Match(c, L, r, time)

TogetherFor(t) == Together(client[t], late[t], transactions[t], now)

Ownership == \A t \in Tx : TogetherFor(t)

(* An object that is past owning, or has not come to it. *)
LEMMA ApartTogether ==
  ASSUME NEW d, NEW L, NEW r, NEW n, ~d.persisted => ~d.journaled, d.pc # "createRead",
         \/ ~d.persisted
         \/ d.pc \in {"done", "abort", "abortRead", "settle", "settleRead"}
         \/ d.pc \in {"renew", "renewRead"} /\ d.goal = "abort"
         \/ d.pc = "recover" /\ d.err = "unknown"
  PROVE  Together(d, L, r, n)
  BY DEF Together, Owning

(* The match is of these fields. *)
LEMMA MatchOn ==
  ASSUME NEW c, NEW d, NEW L, NEW r, NEW n, Match(c, L, r, n),
         d.snapshot = c.snapshot, d.journaled = c.journaled, d.expires = c.expires
  PROVE  Match(d, L, r, n)
  BY DEF Match

(* The write ends. *)
LEMMA EndedTogether ==
  ASSUME NEW answer, NEW settled, NEW L, NEW r, NEW n
  PROVE  Together(Ended(answer, settled), L, r, n)
<1> DEFINE e == Ended(answer, settled)
<1>1. e.pc = "done" /\ e.persisted = FALSE /\ e.journaled = FALSE
  BY DEF Ended, NewClient
<1> HIDE DEF e
<1>2. Together(e, L, r, n)
  BY <1>1, ApartTogether
<1> QED
  BY <1>2 DEF e

(* It ends with or without an error of abort(). *)
LEMMA FinishedTogether ==
  ASSUME NEW c, NEW err, NEW L, NEW r, NEW n
  PROVE  Together(Finished(c, err), L, r, n) /\ Together(Settled(c), L, r, n)
  BY EndedTogether DEF Finished, Settled

(* It goes on to a call. *)
LEMMA TowardTogether ==
  ASSUME NEW t \in Tx, NEW c \in Client, NEW goal \in Calls, NEW L, NEW r, NEW n,
         ~c.persisted => ~c.journaled,
         c.persisted /\ c.status = "active" /\ goal # "abort" => Match(c, L, r, n)
  PROVE  Together(Toward(t, c, goal), L, r, n)
<1> DEFINE g == Toward(t, c, goal)
<1>1. /\ g.goal = goal /\ g.pc \in {goal, "renew"} /\ g.persisted = c.persisted /\ g.status = c.status
  BY TowardFields
<1>2. g.snapshot = c.snapshot /\ g.expires = c.expires /\ g.journaled = c.journaled
  <2> DEFINE d == [c EXCEPT !.goal = goal]
  <2>1. d \in Client /\ d.snapshot = c.snapshot /\ d.expires = c.expires /\ d.journaled = c.journaled
    BY DEF Client
  <2> HIDE DEF d
  <2>2. g = Proceed(d) \/ g = [d EXCEPT !.pc = "renew"]
    BY DEF Toward, d
  <2> QED
    BY <2>1, <2>2 DEF Proceed, Client
<1>3. g.pc # "createRead" /\ g.pc # "move"
  BY <1>1 DEF Calls
<1> HIDE DEF g
<1>4. Owning(g) => c.persisted /\ c.status = "active" /\ goal # "abort"
  BY <1>1 DEF Owning
<1>5. Together(g, L, r, n)
  BY <1>1, <1>2, <1>3, <1>4, MatchOn DEF Together
<1> QED
  BY <1>5 DEF g

(* It fails and aborts. *)
LEMMA FailedTogether ==
  ASSUME NEW t \in Tx, NEW c \in Client, NEW err \in Errors, NEW L, NEW r, NEW n,
         ~c.persisted => ~c.journaled
  PROVE  Together(Failed(t, c, err), L, r, n)
<1> DEFINE e == [c EXCEPT !.err = err]
<1>1. e \in Client /\ e.persisted = c.persisted /\ e.journaled = c.journaled
  BY DEF Client, Errors
<1>2. Failed(t, c, err) = Toward(t, e, "abort") \/ Failed(t, c, err) = Settled(e)
  BY Zenon DEF Failed
<1> HIDE DEF e
<1>3. "abort" \in Calls
  BY DEF Calls
<1> QED
  BY <1>1, <1>2, <1>3, TowardTogether, FinishedTogether

(* What a request leaves in the fields that are matched. *)
LEMMA ExecuteFields ==
  ASSUME StoreType, NEW t \in Tx, NEW q \in Request, Execute(t, q)
  PROVE  LET r == transactions[t]
             s == transactions'[t] IN
         /\ UNCHANGED now
         /\ q.op = "create" => s.snapshot = q.version /\ s.expires = q.expires
         /\ q.op = "stage" => s.snapshot = r.snapshot /\ s.expires = r.expires /\ s.journaled
         /\ q.op = "rebase" => s.snapshot = q.version /\ s.expires = r.expires /\ s.journaled = r.journaled
<1> DEFINE r == transactions[t]
           s == transactions'[t]
<1>1. transactions \in [Tx -> Record \cup {NoRecord}]
  BY DEF StoreType
<1>2. CASE CreateTransaction(t, q)
  <2>1. s = NewRecord(q.version, q.expires) /\ q.op = "create" /\ UNCHANGED now
    BY <1>1, <1>2 DEF CreateTransaction, CreateAccepts, SetTransaction
  <2>2. s.snapshot = q.version /\ s.expires = q.expires
    BY <2>1 DEF NewRecord
  <2> QED
    BY <2>1, <2>2
<1>3. CASE StageTransactionArtifacts(t, q)
  <2>1. r \in Record /\ q.op = "stage" /\ UNCHANGED now
    BY <1>3, PresentRecord DEF StageTransactionArtifacts, StageAccepts, AtRevision, Has
  <2>2. s = [r EXCEPT !.journaled = TRUE, !.revision = @ + 1]
    BY <1>1, <1>3, <2>1 DEF StageTransactionArtifacts
  <2>3. s.snapshot = r.snapshot /\ s.expires = r.expires /\ s.journaled = TRUE
    BY <2>1, <2>2 DEF Record
  <2> QED
    BY <2>1, <2>3
<1>4. CASE RebaseTransaction(t, q)
  <2>1. r \in Record /\ q.op = "rebase" /\ UNCHANGED now
    BY <1>4, PresentRecord DEF RebaseTransaction, RebaseAccepts, AtRevision, Has, SetTransaction
  <2>2. s = [r EXCEPT !.snapshot = q.version, !.revision = @ + 1]
    BY <1>1, <1>4, <2>1 DEF RebaseTransaction, SetTransaction
  <2>3. s.snapshot = q.version /\ s.expires = r.expires /\ s.journaled = r.journaled
    BY <2>1, <2>2 DEF Record
  <2> QED
    BY <2>1, <2>3
<1>5. CASE AbortTransaction(t, q) \/ CommitTransaction(t, q) \/ WriteTransaction(t, q)
  <2>1. q.op \notin {"create", "stage", "rebase"} /\ UNCHANGED now
    BY <1>5 DEF AbortTransaction, AbortAccepts, SetTransaction, CommitTransaction, CommitAccepts,
                WriteTransaction, BegunAccepts, WriteAccepts, ApplyCommit
  <2> QED
    BY <2>1
<1> QED
  BY <1>2, <1>3, <1>4, <1>5 DEF Execute

Own(t) == Live(t) /\ TogetherFor(t)

GoesOn(t) == \E d \in Client : Become(t, d) /\ Together(d, late'[t], transactions'[t], now)

(* What there is to know of the object of a running write. *)
LEMMA OwnFacts ==
  ASSUME NEW t \in Tx, Own(t)
  PROVE  LET c == client[t] IN
         /\ c \in Client /\ c.err \in Errors /\ c.goal \in Calls
         /\ ~c.persisted => ~c.journaled
         /\ c.pc = "move" => ~c.persisted
         /\ c.pc = "createRead" => \A q \in late[t] : q.op = "create"
         /\ Owning(c) => Match(c, late[t], transactions[t], now)
         /\ Running(c, late[t], t \in published, transactions[t])
         /\ Steady(c, late[t], t \in published, transactions[t])
  BY LiveFacts DEF Own, TogetherFor, Together

(* The steps before there is a record. *)
LEMMA EarlyTogether ==
  ASSUME NEW t \in Tx, Own(t), ProbeDeferred(t) \/ PinDeferred(t)
  PROVE  GoesOn(t)
<1> DEFINE c == client[t]
<1>1. c \in Client /\ ~c.persisted /\ ~c.journaled
  BY OwnFacts DEF ProbeDeferred, PinDeferred, At, Running
<1>2. CASE ProbeDeferred(t)
  <2>1. PICK pc \in {"probed", "open"} :
            Become(t, [c EXCEPT !.pc = pc, !.snapshot = currentVersion, !.expires = now + TTL])
    BY <1>2 DEF ProbeDeferred
  <2> DEFINE d == [c EXCEPT !.pc = pc, !.snapshot = currentVersion, !.expires = now + TTL]
  <2>2. pc \in PC /\ currentVersion \in Versions /\ now + TTL \in Times
    BY Deadline DEF PC, Own, Live, StoreType
  <2>3. d \in Client /\ d.pc = pc /\ d.persisted = c.persisted /\ d.journaled = c.journaled
    BY <1>1, <2>2, Zenon DEF Client
  <2> HIDE DEF d
  <2>4. Together(d, late'[t], transactions'[t], now)
    BY <1>1, <2>3, ApartTogether
  <2> QED
    BY <2>1, <2>3, <2>4 DEF GoesOn, d
<1>3. CASE PinDeferred(t)
  <2>1. PICK pc \in {"idle", "open"} : Become(t, [c EXCEPT !.pc = pc])
    BY <1>3 DEF PinDeferred, Goto
  <2> DEFINE d == [c EXCEPT !.pc = pc]
  <2>2. d \in Client /\ d.pc = pc /\ d.persisted = c.persisted /\ d.journaled = c.journaled
    BY <1>1 DEF Client, PC
  <2> HIDE DEF d
  <2>3. Together(d, late'[t], transactions'[t], now)
    BY <1>1, <2>2, ApartTogether
  <2> QED
    BY <2>1, <2>2, <2>3 DEF GoesOn, d
<1> QED
  BY <1>2, <1>3

(* It asks for its artifact, its commit, or gives up. *)
LEMMA AskTogether ==
  ASSUME NEW t \in Tx, Own(t), Stage(t) \/ Commit(t) \/ GiveUp(t)
  PROVE  GoesOn(t)
<1> DEFINE c == client[t]
           L == late[t]
           r == transactions[t]
<1>1. /\ c \in Client /\ c.pc = "open" /\ (~c.persisted => ~c.journaled)
      /\ c.persisted /\ c.status = "active" => Match(c, L, r, now)
  BY OwnFacts DEF Stage, Commit, GiveUp, At, Owning
<1>2. late'[t] = L /\ transactions'[t] = r
  BY DEF Stage, Commit, GiveUp, coreVars
<1>3. ASSUME NEW goal \in Calls, Become(t, Toward(t, c, goal))
      PROVE  GoesOn(t)
  <2>1. Together(Toward(t, c, goal), L, r, now) /\ Toward(t, c, goal) \in Client
    BY <1>1, TowardTogether, TowardType
  <2> QED
    BY <1>2, <1>3, <2>1 DEF GoesOn
<1>4. CASE Stage(t) /\ c.persisted
  <2>1. "stage" \in Calls
    BY DEF Calls
  <2> QED
    BY <1>3, <1>4, <2>1 DEF Stage
<1>5. CASE Stage(t) /\ ~c.persisted
  <2> DEFINE d == [c EXCEPT !.pc = "create", !.expires = now + TTL]
  <2>1. now + TTL \in Times /\ "create" \in PC
    BY Deadline DEF Own, Live, StoreType, PC, Calls
  <2>2. Become(t, d) /\ d \in Client /\ d.pc = "create" /\ d.persisted = c.persisted /\ d.journaled = c.journaled
    <3>1. Become(t, d)
      BY <1>5 DEF Stage
    <3>2. d \in Client /\ d.pc = "create" /\ d.persisted = c.persisted /\ d.journaled = c.journaled
      BY <1>1, <2>1, Zenon DEF Client
    <3> QED
      BY <3>1, <3>2
  <2> HIDE DEF d
  <2>3. Together(d, late'[t], transactions'[t], now)
    BY <1>1, <1>5, <2>2, ApartTogether
  <2> QED
    BY <2>2, <2>3 DEF GoesOn
<1>6. CASE Commit(t)
  BY <1>3, <1>6, GoalType DEF Commit
<1>7. CASE GiveUp(t)
  <2>1. Together(Failed(t, c, "refused"), L, r, now) /\ Failed(t, c, "refused") \in Client
    BY <1>1, FailedTogether, FailedType DEF Errors
  <2> QED
    BY <1>2, <1>7, <2>1 DEF GoesOn, GiveUp
<1> QED
  BY <1>4, <1>5, <1>6, <1>7

(* The object takes over the record it read. *)
LEMMA AdoptedMatch ==
  ASSUME NEW t \in Tx, Own(t), transactions[t] # NoRecord
  PROVE  LET d == Adopted(t) IN
         /\ d \in Client /\ d.persisted /\ d.status = transactions[t].status
         /\ d.pc = client[t].pc /\ d.goal = client[t].goal /\ d.err = client[t].err
         /\ d.snapshot = transactions[t].snapshot /\ d.expires = transactions[t].expires
         /\ d.journaled = transactions[t].journaled
         /\ Open(transactions[t]) /\ (\A q \in late[t] : q.op = "stage") =>
               Match(d, late[t], transactions[t], now)
<1> DEFINE d == Adopted(t)
           r == transactions[t]
<1>1. r \in Record /\ client[t] \in Client
  BY PresentRecord, OwnFacts DEF Own, Live
<1>2. d \in Client
  BY <1>1, AdoptedType DEF Own, Live
<1>3. /\ d.persisted /\ d.status = r.status
      /\ d.pc = client[t].pc /\ d.goal = client[t].goal /\ d.err = client[t].err
      /\ d.snapshot = r.snapshot /\ d.expires = r.expires /\ d.journaled = r.journaled
  BY <1>1 DEF Adopted, Client
<1>4. r.expires \in Nat
  BY <1>1, Constants DEF Record, Times
<1> HIDE DEF d
<1>5. Open(r) /\ (\A q \in late[t] : q.op = "stage") => Match(d, late[t], r, now)
  BY <1>3, <1>4 DEF Match
<1> QED
  BY <1>2, <1>3, <1>5 DEF d

(* Ownership was lost. *)
LEMMA RenewReadTogether ==
  ASSUME NEW t \in Tx, Own(t), RenewRead(t)
  PROVE  GoesOn(t)
<1> DEFINE c == IF transactions[t] = NoRecord THEN client[t] ELSE Adopted(t)
           d == [c EXCEPT !.pc = "settle"]
<1>1. c \in Client /\ (~c.persisted => ~c.journaled)
  BY OwnFacts, AdoptedMatch
<1> HIDE DEF c
<1>2. d \in Client /\ d.pc = "settle" /\ d.persisted = c.persisted /\ d.journaled = c.journaled
  BY <1>1 DEF Client, PC
<1>3. Become(t, Failed(t, c, "refused")) \/ Become(t, Settled(c)) \/ Become(t, d)
  BY Zenon DEF RenewRead, c
<1> HIDE DEF d
<1>4. Together(d, late'[t], transactions'[t], now)
  BY <1>1, <1>2, ApartTogether
<1>5. Together(Failed(t, c, "refused"), late'[t], transactions'[t], now) /\ Failed(t, c, "refused") \in Client
  BY <1>1, FailedTogether, FailedType DEF Errors
<1>6. Together(Settled(c), late'[t], transactions'[t], now) /\ Settled(c) \in Client
  BY <1>1, FinishedTogether, SettledType
<1> QED
  BY <1>2, <1>3, <1>4, <1>5, <1>6 DEF GoesOn

(* The steps that end the write or are part of its abort. *)
LEMMA EndTogether ==
  ASSUME NEW t \in Tx, Own(t),
         \/ SettleLostBegin(t) \/ RenewFails(t) \/ AbortRead(t) \/ SettleLapsedAbort(t) \/ SettleRead(t)
  PROVE  GoesOn(t)
<1> DEFINE c == client[t]
           d == [c EXCEPT !.pc = "settleRead"]
<1>1. c \in Client /\ (~c.persisted => ~c.journaled)
  BY OwnFacts
<1>2. d \in Client /\ d.pc = "settleRead" /\ d.persisted = c.persisted /\ d.journaled = c.journaled
  BY <1>1 DEF Client, PC
<1>3. \/ Become(t, Settled(c)) \/ Become(t, d)
      \/ \E err : Become(t, Finished(c, err))
      \/ \E err \in {"unknown", "refused"} : Become(t, Failed(t, c, err))
  BY Zenon DEF SettleLostBegin, RenewFails, AbortRead, SettleLapsedAbort, SettleRead, Goto
<1> HIDE DEF d
<1>4. Together(d, late'[t], transactions'[t], now)
  BY <1>1, <1>2, ApartTogether
<1>5. ASSUME NEW err \in {"unknown", "refused"}
      PROVE  Together(Failed(t, c, err), late'[t], transactions'[t], now) /\ Failed(t, c, err) \in Client
  BY <1>1, FailedTogether, FailedType DEF Errors
<1>6. Together(Settled(c), late'[t], transactions'[t], now) /\ Settled(c) \in Client
  BY <1>1, FinishedTogether, SettledType
<1>7. ASSUME NEW err
      PROVE  Together(Finished(c, err), late'[t], transactions'[t], now) /\ Finished(c, err) \in Client
  BY FinishedTogether, FinishedType
<1> QED
  BY <1>2, <1>3, <1>4, <1>5, <1>6, <1>7 DEF GoesOn

(* The record after a renewal. *)
LEMMA RenewFields ==
  ASSUME StoreType, NEW t \in Tx, RenewTransaction(t)
  PROVE  LET r == transactions[t]
             s == transactions'[t] IN
         /\ Open(r) /\ Open(s) /\ s.snapshot = r.snapshot /\ s.journaled = r.journaled
         /\ s.expires = now + TTL /\ now + TTL \in Nat /\ now + TTL \in Times
<1> DEFINE r == transactions[t]
           s == transactions'[t]
<1>1. r \in Record /\ Open(r) /\ transactions \in [Tx -> Record \cup {NoRecord}]
  BY PresentRecord DEF RenewTransaction, Owned, Has, Open, StoreType
<1>2. s = [r EXCEPT !.expires = now + TTL]
  BY <1>1 DEF RenewTransaction, SetTransaction
<1>3. now + TTL \in Times /\ now + TTL \in Nat
  BY Deadline, Constants DEF StoreType, Times
<1>4. s \in Record /\ s.status = r.status /\ s.snapshot = r.snapshot /\ s.journaled = r.journaled
      /\ s.expires = now + TTL
  BY <1>1, <1>2, <1>3 DEF Record
<1> QED
  BY <1>1, <1>3, <1>4, AbsenceAssumption DEF Open

(* A renewed object matches the renewed record. *)
LEMMA RenewedMatch ==
  ASSUME StoreType, NEW t \in Tx, RenewTransaction(t), NEW c, NEW d, NEW L,
         Match(c, L, transactions[t], now), d.snapshot = c.snapshot, d.journaled = c.journaled,
         d.expires = now + TTL
  PROVE  Match(d, L, transactions'[t], now)
  BY RenewFields DEF Match

(* Ownership is renewed on the way to a call. *)
LEMMA RenewOwnershipTogether ==
  ASSUME NEW t \in Tx, Own(t), RenewOwnership(t)
  PROVE  GoesOn(t)
<1> DEFINE c == client[t]
           L == late[t]
           r == transactions[t]
           b == [c EXCEPT !.expires = now + TTL]
           e == [c EXCEPT !.pc = "renewRead"]
<1>1. /\ c \in Client /\ c.pc = "renew" /\ c.goal \in Calls /\ (~c.persisted => ~c.journaled)
      /\ c.persisted /\ c.status = "active" /\ c.goal # "abort" => Match(c, L, r, now)
  BY OwnFacts DEF RenewOwnership, At, Owning
<1>2. late'[t] = L
  BY DEF RenewOwnership
<1>3. ASSUME NEW a \in Client, a.persisted = c.persisted, a.status = c.status, a.goal = c.goal,
             a.journaled = c.journaled, Become(t, Proceed(a)),
             c.persisted /\ c.status = "active" /\ c.goal # "abort" => Match(a, L, transactions'[t], now)
      PROVE  GoesOn(t)
  <2> DEFINE d == Proceed(a)
  <2>1. /\ d \in Client /\ d.pc = a.goal /\ d.persisted = a.persisted /\ d.status = a.status
        /\ d.journaled = a.journaled /\ d.snapshot = a.snapshot /\ d.expires = a.expires
    BY ProceedType, ZenonT(30) DEF Proceed, Client
  <2> HIDE DEF d
  <2>2. d.pc # "createRead" /\ d.pc # "move" /\ (Owning(d) => c.persisted /\ c.status = "active" /\ c.goal # "abort")
    BY <1>1, <1>3, <2>1 DEF Owning, Calls
  <2>3. Together(d, L, transactions'[t], now)
    BY <1>1, <1>3, <2>1, <2>2, MatchOn DEF Together
  <2> QED
    BY <1>2, <1>3, <2>1, <2>3 DEF GoesOn, d
<1>4. CASE Become(t, Proceed(c)) /\ UNCHANGED coreVars
  <2>1. transactions'[t] = r
    BY <1>4 DEF coreVars
  <2> QED
    BY <1>1, <1>3, <1>4, <2>1
<1>5. CASE RenewTransaction(t) /\ Become(t, Proceed(b))
  <2>1. StoreType /\ now + TTL \in Times
    BY <1>5, RenewFields DEF Own, Live
  <2>2. /\ b \in Client /\ b.persisted = c.persisted /\ b.status = c.status /\ b.goal = c.goal
        /\ b.journaled = c.journaled /\ b.snapshot = c.snapshot /\ b.expires = now + TTL
    BY <1>1, <2>1, Zenon DEF Client
  <2> HIDE DEF b
  <2>3. c.persisted /\ c.status = "active" /\ c.goal # "abort" => Match(b, L, transactions'[t], now)
    BY <1>1, <1>5, <2>1, <2>2, RenewedMatch
  <2> QED
    BY <1>3, <1>5, <2>2, <2>3
<1>6. CASE Become(t, e) /\ UNCHANGED coreVars
  <2>1. transactions'[t] = r
    BY <1>6 DEF coreVars
  <2>2. /\ e \in Client /\ e.pc = "renewRead" /\ e.persisted = c.persisted /\ e.status = c.status
        /\ e.goal = c.goal /\ e.journaled = c.journaled /\ e.snapshot = c.snapshot /\ e.expires = c.expires
    BY <1>1 DEF Client, PC
  <2> HIDE DEF e
  <2>3. Together(e, L, r, now)
    BY <1>1, <2>2, MatchOn DEF Together, Owning
  <2> QED
    BY <1>2, <1>6, <2>1, <2>2, <2>3 DEF GoesOn
<1> QED
  BY <1>4, <1>5, <1>6 DEF RenewOwnership, Goto

(* The heartbeat renews, or adopts what became of a record that lapsed. *)
LEMMA HeartbeatTogether ==
  ASSUME NEW t \in Tx, Own(t), Heartbeat(t)
  PROVE  GoesOn(t)
<1> DEFINE c == client[t]
           L == late[t]
           r == transactions[t]
           b == [c EXCEPT !.expires = now + TTL]
           d == Adopted(t)
<1>1. /\ c \in Client /\ c.persisted /\ c.status = "active"
      /\ Owning(c) => Match(c, L, r, now)
      /\ c.pc # "createRead" /\ c.pc # "move"
  BY OwnFacts DEF Heartbeat, Running
<1>2. late'[t] = L
  BY DEF Heartbeat
<1>3. CASE RenewTransaction(t) /\ Become(t, b)
  <2>1. StoreType /\ now + TTL \in Times
    BY <1>3, RenewFields DEF Own, Live
  <2>2. /\ b \in Client /\ b.pc = c.pc /\ b.persisted = c.persisted /\ b.status = c.status /\ b.goal = c.goal
        /\ b.err = c.err /\ b.journaled = c.journaled /\ b.snapshot = c.snapshot /\ b.expires = now + TTL
    BY <1>1, <2>1, Zenon DEF Client
  <2> HIDE DEF b
  <2>3. Owning(b) => Owning(c)
    BY <2>2 DEF Owning
  <2>4. Owning(b) => Match(b, L, transactions'[t], now)
    BY <1>1, <1>3, <2>1, <2>2, <2>3, RenewedMatch
  <2>5. Together(b, L, transactions'[t], now)
    BY <1>1, <2>2, <2>4 DEF Together
  <2> QED
    BY <1>2, <1>3, <2>2, <2>5 DEF GoesOn
<1>4. CASE ~Owned(t) /\ r # NoRecord /\ Become(t, d) /\ UNCHANGED coreVars
  <2>1. transactions'[t] = r
    BY <1>4 DEF coreVars
  <2>2. /\ d \in Client /\ d.persisted /\ d.status = r.status /\ d.pc = c.pc /\ d.goal = c.goal
        /\ d.err = c.err
        /\ Open(r) /\ (\A q \in L : q.op = "stage") => Match(d, L, r, now)
    BY <1>4, AdoptedMatch
  <2> HIDE DEF d
  <2>3. Owning(d) => Owning(c) /\ Open(r)
    BY <1>1, <1>4, <2>2 DEF Owning, Open
  <2>4. Owning(d) => \A q \in L : q.op = "stage"
    BY <1>1, <2>3 DEF Match
  <2>5. Together(d, L, r, now)
    BY <1>1, <2>2, <2>3, <2>4 DEF Together
  <2> QED
    BY <1>2, <1>4, <2>1, <2>2, <2>5 DEF GoesOn
<1> QED
  BY <1>3, <1>4 DEF Heartbeat

(* The reads that find whether a record or its artifact is there. *)
LEMMA ReadBackTogether ==
  ASSUME NEW t \in Tx, Own(t), CreateRead(t) \/ StageRead(t)
  PROVE  GoesOn(t)
<1> DEFINE c == client[t]
           L == late[t]
           r == transactions[t]
<1>1. c \in Client /\ c.err \in Errors /\ (~c.persisted => ~c.journaled)
  BY OwnFacts
<1>2. late'[t] = L /\ transactions'[t] = r
  BY DEF CreateRead, StageRead, coreVars
<1>3. ASSUME NEW d \in Client, ~d.persisted => ~d.journaled, Become(t, Failed(t, d, c.err))
      PROVE  GoesOn(t)
  <2>1. Together(Failed(t, d, c.err), L, r, now) /\ Failed(t, d, c.err) \in Client
    BY <1>1, <1>3, FailedTogether, FailedType
  <2> QED
    BY <1>2, <1>3, <2>1 DEF GoesOn
<1>4. r # NoRecord => Adopted(t) \in Client /\ Adopted(t).persisted
  BY AdoptedMatch
<1>5. CASE Become(t, Failed(t, c, c.err)) \/ (r # NoRecord /\ Become(t, Failed(t, Adopted(t), c.err)))
  BY <1>1, <1>3, <1>4, <1>5
<1>6. CASE CreateRead(t) /\ Open(r) /\ Become(t, Toward(t, [Adopted(t) EXCEPT !.err = "none"], "stage"))
  <2> DEFINE a == Adopted(t)
             d == [a EXCEPT !.err = "none"]
  <2>1. \A q \in L : q.op = "create"
    BY <1>6, OwnFacts DEF CreateRead, At
  <2>2. L = {}
    BY <1>6, <2>1, OwnFacts DEF Steady, Open
  <2>3. a \in Client /\ a.persisted /\ Match(a, L, r, now)
    BY <1>6, <2>2, AdoptedMatch DEF Open
  <2> HIDE DEF a
  <2>4. /\ d \in Client /\ d.persisted = a.persisted /\ d.snapshot = a.snapshot
        /\ d.journaled = a.journaled /\ d.expires = a.expires
    BY <2>3 DEF Client
  <2> HIDE DEF d
  <2>5. Match(d, L, r, now)
    BY <2>3, <2>4, MatchOn
  <2>6. "stage" \in Calls
    BY DEF Calls
  <2>7. Together(Toward(t, d, "stage"), L, r, now) /\ Toward(t, d, "stage") \in Client
    BY <2>3, <2>4, <2>5, <2>6, TowardTogether, TowardType
  <2> QED
    BY <1>2, <1>6, <2>7 DEF GoesOn, d, a
<1>7. CASE StageRead(t) /\ Open(r) /\ Become(t, [Adopted(t) EXCEPT !.pc = "open", !.err = "none"])
  <2> DEFINE a == Adopted(t)
             d == [a EXCEPT !.pc = "open", !.err = "none"]
  <2>1. /\ a \in Client /\ a.persisted
        /\ (\A q \in L : q.op = "stage") => Match(a, L, r, now)
    BY <1>7, AdoptedMatch DEF Open
  <2>2. \A q \in L : q.op = "stage"
    <3>1. c.pc = "stageRead" /\ c.persisted
      BY <1>7, OwnFacts DEF StageRead, At, Running
    <3>2. c.status = "active"
      BY <1>7, <3>1, OwnFacts DEF Steady
    <3> QED
      BY <3>1, <3>2, OwnFacts DEF Owning, Match
  <2> HIDE DEF a
  <2>3. /\ d \in Client /\ d.pc = "open" /\ d.persisted = a.persisted /\ d.snapshot = a.snapshot
        /\ d.journaled = a.journaled /\ d.expires = a.expires
    BY <2>1 DEF Client, PC
  <2> HIDE DEF d
  <2>4. Match(d, L, r, now)
    BY <2>1, <2>2, <2>3, MatchOn
  <2>5. Together(d, L, r, now)
    BY <2>1, <2>3, <2>4 DEF Together
  <2> QED
    BY <1>2, <1>7, <2>3, <2>5 DEF GoesOn, d, a
<1> QED
  BY <1>5, <1>6, <1>7 DEF CreateRead, StageRead, AtRevision, Has, Open

(* What the object of a write that waits knows of its record. *)
LEMMA WaitingMatch ==
  ASSUME NEW t \in Tx, Own(t), client[t].pc \in {"stage", "commit", "write", "rebase", "recover", "rebaseRead"},
         client[t].persisted, client[t].status = "active", client[t].pc = "recover" => client[t].err # "unknown"
  PROVE  Match(client[t], late[t], transactions[t], now)
  BY OwnFacts DEF Owning

(* A call is refused. *)
LEMMA RefusedTogether ==
  ASSUME NEW t \in Tx, Own(t), Refused(t)
  PROVE  GoesOn(t)
<1> DEFINE c == client[t]
           L == late[t]
           r == transactions[t]
           a == [c EXCEPT !.pc = "abortRead"]
           err == Refusal(t)
           e == [c EXCEPT !.err = err]
<1>1. /\ c \in Client /\ (~c.persisted => ~c.journaled)
      /\ c.pc \in {"create", "stage", "commit", "write", "abort", "rebase"}
      /\ c.pc = "create" => L = {} /\ ~c.persisted
  BY OwnFacts DEF Refused, Waits, Calls, Running
<1>2. late'[t] = L /\ transactions'[t] = r
  BY DEF Refused, coreVars
<1>3. err \in {"conflict", "refused"} /\ err \in Errors
  BY DEF Refusal, Errors
<1>4. CASE Become(t, a)
  <2>1. a \in Client /\ a.pc = "abortRead" /\ a.persisted = c.persisted /\ a.journaled = c.journaled
    BY <1>1 DEF Client, PC
  <2> HIDE DEF a
  <2>2. Together(a, L, r, now)
    BY <1>1, <2>1, ApartTogether
  <2> QED
    BY <1>2, <1>4, <2>1, <2>2 DEF GoesOn
<1> HIDE DEF err
<1>5. /\ e \in Client /\ e.pc = c.pc /\ e.err = err /\ e.persisted = c.persisted /\ e.status = c.status
      /\ e.journaled = c.journaled /\ e.snapshot = c.snapshot /\ e.expires = c.expires
  BY <1>1, <1>3 DEF Client, Errors
<1>6. CASE c.pc # "abort" /\ Become(t, Recovering(t, err))
  <2>1. \/ Become(t, Failed(t, e, err))
        \/ c.pc = "create" /\ Become(t, [e EXCEPT !.pc = "createRead"])
        \/ c.pc = "stage" /\ Become(t, [e EXCEPT !.pc = "stageRead"])
        \/ c.pc = "rebase" /\ Become(t, [e EXCEPT !.pc = "rebaseRead"])
        \/ c.pc \in {"commit", "write"} /\ Become(t, [e EXCEPT !.pc = "recover", !.reads = 0])
    BY <1>1, <1>5, <1>6 DEF Recovering
  <2> HIDE DEF e
  <2>2. CASE Become(t, Failed(t, e, err))
    <3>1. Together(Failed(t, e, err), L, r, now) /\ Failed(t, e, err) \in Client
      BY <1>1, <1>3, <1>5, FailedTogether, FailedType
    <3> QED
      BY <1>2, <2>2, <3>1 DEF GoesOn
  <2>3. ASSUME NEW d \in Client, Become(t, d), d.err = e.err, d.persisted = e.persisted, d.status = e.status,
               d.journaled = e.journaled, d.snapshot = e.snapshot, d.expires = e.expires,
               \/ d.pc = "createRead" /\ c.pc = "create"
               \/ d.pc \in {"stageRead", "rebaseRead", "recover"} /\ c.pc \in {"stage", "rebase", "commit", "write"}
        PROVE  GoesOn(t)
    <3>1. Owning(d) => /\ c.persisted /\ c.status = "active"
                       /\ c.pc \in {"stage", "rebase", "commit", "write"}
      BY <1>5, <2>3 DEF Owning
    <3>2. Owning(d) => Match(c, L, r, now)
      BY <3>1, WaitingMatch
    <3>3. Together(d, L, r, now)
      BY <1>1, <1>5, <2>3, <3>2, MatchOn DEF Together
    <3> QED
      BY <1>2, <2>3, <3>3 DEF GoesOn
  <2>4. ASSUME NEW pc \in {"createRead", "stageRead", "rebaseRead"}
        PROVE  LET d == [e EXCEPT !.pc = pc] IN
               /\ d \in Client /\ d.pc = pc /\ d.err = e.err /\ d.persisted = e.persisted
               /\ d.status = e.status
               /\ d.journaled = e.journaled /\ d.snapshot = e.snapshot /\ d.expires = e.expires
    BY <1>5 DEF Client, PC
  <2>5. LET d == [e EXCEPT !.pc = "recover", !.reads = 0] IN
        /\ d \in Client /\ d.pc = "recover" /\ d.err = e.err /\ d.persisted = e.persisted
        /\ d.status = e.status
        /\ d.journaled = e.journaled /\ d.snapshot = e.snapshot /\ d.expires = e.expires
    BY <1>5, Constants DEF Client, PC
  <2> QED
    BY <2>1, <2>2, <2>3, <2>4, <2>5
<1> QED
  BY <1>4, <1>6 DEF Refused, At, err

(* The commit is recovered, or its error thrown. *)
LEMMA RecoverTogether ==
  ASSUME NEW t \in Tx, Own(t), RecoverCommitted(t)
  PROVE  GoesOn(t)
<1> DEFINE c == client[t]
           L == late[t]
           r == transactions[t]
           again == [c EXCEPT !.reads = @ + 1]
           rebase == [c EXCEPT !.pc = "rebaseRead", !.retries = @ + 1, !.err = "none"]
<1>1. c \in Client /\ c.pc = "recover" /\ c.err \in Errors /\ (~c.persisted => ~c.journaled)
  BY OwnFacts DEF RecoverCommitted, At
<1>2. late'[t] = L /\ transactions'[t] = r
  BY DEF RecoverCommitted, coreVars
<1>3. CASE Become(t, Ended("committed", FALSE))
  <2>1. Ended("committed", FALSE) \in Client
    BY EndedType DEF Answers
  <2> QED
    BY <1>3, <2>1, EndedTogether DEF GoesOn
<1>4. CASE Become(t, Failed(t, c, c.err))
  BY <1>1, <1>4, FailedTogether, FailedType DEF GoesOn
<1>5. ASSUME NEW d \in Client, Become(t, d), d.persisted = c.persisted, d.status = c.status,
             d.journaled = c.journaled, d.snapshot = c.snapshot, d.expires = c.expires,
             \/ d.pc = "recover" /\ d.err = c.err
             \/ d.pc = "rebaseRead" /\ c.err # "unknown"
      PROVE  GoesOn(t)
  <2>1. Owning(d) => Match(c, L, r, now)
    BY <1>1, <1>5, WaitingMatch DEF Owning
  <2>2. Together(d, L, r, now)
    BY <1>1, <1>5, <2>1, MatchOn DEF Together
  <2> QED
    BY <1>2, <1>5, <2>2 DEF GoesOn
<1>6. CASE c.reads + 1 < RecoveryReads /\ Become(t, again)
  <2>1. c.reads + 1 \in 0 .. RecoveryReads
    BY <1>1, <1>6, Constants DEF Client
  <2>2. /\ again \in Client /\ again.pc = c.pc /\ again.err = c.err /\ again.persisted = c.persisted
        /\ again.status = c.status /\ again.journaled = c.journaled /\ again.snapshot = c.snapshot
        /\ again.expires = c.expires
    BY <1>1, <2>1, Zenon DEF Client
  <2> HIDE DEF again
  <2> QED
    BY <1>1, <1>5, <1>6, <2>2
<1>7. CASE c.err = "conflict" /\ c.retries < MaxRetries /\ Become(t, rebase)
  <2>1. c.retries + 1 \in 0 .. MaxRetries
    BY <1>1, <1>7, Constants DEF Client
  <2>2. /\ rebase \in Client /\ rebase.pc = "rebaseRead" /\ rebase.persisted = c.persisted
        /\ rebase.status = c.status /\ rebase.journaled = c.journaled /\ rebase.snapshot = c.snapshot
        /\ rebase.expires = c.expires
    BY <1>1, <2>1, Zenon DEF Client, PC
  <2> HIDE DEF rebase
  <2> QED
    BY <1>1, <1>5, <1>7, <2>2
<1> QED
  BY <1>3, <1>4, <1>6, <1>7, Zenon DEF RecoverCommitted, Rethrown

(* A rebase begins: the record is to follow, or the lease. *)
LEMMA RebaseReadTogether ==
  ASSUME NEW t \in Tx, Own(t), RebaseRead(t)
  PROVE  GoesOn(t)
<1> DEFINE c == client[t]
           L == late[t]
           r == transactions[t]
           d == [c EXCEPT !.target = currentVersion, !.err = "none"]
           s == [d EXCEPT !.snapshot = currentVersion]
           m == [d EXCEPT !.pc = "move"]
<1>1. /\ c \in Client /\ c.pc = "rebaseRead" /\ (~c.persisted => ~c.journaled)
      /\ c.persisted /\ c.status = "active" => Match(c, L, r, now)
  BY OwnFacts, WaitingMatch DEF RebaseRead, At
<1>2. late'[t] = L /\ transactions'[t] = r
  BY DEF RebaseRead, coreVars
<1>3. currentVersion \in Versions
  BY DEF Own, Live, StoreType
<1>4. /\ d \in Client /\ d.persisted = c.persisted /\ d.status = c.status
      /\ d.journaled = c.journaled /\ d.snapshot = c.snapshot /\ d.expires = c.expires
  BY <1>1, <1>3, Zenon DEF Client, Errors
<1>5. \/ c.persisted /\ Become(t, Toward(t, d, "rebase"))
      \/ ~c.persisted /\ (Become(t, Toward(t, s, CommitGoal(d))) \/ Become(t, m))
  BY <1>4, Zenon DEF RebaseRead
<1> HIDE DEF d
<1>6. CASE c.persisted /\ Become(t, Toward(t, d, "rebase"))
  <2>1. c.persisted /\ c.status = "active" => Match(d, L, r, now)
    BY <1>1, <1>4, MatchOn
  <2>2. "rebase" \in Calls
    BY DEF Calls
  <2>3. Together(Toward(t, d, "rebase"), L, r, now) /\ Toward(t, d, "rebase") \in Client
    BY <1>1, <1>4, <2>1, <2>2, TowardTogether, TowardType
  <2> QED
    BY <1>2, <1>6, <2>3 DEF GoesOn
<1>7. CASE ~c.persisted /\ Become(t, Toward(t, s, CommitGoal(d)))
  <2>1. s \in Client /\ s.persisted = d.persisted /\ s.journaled = d.journaled
    BY <1>3, <1>4 DEF Client
  <2> HIDE DEF s
  <2>2. CommitGoal(d) \in Calls
    BY GoalType
  <2>3. Together(Toward(t, s, CommitGoal(d)), L, r, now) /\ Toward(t, s, CommitGoal(d)) \in Client
    BY <1>1, <1>4, <1>7, <2>1, <2>2, TowardTogether, TowardType
  <2> QED
    BY <1>2, <1>7, <2>3 DEF GoesOn
<1>8. CASE ~c.persisted /\ Become(t, m)
  <2>1. m \in Client /\ m.pc = "move" /\ m.persisted = d.persisted /\ m.journaled = d.journaled
    BY <1>4 DEF Client, PC
  <2> HIDE DEF m
  <2>2. Together(m, L, r, now)
    BY <1>1, <1>4, <1>8, <2>1, ApartTogether
  <2> QED
    BY <1>2, <1>8, <2>1, <2>2 DEF GoesOn
<1> QED
  BY <1>5, <1>6, <1>7, <1>8

(* A deferred transaction moves its lease. *)
LEMMA MoveTogether ==
  ASSUME NEW t \in Tx, Own(t), MoveSnapshotLease(t)
  PROVE  GoesOn(t)
<1> DEFINE c == client[t]
           b == [c EXCEPT !.snapshot = c.target, !.goal = CommitGoal(c)]
           d == Proceed(b)
<1>1. c \in Client /\ (~c.persisted => ~c.journaled)
  BY OwnFacts
<1>2. Become(t, d) \/ \E err \in {"unknown", "refused"} : Become(t, Failed(t, c, err))
  BY DEF MoveSnapshotLease
<1>3. ASSUME NEW err \in {"unknown", "refused"}, Become(t, Failed(t, c, err))
      PROVE  GoesOn(t)
  <2>1. Together(Failed(t, c, err), late'[t], transactions'[t], now) /\ Failed(t, c, err) \in Client
    BY <1>1, FailedTogether, FailedType DEF Errors
  <2> QED
    BY <1>3, <2>1 DEF GoesOn
<1>4. CASE Become(t, d)
  <2>1. ~c.persisted /\ c.target \in Versions /\ CommitGoal(c) \in Calls
    BY <1>1, OwnFacts, GoalType DEF MoveSnapshotLease, At, Client
  <2>2. b \in Client /\ b.persisted = c.persisted /\ b.journaled = c.journaled /\ b.goal \in Calls
    BY <1>1, <2>1, Zenon DEF Client
  <2> HIDE DEF b
  <2>3. d \in Client /\ d.pc = b.goal /\ d.persisted = b.persisted /\ d.journaled = b.journaled
    BY <2>2, ProceedType, ZenonT(30) DEF Proceed, Client
  <2> HIDE DEF d
  <2>4. d.pc # "createRead"
    BY <2>2, <2>3 DEF Calls
  <2>5. Together(d, late'[t], transactions'[t], now)
    BY <1>1, <2>1, <2>2, <2>3, <2>4, ApartTogether
  <2> QED
    BY <1>4, <2>3, <2>5 DEF GoesOn
<1> QED
  BY <1>2, <1>3, <1>4

(* The reservation creates the record. *)
LEMMA BeginTogether ==
  ASSUME NEW t \in Tx, Own(t), BeginWithReservation(t)
  PROVE  GoesOn(t)
<1> DEFINE c == client[t]
           L == late[t]
           s == transactions'[t]
           open == [c EXCEPT !.pc = "open", !.persisted = TRUE, !.snapshot = currentVersion,
                             !.expires = now + TTL, !.sources = Sources(t)]
           lost == [c EXCEPT !.pc = "lostBegin"]
<1>1. c \in Client /\ ~c.persisted /\ ~c.journaled /\ L = {}
  BY OwnFacts DEF BeginWithReservation, At, Running
<1>2. /\ transactions \in [Tx -> Record \cup {NoRecord}] /\ now + TTL \in Times /\ currentVersion \in Versions
      /\ now + TTL \in Nat
  BY Deadline, Constants DEF Own, Live, StoreType, Times
<1>3. s = NewRecord(currentVersion, now + TTL)
  BY <1>2 DEF BeginWithReservation, BeginTransaction, SetTransaction
<1>4. s.status = "active" /\ s.snapshot = currentVersion /\ s.expires = now + TTL /\ s \in Record
  BY <1>2, <1>3, Constants DEF NewRecord, Record, Status
<1>5. Open(s)
  BY <1>4, AbsenceAssumption DEF Open
<1>6. late'[t] = L
  BY DEF BeginWithReservation
<1>7. CASE Become(t, open)
  <2>1. "open" \in PC /\ TRUE \in BOOLEAN /\ Sources(t) \in SUBSET Blocks
    BY DEF PC, Sources
  <2>2. /\ open \in Client /\ open.pc = "open" /\ open.persisted = TRUE /\ open.journaled = c.journaled
        /\ open.snapshot = currentVersion /\ open.expires = now + TTL
    BY <1>1, <1>2, <2>1, Zenon DEF Client
  <2> HIDE DEF open, s
  <2>3. Match(open, L, s, now)
    BY <1>1, <1>2, <1>4, <1>5, <2>2 DEF Match
  <2>4. Together(open, L, s, now)
    BY <2>2, <2>3 DEF Together
  <2> QED
    BY <1>6, <1>7, <2>2, <2>4 DEF GoesOn, s
<1>8. CASE Become(t, lost)
  <2>1. lost \in Client /\ lost.pc = "lostBegin" /\ lost.persisted = c.persisted /\ lost.journaled = c.journaled
    BY <1>1 DEF Client, PC
  <2> HIDE DEF lost
  <2>2. Together(lost, late'[t], transactions'[t], now)
    BY <1>1, <2>1, ApartTogether
  <2> QED
    BY <1>8, <2>1, <2>2 DEF GoesOn
<1> QED
  BY <1>7, <1>8 DEF BeginWithReservation, Goto

(* The artifact is journaled: what matched matches, journaled. *)
LEMMA StagedMatch ==
  ASSUME StoreType, NEW t \in Tx, NEW q \in Request, q.op = "stage", Execute(t, q), NEW c, NEW d,
         NEW L, NEW M, M \subseteq L \cup {q}, Match(c, L, transactions[t], now),
         d.snapshot = c.snapshot, d.expires = c.expires
  PROVE  Match(d, M, transactions'[t], now)
<1>1. /\ Open(transactions[t]) /\ Open(transactions'[t])
      /\ transactions'[t].snapshot = transactions[t].snapshot
      /\ transactions'[t].expires = transactions[t].expires /\ transactions'[t].journaled
  BY ExecuteEffect, ExecuteFields
<1> QED
  BY <1>1 DEF Match

(* A call is answered. *)
LEMMA AnsweredTogether ==
  ASSUME NEW t \in Tx, Own(t), Answered(t)
  PROVE  GoesOn(t)
<1> DEFINE c == client[t]
           L == late[t]
           r == transactions[t]
           s == transactions'[t]
           q == Call(t)
<1>1. /\ c \in Client /\ (~c.persisted => ~c.journaled)
      /\ c.pc \in {"create", "stage", "commit", "write", "abort", "rebase"}
      /\ c.pc = "create" => L = {} /\ ~c.persisted
      /\ c.pc = "stage" => c.persisted
      /\ c.persisted /\ c.status # "active" => ~Open(r)
  BY OwnFacts DEF Answered, Waits, Calls, Running, Steady
<1>2. late'[t] = L /\ Execute(t, q) /\ Become(t, Succeeded(t)) /\ StoreType
  BY DEF Answered, Own, Live
<1>3. /\ q \in Request /\ q.expires = c.expires
      /\ c.pc = "create" => q.op = "create" /\ q.version = c.snapshot
      /\ c.pc = "stage" => q.op = "stage"
      /\ c.pc = "rebase" => q.op = "rebase" /\ q.version = c.target
  <2>1. q \in Request
    BY CallFacts DEF Answered, Own
  <2> QED
    BY <2>1 DEF Call
<1> HIDE DEF q
<1>4. CASE c.pc = "create"
  <2> DEFINE a == [c EXCEPT !.persisted = TRUE]
  <2>1. /\ a \in Client /\ a.persisted = TRUE /\ a.journaled = c.journaled /\ a.snapshot = c.snapshot
        /\ a.expires = c.expires /\ c.expires \in Nat
    <3>1. c.expires \in Nat
      BY <1>1, Constants DEF Client, Times
    <3> QED
      BY <1>1, <3>1 DEF Client
  <2>2. Succeeded(t) = Toward(t, a, "stage")
    BY <1>4 DEF Succeeded
  <2> HIDE DEF a
  <2>3. Open(s) /\ s.snapshot = c.snapshot /\ s.expires = c.expires
    BY <1>2, <1>3, <1>4, ExecuteEffect, ExecuteFields
  <2>4. Match(a, L, s, now)
    BY <1>1, <1>4, <2>1, <2>3 DEF Match
  <2>5. "stage" \in Calls
    BY DEF Calls
  <2>6. Together(Toward(t, a, "stage"), L, s, now) /\ Toward(t, a, "stage") \in Client
    BY <2>1, <2>4, <2>5, TowardTogether, TowardType
  <2> QED
    BY <1>2, <2>2, <2>6 DEF GoesOn
<1>5. CASE c.pc = "stage"
  <2> DEFINE d == [c EXCEPT !.journaled = TRUE, !.revision = @ + 1, !.pc = "open"]
  <2>1. Open(r) /\ c.persisted /\ c.status = "active"
    BY <1>1, <1>2, <1>3, <1>5, ExecuteEffect
  <2>2. Match(c, L, r, now)
    BY <1>5, <2>1, WaitingMatch
  <2>3. /\ d \in Client /\ d.pc = "open" /\ d.persisted = c.persisted /\ d.snapshot = c.snapshot
        /\ d.expires = c.expires
    <3>1. c.revision + 1 \in Nat /\ TRUE \in BOOLEAN /\ "open" \in PC
      BY <1>1 DEF Client, PC
    <3> QED
      BY <1>1, <3>1, Zenon DEF Client
  <2>4. Succeeded(t) = d
    BY <1>5 DEF Succeeded
  <2> HIDE DEF d
  <2>5. Match(d, L, s, now)
    BY <1>2, <1>3, <1>5, <2>2, <2>3, StagedMatch
  <2>6. Together(d, L, s, now)
    BY <2>1, <2>3, <2>5 DEF Together
  <2> QED
    BY <1>2, <2>3, <2>4, <2>6 DEF GoesOn
<1>6. CASE c.pc = "rebase"
  <2> DEFINE a == [c EXCEPT !.snapshot = c.target, !.revision = @ + 1]
             goal == CommitGoal(c)
  <2>1. /\ a \in Client /\ a.persisted = c.persisted /\ a.status = c.status /\ a.journaled = c.journaled
        /\ a.snapshot = c.target /\ a.expires = c.expires
    <3>1. c.revision + 1 \in Nat /\ c.target \in Versions
      BY <1>1 DEF Client
    <3> QED
      BY <1>1, <3>1, Zenon DEF Client
  <2>2. Succeeded(t) = Toward(t, a, goal) /\ goal \in Calls
    BY <1>6, GoalType DEF Succeeded
  <2> HIDE DEF a, goal
  <2>3. Open(r) /\ Open(s) /\ s.snapshot = c.target /\ s.expires = r.expires /\ s.journaled = r.journaled
    BY <1>2, <1>3, <1>6, ExecuteEffect, ExecuteFields
  <2>4. c.persisted => Match(c, L, r, now)
    BY <1>1, <1>6, <2>3, WaitingMatch
  <2>5. c.persisted => Match(a, L, s, now)
    BY <2>1, <2>3, <2>4 DEF Match
  <2>6. Together(Toward(t, a, goal), L, s, now) /\ Toward(t, a, goal) \in Client
    BY <1>1, <2>1, <2>2, <2>5, TowardTogether, TowardType
  <2> QED
    BY <1>2, <2>2, <2>6 DEF GoesOn
<1>7. CASE c.pc \in {"abort", "commit", "write"}
  <2>1. Succeeded(t) = Settled(c) \/ Succeeded(t) = Ended("committed", FALSE)
    BY <1>7 DEF Succeeded
  <2>2. Succeeded(t) \in Client
    BY SucceededType DEF Own, Live
  <2>3. Together(Succeeded(t), L, s, now)
    BY <2>1, FinishedTogether, EndedTogether
  <2> QED
    BY <1>2, <2>2, <2>3 DEF GoesOn
<1> QED
  BY <1>1, <1>4, <1>5, <1>6, <1>7

(* A call loses its answer, or its request goes astray. *)
LEMMA LostTogether ==
  ASSUME NEW t \in Tx, Own(t), Lost(t)
  PROVE  GoesOn(t)
<1> DEFINE c == client[t]
           L == late[t]
           M == late'[t]
           r == transactions[t]
           s == transactions'[t]
           q == Call(t)
           e == [c EXCEPT !.err = "unknown"]
<1>1. /\ c \in Client /\ (~c.persisted => ~c.journaled)
      /\ c.pc \in {"create", "stage", "commit", "write", "abort", "rebase"}
      /\ c.pc = "create" => L = {} /\ ~c.persisted
      /\ c.pc = "stage" => c.persisted
  BY OwnFacts DEF Lost, Waits, Calls, Running
<1>2. StoreType /\ \/ M = L /\ Execute(t, q)
                   \/ M = L \cup {q} /\ s = r
  BY DEF Lost, Own, Live, ClientType, coreVars
<1>3. /\ q \in Request
      /\ c.pc = "create" => q.op = "create"
      /\ c.pc = "stage" => q.op = "stage"
  <2>1. q \in Request
    BY CallFacts DEF Lost, Own
  <2> QED
    BY <2>1 DEF Call
<1> HIDE DEF q, M, s
<1>4. /\ e \in Client /\ e.pc = c.pc /\ e.err = "unknown" /\ e.persisted = c.persisted /\ e.status = c.status
      /\ e.journaled = c.journaled /\ e.snapshot = c.snapshot /\ e.expires = c.expires
  BY <1>1 DEF Client
<1>5. \/ Become(t, Finished(c, "unknown"))
      \/ Become(t, Failed(t, e, "unknown"))
      \/ c.pc = "create" /\ Become(t, [e EXCEPT !.pc = "createRead"])
      \/ c.pc = "stage" /\ Become(t, [e EXCEPT !.pc = "stageRead"])
      \/ Become(t, [e EXCEPT !.pc = "recover", !.reads = 0])
  BY <1>1, <1>4 DEF Lost, Recovering
<1> HIDE DEF e
<1>6. CASE Become(t, Finished(c, "unknown")) \/ Become(t, Failed(t, e, "unknown"))
  <2>1. Together(Failed(t, e, "unknown"), M, s, now) /\ Failed(t, e, "unknown") \in Client
    BY <1>1, <1>4, FailedTogether, FailedType DEF Errors
  <2>2. Together(Finished(c, "unknown"), M, s, now) /\ Finished(c, "unknown") \in Client
    BY FinishedTogether, FinishedType
  <2> QED
    BY <1>6, <2>1, <2>2 DEF GoesOn, M, s
<1>7. CASE c.pc = "create" /\ Become(t, [e EXCEPT !.pc = "createRead"])
  <2> DEFINE d == [e EXCEPT !.pc = "createRead"]
  <2>1. d \in Client /\ d.pc = "createRead" /\ d.persisted = e.persisted /\ d.journaled = e.journaled
    BY <1>4 DEF Client, PC
  <2> HIDE DEF d
  <2>2. \A o \in M : o.op = "create"
    BY <1>1, <1>2, <1>3, <1>7
  <2>3. Together(d, M, s, now)
    BY <1>1, <1>4, <1>7, <2>1, <2>2 DEF Together, Owning
  <2> QED
    BY <1>7, <2>1, <2>3 DEF GoesOn, M, s, d
<1>8. CASE c.pc = "stage" /\ Become(t, [e EXCEPT !.pc = "stageRead"])
  <2> DEFINE d == [e EXCEPT !.pc = "stageRead"]
  <2>1. /\ d \in Client /\ d.pc = "stageRead" /\ d.persisted = e.persisted /\ d.journaled = e.journaled
        /\ d.status = e.status /\ d.snapshot = e.snapshot /\ d.expires = e.expires
    BY <1>4 DEF Client, PC
  <2> HIDE DEF d
  <2>2. Owning(d) => Match(c, L, r, now)
    BY <1>1, <1>4, <1>8, <2>1, WaitingMatch DEF Owning
  <2>3. Match(c, L, r, now) => Match(d, M, s, now)
    <3>1. CASE M = L /\ Execute(t, q)
      BY <1>2, <1>3, <1>4, <1>8, <2>1, <3>1, StagedMatch DEF s
    <3>2. CASE M = L \cup {q} /\ s = r
      BY <1>3, <1>4, <1>8, <2>1, <3>2 DEF Match
    <3> QED
      BY <1>2, <3>1, <3>2
  <2>4. Together(d, M, s, now)
    BY <1>1, <1>4, <2>1, <2>2, <2>3 DEF Together
  <2> QED
    BY <1>8, <2>1, <2>4 DEF GoesOn, M, s, d
<1>9. CASE Become(t, [e EXCEPT !.pc = "recover", !.reads = 0])
  <2> DEFINE d == [e EXCEPT !.pc = "recover", !.reads = 0]
  <2>1. /\ d \in Client /\ d.pc = "recover" /\ d.err = "unknown" /\ d.persisted = e.persisted
        /\ d.journaled = e.journaled
    BY <1>4, Constants DEF Client, PC
  <2> HIDE DEF d
  <2>2. Together(d, M, s, now)
    BY <1>1, <1>4, <2>1, ApartTogether
  <2> QED
    BY <1>9, <2>1, <2>2 DEF GoesOn, M, s, d
<1> QED
  BY <1>5, <1>6, <1>7, <1>8, <1>9

(* A request arrives that nobody waits for. *)
LEMMA LateTogether ==
  ASSUME NEW t \in Tx, ClientType, StoreType, TogetherFor(t), LateArrives(t)
  PROVE  Together(client'[t], late'[t], transactions'[t], now)
<1> DEFINE c == client[t]
           L == late[t]
           M == late'[t]
           r == transactions[t]
           s == transactions'[t]
<1>1. PICK q \in L :
         /\ IF Accepts(t, q) THEN Execute(t, q) /\ Mark(t, q) ELSE UNCHANGED <<coreVars, published>>
         /\ late' = [late EXCEPT ![t] = @ \ {q}]
         /\ UNCHANGED <<client, held>>
  BY DEF LateArrives
<1>2. M = L \ {q} /\ client'[t] = c /\ q \in Request /\ (s = r \/ Execute(t, q))
  BY <1>1 DEF ClientType, coreVars
<1>3. Owning(c) => Match(c, L, r, now) /\ q.op = "stage"
  BY DEF TogetherFor, Together, Match
<1> HIDE DEF M, s
<1>4. Owning(c) => Match(c, M, s, now)
  <2>1. CASE s = r
    BY <1>2, <1>3, <2>1 DEF Match
  <2>2. CASE Execute(t, q)
    BY <1>2, <1>3, <2>2, StagedMatch DEF s
  <2> QED
    BY <1>2, <2>1, <2>2
<1>5. Together(c, M, s, now)
  BY <1>2, <1>4 DEF TogetherFor, Together
<1> QED
  BY <1>2, <1>5 DEF M, s
--------------------------------------------------------------------------------
(***************************************************************************)
(* From one step to the next.                                              *)
(***************************************************************************)
(* What lapsed stays lapsed. *)
LEMMA TogetherLater ==
  ASSUME NEW c \in Client, NEW L, NEW r, NEW n \in Nat, NEW m \in Nat, n <= m, Together(c, L, r, n)
  PROVE  Together(c, L, r, m)
<1>1. c.expires \in Nat
  BY Constants DEF Client, Times
<1>2. Match(c, L, r, n) => Match(c, L, r, m)
  BY <1>1 DEF Match
<1> QED
  BY <1>2 DEF Together

(* The clock does not go back. *)
LEMMA TimeFlows ==
  ASSUME StoreType, ClientType, [Next]_vars
  PROVE  now \in Nat /\ now' \in Nat /\ now <= now'
<1>1. now \in Nat
  BY Constants DEF StoreType
<1>2. StoreStep
  BY StepShape
<1>3. now' = now \/ now' = now + 1
  <2>1. ASSUME NEW t \in Tx, Publication(t)
        PROVE  now' = now
    BY <2>1, ApplyCommitEffect DEF Publication
  <2>2. CASE CollectStep
    BY <2>2, CollectEffect
  <2> QED
    BY <1>2, <2>1, <2>2, StepCases DEF Touches, coreVars, LeaseStep, SetLeases, Tick
<1> QED
  BY <1>1, <1>3

(* The step of a client that makes no request. *)
LEMMA QuietTogether ==
  ASSUME ClientType, StoreType, NEW t \in Tx, SoundFor(t), TogetherFor(t),
         \/ BeginWithReservation(t)
         \/ SettleLostBegin(t) \/ ProbeDeferred(t) \/ PinDeferred(t)
         \/ Stage(t) \/ Commit(t) \/ GiveUp(t)
         \/ RenewOwnership(t) \/ RenewFails(t) \/ RenewRead(t) \/ Heartbeat(t)
         \/ Refused(t) \/ CreateRead(t) \/ StageRead(t) \/ RecoverCommitted(t)
         \/ RebaseRead(t) \/ MoveSnapshotLease(t)
         \/ AbortRead(t) \/ SettleLapsedAbort(t) \/ SettleRead(t)
  PROVE  GoesOn(t)
<1>1. client[t].pc # "done"
  BY DEF BeginWithReservation, SettleLostBegin, ProbeDeferred, PinDeferred, Stage, Commit, GiveUp,
         RenewOwnership, RenewFails, RenewRead, Heartbeat, Refused, Waits, Calls, CreateRead, StageRead,
         RecoverCommitted, RebaseRead, MoveSnapshotLease, AbortRead, SettleLapsedAbort, SettleRead, At
<1>2. Own(t)
  BY <1>1 DEF Live, Own
<1> QED
  BY <1>2, BeginTogether, EarlyTogether, AskTogether, RenewReadTogether, EndTogether,
     RenewOwnershipTogether, HeartbeatTogether, ReadBackTogether, RefusedTogether, RecoverTogether,
     RebaseReadTogether, MoveTogether

(* The step of a client, for the transaction that takes it. *)
LEMMA ClientTogether ==
  ASSUME ClientType, StoreType, Protocol, Ownership, ClientNext
  PROVE  \E t \in Tx : Apart(t) /\ Together(client'[t], late'[t], transactions'[t], now)
<1>1. ASSUME NEW t \in Tx, GoesOn(t)
      PROVE  Together(client'[t], late'[t], transactions'[t], now)
  BY <1>1 DEF GoesOn, Become, ClientType
<1>2. ASSUME NEW t \in Tx, Answered(t) \/ Lost(t)
      PROVE  Apart(t) /\ Together(client'[t], late'[t], transactions'[t], now)
  <2>1. Own(t)
    BY <1>2 DEF Live, Own, Protocol, Ownership, Answered, Lost, Waits, Calls
  <2> QED
    BY <1>1, <1>2, <2>1, AnsweredTogether, LostTogether, RequestApart
<1>3. ASSUME NEW t \in Tx, LateArrives(t)
      PROVE  Apart(t) /\ Together(client'[t], late'[t], transactions'[t], now)
  BY <1>3, LateTogether, RequestApart DEF Ownership
<1> QED
  BY <1>1, <1>2, <1>3, QuietTogether, QuietApart DEF ClientNext, Protocol, Ownership

(* The store ends the record of an object that takes itself for its owner only when it lapsed. *)
LEMMA OthersTogether ==
  ASSUME ClientType, StoreType, CutoffPast, LeaseNext \/ StoreNext \/ UNCHANGED vars, NEW t \in Tx,
         TogetherFor(t)
  PROVE  Together(client[t], late[t], transactions'[t], now)
<1> DEFINE c == client[t]
           L == late[t]
           r == transactions[t]
           s == transactions'[t]
<1>1. Together(c, L, r, now)
  BY DEF TogetherFor
<1>2. CASE LeaseNext \/ UNCHANGED vars
  <2>1. s = r
    BY <1>2
    DEF LeaseNext, RenewHeld, Repin, RemoveHeld, ProbeReader, PinReader, MoveReader, CloseReader,
        OpenPin, CreateLease, RenewLease, RemoveLease, Moved, MoveLost, MoveLease, SetLeases,
        coreVars, vars
  <2> QED
    BY <1>1, <2>1
<1>3. CASE CollectStep
  <2>1. s = r \/ (s = NoRecord /\ ~Open(r))
    BY <1>3, CollectEffect DEF RecordKept, Has, Open
  <2> QED
    BY <1>1, <2>1 DEF Together, Match, Open
<1>4. CASE Tick
  BY <1>1, <1>4 DEF Tick
<1>5. ASSUME NEW u \in Tx, SweepExpired(u)
      PROVE  Together(c, L, s, now)
  <2>1. CASE u # t
    <3>1. Closes(u)
      BY <1>5 DEF SweepExpired, AbortTransactionIfExpired, Closes
    <3>2. s = r
      BY <2>1, <3>1, SetApart DEF Closes
    <3> QED
      BY <1>1, <3>2
  <2>2. CASE u = t
    <3>1. Open(r) /\ r.expires <= job.cutoff /\ job # NoJob
      BY <1>5, <2>2 DEF SweepExpired, AbortTransactionIfExpired, Has, Open
    <3>2. r \in Record
      BY <3>1, PresentRecord DEF Open
    <3>3. s = [r EXCEPT !.status = "aborted", !.revision = @ + 1]
      BY <1>5, <2>2 DEF SweepExpired, AbortTransactionIfExpired, SetTransaction, StoreType
    <3>4. ~Open(s)
      BY <3>2, <3>3 DEF Open, Record
    <3>5. r.expires \in Nat /\ c.expires \in Nat /\ job.cutoff \in Nat /\ now \in Nat
      BY <3>1, <3>2, Constants DEF Record, Times, ClientType, Client, StoreType, Job
    <3>6. r.expires <= now
      BY <3>1, <3>5 DEF CutoffPast
    <3>7. Match(c, L, r, now) => Match(c, L, s, now)
      BY <3>1, <3>4, <3>5, <3>6 DEF Match
    <3> QED
      BY <1>1, <3>7 DEF Together
  <2> QED
    BY <2>1, <2>2
<1> QED
  BY <1>2, <1>3, <1>4, <1>5 DEF StoreNext, CollectStep

(* Every step keeps the objects and their records together. *)
LEMMA OwnershipStep ==
  ASSUME ClientType, ClientType', StoreType, CutoffPast, Protocol, Ownership, [Next]_vars
  PROVE  Ownership'
<1>1. ASSUME NEW t \in Tx, Together(client'[t], late'[t], transactions'[t], now)
      PROVE  TogetherFor(t)'
  <2>1. client'[t] \in Client
    BY DEF ClientType
  <2> QED
    BY <1>1, <2>1, TimeFlows, TogetherLater DEF TogetherFor
<1>2. CASE ClientNext
  <2>1. PICK t \in Tx : Apart(t) /\ Together(client'[t], late'[t], transactions'[t], now)
    BY <1>2, ClientTogether
  <2>2. ASSUME NEW u \in Tx \ {t}
        PROVE  Together(client'[u], late'[u], transactions'[u], now)
    BY <2>1 DEF Apart, Ownership, TogetherFor
  <2> QED
    BY <1>1, <2>1, <2>2 DEF Ownership
<1>3. CASE LeaseNext \/ StoreNext \/ UNCHANGED vars
  <2>1. client' = client /\ late' = late
    BY <1>3, OthersFollow
  <2>2. ASSUME NEW t \in Tx
        PROVE  Together(client'[t], late'[t], transactions'[t], now)
    BY <1>3, <2>1, OthersTogether DEF Ownership
  <2> QED
    BY <1>1, <2>2 DEF Ownership
<1> QED
  BY <1>2, <1>3 DEF Next

(* They start together. *)
LEMMA OwnershipInit == Init => Ownership
<1> SUFFICES ASSUME Init, NEW t \in Tx PROVE TogetherFor(t)
  BY DEF Ownership
<1>1. client[t] = NewClient
  BY DEF Init
<1>2. NewClient.pc = "idle" /\ ~NewClient.persisted /\ ~NewClient.journaled
  BY DEF NewClient
<1> QED
  BY <1>1, <1>2, ApartTogether DEF TogetherFor

(* An object that takes itself for the owner of an active record has that record, unless it  *)
(* lapsed by the object's own clock.                                                         *)
THEOREM OwnershipKept == Spec => []Ownership
<1>1. Inv /\ Inv' /\ Pins /\ Protocol /\ Ownership /\ [Next]_vars => Ownership'
  BY OwnershipStep DEF Inv, StoreInv, Pins
<1> QED
  BY <1>1, Invariance, PinsKept, ProtocolKept, OwnershipInit, PTL DEF Spec

(* No snapshot that is leased in time and no transaction whose heartbeat keeps up reads at a  *)
(* version that was collected, or loses what it journaled.                                    *)
THEOREM SnapshotsStay == Spec => []PinsHold
<1>1. Inv /\ Pins /\ Ownership => PinsHold
  <2> SUFFICES ASSUME ClientType, StoreType, Pins, Ownership
               PROVE  PinsHold
    BY DEF Inv, StoreInv
  <2>1. ASSUME NEW h \in Holders, Holds(h), held[h].mode = "open", now < held[h].expires, ~held[h].unsure
        PROVE  Readable(held[h].version)
    <3> DEFINE l == <<h, held[h].pins>>
    <3>1. l \in LeaseIds /\ held[h].expires \in Nat /\ now \in Nat
      <4>1. held[h] \in Snapshot
        BY DEF ClientType
      <4>2. held[h].expires \in Nat
        BY <4>1, Constants DEF Snapshot, Times
      <4>3. now \in Nat
        BY Constants DEF StoreType
      <4> QED
        BY <4>2, <4>3, HeldType
    <3>2. leases[l] # NoLease /\ leases[l].version = held[h].version /\ held[h].expires <= leases[l].expires
      BY <2>1, <3>1 DEF Pins, HeldLeased, Leased
    <3>3. leases[l].expires \in Nat
      BY <3>1, <3>2, Constants DEF StoreType, Lease, Times
    <3>4. leases[l].expires > now
      BY <2>1, <3>1, <3>2, <3>3
    <3> QED
      BY <3>1, <3>2, <3>4 DEF Pins, LeasesPin
  <2>2. ASSUME NEW t \in Tx, client[t].persisted, client[t].status = "active", now < client[t].expires,
               client[t].pc \in {"open", "stage", "rebaseRead"}
        PROVE  /\ Has(t, "active") /\ Readable(client[t].snapshot)
               /\ client[t].journaled => blocks[t].stored
    <3>1. Match(client[t], late[t], transactions[t], now)
      BY <2>2 DEF Ownership, TogetherFor, Together, Owning
    <3>2. client[t].expires \in Nat /\ now \in Nat
      BY Constants DEF ClientType, Client, Times, StoreType
    <3>3. Open(transactions[t])
      BY <2>2, <3>1, <3>2 DEF Match
    <3>4. Has(t, "active")
      BY <3>3 DEF Open, Has
    <3> QED
      BY <3>1, <3>3, <3>4 DEF Match, Pins, RecordsPin
  <2> QED
    BY <2>1, <2>2 DEF PinsHold
<1> QED
  BY <1>1, Invariance, PinsKept, OwnershipKept, PTL
===============================================================================
