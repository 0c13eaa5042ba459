---------------------------- MODULE Transactions ----------------------------
(***************************************************************************)
(* DatabaseTransaction, LeasedSnapshot and TransactionManager of           *)
(* transactions/index.ts over the store of RecordCore, and the report the  *)
(* engine makes of a write (database.ts).                                  *)
(*                                                                         *)
(* A store call may lose its answer after it took effect, or lose the      *)
(* request, which may still reach the store at any later time.  Either way *)
(* the caller gets an UnknownOutcomeError.  Between two calls of a client  *)
(* everyone else moves: other clients, heartbeats, the collector, the      *)
(* clock.  A client that crashes takes no further step.                    *)
(***************************************************************************)
EXTENDS RecordCore

CONSTANTS
    Reserved,        \* the transactions begun with a reservation; the others are deferred
    Folders,         \* those of them that retire what they read, as a compaction does
    Faulty,          \* the transactions and readers whose calls may lose their answers
    RecoveryReads,   \* COMMIT_RECOVERY_READS
    MaxRetries       \* #maxCommitRetries

ASSUME TransactionsAssumption ==
    /\ Reserved \subseteq Tx /\ Folders \subseteq Reserved /\ Faulty \subseteq Holders
    /\ RecoveryReads \in Nat \ {0} /\ MaxRetries \in Nat

VARIABLES
    client,      \* Tx -> the DatabaseTransaction object and the write that drives it
    held,        \* Holders -> the LeasedSnapshot object
    late,        \* Tx -> requests whose client no longer waits for them
    published    \* ghost: the transactions whose commit took effect

vars == <<coreVars, client, held, late, published>>

Calls == {"create", "stage", "commit", "write", "abort", "rebase"}

PC == Calls \cup {"idle", "probed", "lostBegin", "open", "createRead", "stageRead", "renew", "renewRead",
                  "recover", "rebaseRead", "move", "abortRead", "settle", "settleRead", "done"}

Answers == {"nothing", "committed", "failed", "uncertain"}

Client == [pc: PC, goal: Calls, status: Status, revision: Nat, snapshot: Versions, expires: Times,
           persisted: BOOLEAN, journaled: BOOLEAN, attempted: BOOLEAN, settled: BOOLEAN,
           err: {"none", "unknown", "conflict", "refused"}, reads: 0 .. RecoveryReads,
           retries: 0 .. MaxRetries, target: Versions, sources: SUBSET Blocks, told: Answers]

Snapshot == [mode: {"none", "probed", "open", "lapsed", "lost", "released"}, pins: 0 .. MaxPins,
             version: Versions, expires: Times, revision: Nat, unsure: BOOLEAN]

NewClient ==
    [pc |-> "idle", goal |-> "stage", status |-> "active", revision |-> 0, snapshot |-> 1,
     expires |-> 0, persisted |-> FALSE, journaled |-> FALSE, attempted |-> FALSE,
     settled |-> FALSE, err |-> "none", reads |-> 0, retries |-> 0, target |-> 1,
     sources |-> {}, told |-> "nothing"]

NewSnapshot ==
    [mode |-> "none", pins |-> 0, version |-> 1, expires |-> 0, revision |-> 0, unsure |-> FALSE]

Init ==
    /\ CoreInit
    /\ client = [t \in Tx |-> NewClient]
    /\ held = [h \in Holders |-> NewSnapshot]
    /\ late = [t \in Tx |-> {}]
    /\ published = {}

-----------------------------------------------------------------------------
(***************************************************************************)
(* Bookkeeping of the objects.                                             *)
(***************************************************************************)
At(t, pc)    == client[t].pc = pc
Become(t, c) == client' = [client EXCEPT ![t] = c]
Goto(t, pc)  == Become(t, [client[t] EXCEPT !.pc = pc])

\* A transaction holds its snapshot lease until its record takes over the pin or it ends.
Holds(h) == h \in Tx => ~client[h].persisted /\ client[h].pc # "done"

\* A renewal is due in the last third of the lifetime, in whole ticks.
Due(expires) == expires <= now + ((TTL + 2) \div 3)

LeaseSettled(t) ==
    ~Holds(t) \/ held[t].mode = "none" \/ (held[t].mode = "open" /\ ~Due(held[t].expires))

RecordSettled(c) == ~c.persisted \/ c.status # "active" \/ ~Due(c.expires)

\* The call a write is about to make; from a commit call on, the write may be published.
Proceed(c) == [c EXCEPT !.pc = c.goal, !.attempted = @ \/ c.goal \in {"commit", "write"}]

\* #renewOwnership comes first, and makes no call unless a renewal is due.
Toward(t, c, goal) ==
    LET g == [c EXCEPT !.goal = goal] IN
    IF LeaseSettled(t) /\ RecordSettled(c) THEN Proceed(g) ELSE [g EXCEPT !.pc = "renew"]

CommitGoal(c) == IF c.journaled THEN "commit" ELSE "write"

\* Mutant: the commit's own uncertainty is forgotten once abort() has returned.
ReportAbort(c, abortErr) == IF abortErr = "unknown" THEN "uncertain" ELSE "failed"

\* What the engine answers for a write that failed, once abort() has returned or thrown.
Report(c, abortErr) ==
    IF (c.err = "unknown" /\ c.attempted) \/ abortErr = "unknown" THEN "uncertain" ELSE "failed"

\* The write ends and its caller has the answer; the object is dropped.
Ended(answer, settled) == [NewClient EXCEPT !.pc = "done", !.told = answer, !.settled = settled]

Finished(c, abortErr) == Ended(Report(c, abortErr), FALSE)

\* abort() returned: nothing can publish a persisted transaction any more.
Settled(c) == Ended(Report(c, "none"), c.persisted)

\* The catch clause of a write keeps the error and runs abort(): closed already, never written,
\* or to be marked once ownership is renewed.
Failed(t, c, err) ==
    LET e == [c EXCEPT !.err = err] IN
    IF e.status = "active" /\ e.persisted THEN Toward(t, e, "abort")
    ELSE Settled(e)

\* The local copy takes over a record that was read back.
Adopted(t) == [client[t] EXCEPT !.status = transactions[t].status, !.revision = transactions[t].revision,
                                !.snapshot = transactions[t].snapshot, !.expires = transactions[t].expires,
                                !.journaled = transactions[t].journaled, !.persisted = TRUE]

\* The request of the call a client waits for.
Call(t) ==
    LET c == client[t] IN
    [op |-> IF c.pc = "write" /\ c.persisted THEN "begun" ELSE c.pc,
     revision |-> c.revision, expires |-> c.expires, sources |-> c.sources,
     version |-> IF c.pc = "rebase" THEN c.target ELSE c.snapshot]

Publishes(q) == q.op \in {"commit", "write", "begun"}
Mark(t, q) == published' = IF Publishes(q) THEN published \cup {t} ELSE published

-----------------------------------------------------------------------------
(***************************************************************************)
(* Begin.                                                                  *)
(***************************************************************************)
Sources(t) == IF t \in Folders THEN {b \in Blocks : Visible(b, currentVersion)} ELSE {}

\* beginWithReservation: one call creates the record at the current version; its answer may be
\* lost for any transaction.
BeginWithReservation(t) ==
    /\ At(t, "idle") /\ t \in Reserved /\ BeginTransaction(t)
    /\ \/ Become(t, [client[t] EXCEPT !.pc = "open", !.persisted = TRUE, !.snapshot = currentVersion,
                                      !.expires = now + TTL, !.sources = Sources(t)])
       \/ Goto(t, "lostBegin")
    /\ UNCHANGED <<held, late, published>>

\* #settleLostBegin: close the record whose reply never came, if it can be reached; the
\* caller begins again under another id, and nothing of this one was published.
SettleLostBegin(t) ==
    /\ At(t, "lostBegin")
    /\ \/ Has(t, "active") /\ AbortTransaction(t, [op |-> "abort", revision |-> transactions[t].revision])
       \/ UNCHANGED coreVars
    /\ Become(t, Finished(client[t], "none"))
    /\ UNCHANGED <<held, late, published>>

\* beginDeferred: the probe, then the lease at the probed version unless the write opted out.
ProbeDeferred(t) ==
    /\ At(t, "idle") /\ t \notin Reserved
    /\ \E pc \in {"probed", "open"} :
          Become(t, [client[t] EXCEPT !.pc = pc, !.snapshot = currentVersion, !.expires = now + TTL])
    /\ UNCHANGED <<coreVars, held, late, published>>

\* createLease under the given number, and the snapshot object over it.
OpenPin(h, number, version) ==
    /\ CreateLease(<<h, number>>, version)
    /\ held' = [held EXCEPT ![h] = [mode |-> "open", pins |-> number, version |-> version,
                                    expires |-> now + TTL, revision |-> 0, unsure |-> FALSE]]

PinDeferred(t) ==
    /\ At(t, "probed")
    /\ \/ OpenPin(t, held[t].pins, client[t].snapshot) /\ Goto(t, "open")
       \/ ~Readable(client[t].snapshot) /\ Goto(t, "idle") /\ UNCHANGED <<coreVars, held>>
    /\ UNCHANGED <<late, published>>

-----------------------------------------------------------------------------
(***************************************************************************)
(* What the write asks of its open transaction.                            *)
(***************************************************************************)
\* stageArtifacts: the record first (#ensurePersisted), then the ownership, then the artifact.
Stage(t) ==
    /\ At(t, "open") /\ client[t].status = "active" /\ ~client[t].journaled
    /\ Become(t, IF client[t].persisted THEN Toward(t, client[t], "stage")
                 ELSE [client[t] EXCEPT !.pc = "create", !.expires = now + TTL])
    /\ UNCHANGED <<coreVars, held, late, published>>

\* commit and stageArtifactsAndCommit: single shot unless the artifact is journaled already.
Commit(t) ==
    /\ At(t, "open") /\ client[t].status = "active"
    /\ Become(t, Toward(t, client[t], CommitGoal(client[t])))
    /\ UNCHANGED <<coreVars, held, late, published>>

\* The scope's own code throws, or #assertActive refuses a transaction found closed.
GiveUp(t) ==
    /\ At(t, "open")
    /\ Become(t, Failed(t, client[t], "refused"))
    /\ UNCHANGED <<coreVars, held, late, published>>

-----------------------------------------------------------------------------
(***************************************************************************)
(* Ownership: #renewOwnership on the path of an operation, the heartbeat   *)
(* beside it, and the leases.                                              *)
(***************************************************************************)
RenewOwnership(t) ==
    /\ At(t, "renew") /\ LeaseSettled(t)
    /\ \/ RecordSettled(client[t]) /\ Become(t, Proceed(client[t])) /\ UNCHANGED coreVars
       \/ /\ ~RecordSettled(client[t])
          /\ \/ RenewTransaction(t) /\ Become(t, Proceed([client[t] EXCEPT !.expires = now + TTL]))
             \/ ~Owned(t) /\ Goto(t, "renewRead") /\ UNCHANGED coreVars
    /\ UNCHANGED <<held, late, published>>

\* The renewal's answer is lost, or the lease cannot be renewed: the operation fails with it.
RenewFails(t) ==
    \E err \in {"unknown", "refused"} :
        /\ At(t, "renew") /\ (err = "unknown" => t \in Faulty)
        /\ IF LeaseSettled(t) THEN /\ ~RecordSettled(client[t]) /\ err = "unknown"
                                   /\ RenewTransaction(t) \/ UNCHANGED coreVars
           ELSE UNCHANGED coreVars
        /\ Become(t, IF client[t].goal = "abort" THEN Finished(client[t], err)
                     ELSE Failed(t, client[t], err))
        /\ UNCHANGED <<held, late, published>>

\* Not owned: read the record back and throw TransactionClosedError.
RenewRead(t) ==
    /\ At(t, "renewRead")
    /\ LET c == IF transactions[t] = NoRecord THEN client[t] ELSE Adopted(t) IN
       Become(t, IF c.goal # "abort" THEN Failed(t, c, "refused")
                 ELSE IF c.status # "active" THEN Settled(c)
                 ELSE [c EXCEPT !.pc = "settle"])
    /\ UNCHANGED <<coreVars, held, late, published>>

\* The heartbeat renews at any time; an owner that lost the record adopts what became of it.
Heartbeat(t) ==
    /\ client[t].persisted /\ client[t].status = "active" /\ ~At(t, "done")
    /\ \/ /\ client[t].expires < now + TTL /\ RenewTransaction(t)
          /\ Become(t, [client[t] EXCEPT !.expires = now + TTL])
       \/ /\ ~Owned(t) /\ transactions[t] # NoRecord
          /\ Become(t, Adopted(t)) /\ UNCHANGED coreVars
    /\ UNCHANGED <<held, late, published>>

\* LeasedSnapshot.renew, its answer delivered or lost; refused when the lease lapsed or moved.
RenewHeld(h) ==
    LET l == <<h, held[h].pins>> IN
    /\ Holds(h) /\ held[h].mode = "open" /\ held[h].expires < now + TTL
    /\ \/ /\ RenewLease(l, held[h].revision)
          /\ \/ held' = [held EXCEPT ![h].expires = now + TTL, ![h].revision = @ + 1]
             \/ h \in Faulty /\ UNCHANGED held
       \/ /\ ~LeaseLive(l, held[h].revision)
          /\ held' = [held EXCEPT ![h].mode = "lapsed"] /\ UNCHANGED coreVars
    /\ UNCHANGED <<client, late, published>>

\* The lapsed lease is pinned again under a fresh record, unless the version is gone.
Repin(h) ==
    /\ Holds(h) /\ held[h].mode = "lapsed" /\ held[h].pins < MaxPins
    /\ \/ OpenPin(h, held[h].pins + 1, held[h].version)
       \/ /\ ~Readable(held[h].version)
          /\ held' = [held EXCEPT ![h].mode = "lost"] /\ UNCHANGED coreVars
    /\ UNCHANGED <<client, late, published>>

\* removeLease for a lease its object let go of (#releaseSnapshotLease, release).
RemoveHeld(h) ==
    /\ held[h].mode = "released" \/ (held[h].mode # "none" /\ ~Holds(h))
    /\ RemoveLease(<<h, held[h].pins>>)
    /\ held' = [held EXCEPT ![h] = NewSnapshot]
    /\ UNCHANGED <<client, late, published>>

\* openLeasedSnapshot of a reader: the current version is read, then pinned; it tries again.
ProbeReader(r) ==
    /\ held[r].mode = "none" /\ leases[<<r, held[r].pins>>] = NoLease
    /\ held' = [held EXCEPT ![r].mode = "probed", ![r].version = currentVersion]
    /\ UNCHANGED <<coreVars, client, late, published>>

PinReader(r) ==
    /\ held[r].mode = "probed"
    /\ \/ OpenPin(r, held[r].pins, held[r].version)
       \/ ~Readable(held[r].version) /\ held' = [held EXCEPT ![r].mode = "none"] /\ UNCHANGED coreVars
    /\ UNCHANGED <<client, late, published>>

\* moveTo: one store step, its answer delivered or lost.  A lost one leaves the object as it was.
Moved(h, version) ==
    /\ held[h].mode = "open" /\ MoveLease(<<h, held[h].pins>>, held[h].revision, version)
    /\ held' = [held EXCEPT ![h].version = version, ![h].expires = now + TTL, ![h].revision = @ + 1]
MoveLost(h, version) ==
    /\ h \in Faulty
    /\ held[h].mode = "open" /\ MoveLease(<<h, held[h].pins>>, held[h].revision, version)
    /\ held' = [held EXCEPT ![h].unsure = TRUE]

\* moveLeasedSnapshot of a reader that goes on to a newer version; a lease the store no longer
\* moves is replaced.
MoveReader(r) ==
    /\ held[r].version # currentVersion
    /\ \/ Moved(r, currentVersion)
       \/ MoveLost(r, currentVersion)
       \/ /\ held[r].mode = "open" /\ ~LeaseLive(<<r, held[r].pins>>, held[r].revision)
          /\ held[r].pins < MaxPins /\ OpenPin(r, held[r].pins + 1, currentVersion)
    /\ UNCHANGED <<client, late, published>>

CloseReader(r) ==
    /\ held[r].mode \in {"open", "lost"}
    /\ held' = [held EXCEPT ![r].mode = "released"]
    /\ UNCHANGED <<coreVars, client, late, published>>

-----------------------------------------------------------------------------
(***************************************************************************)
(* The record calls: answered, refused, or lost.                           *)
(***************************************************************************)
Waits(t) == client[t].pc \in Calls

\* The object once its call has succeeded.
Succeeded(t) ==
    LET c == client[t] IN
    CASE c.pc = "create" -> Toward(t, [c EXCEPT !.persisted = TRUE], "stage")
      [] c.pc = "stage"  -> [c EXCEPT !.journaled = TRUE, !.revision = @ + 1, !.pc = "open"]
      [] c.pc = "rebase" -> Toward(t, [c EXCEPT !.snapshot = c.target, !.revision = @ + 1], CommitGoal(c))
      [] c.pc = "abort"  -> Settled(c)
      [] OTHER           -> Ended("committed", FALSE)

Answered(t) ==
    /\ Waits(t) /\ Execute(t, Call(t)) /\ Mark(t, Call(t))
    /\ Become(t, Succeeded(t))
    /\ UNCHANGED <<held, late>>

\* Where a call goes with its error: fail, read the record back, or recover the commit.
Recovering(t, err) ==
    LET c == [client[t] EXCEPT !.err = err] IN
    CASE c.pc = "create" -> IF err = "conflict" THEN Failed(t, c, err) ELSE [c EXCEPT !.pc = "createRead"]
      [] c.pc = "stage"  -> [c EXCEPT !.pc = "stageRead"]
      [] c.pc = "rebase" -> IF err = "conflict" THEN [c EXCEPT !.pc = "rebaseRead"] ELSE Failed(t, c, err)
      [] OTHER           -> [c EXCEPT !.pc = "recover", !.reads = 0]

\* The typed refusals: a version that is not current or not readable, or a record that moved.
Refusal(t) ==
    LET q == Call(t)
        recordMoved == IF q.op \in {"create", "write"} THEN transactions[t] # NoRecord
                       ELSE ~AtRevision(t, q.revision)
        versionMoved == IF Publishes(q) THEN currentVersion # q.version ELSE ~Readable(q.version)
    IN IF recordMoved \/ ~versionMoved THEN "refused" ELSE "conflict"

Refused(t) ==
    /\ Waits(t) /\ ~Accepts(t, Call(t))
    /\ Become(t, IF At(t, "abort") THEN [client[t] EXCEPT !.pc = "abortRead"]
                 ELSE Recovering(t, Refusal(t)))
    /\ UNCHANGED <<coreVars, held, late, published>>

\* UnknownOutcomeError: the effect landed and its answer did not, or the request is on its way.
Lost(t) ==
    /\ Waits(t) /\ t \in Faulty
    /\ \/ Execute(t, Call(t)) /\ Mark(t, Call(t)) /\ UNCHANGED late
       \/ late' = [late EXCEPT ![t] = @ \cup {Call(t)}] /\ UNCHANGED <<coreVars, published>>
    /\ Become(t, IF At(t, "abort") THEN Finished(client[t], "unknown") ELSE Recovering(t, "unknown"))
    /\ UNCHANGED held

\* A request nobody waits for reaches the store, which executes or refuses it.
LateArrives(t) ==
    \E q \in late[t] :
        /\ IF Accepts(t, q) THEN Execute(t, q) /\ Mark(t, q) ELSE UNCHANGED <<coreVars, published>>
        /\ late' = [late EXCEPT ![t] = @ \ {q}]
        /\ UNCHANGED <<client, held>>

-----------------------------------------------------------------------------
(***************************************************************************)
(* Reading back.                                                           *)
(***************************************************************************)
\* The adoption of #ensurePersisted: the record is ours, durably; go on only if the error was
\* a lost answer.  The read itself may fail.
CreateRead(t) ==
    LET err == client[t].err IN
    /\ At(t, "createRead")
    /\ \/ /\ AtRevision(t, client[t].revision) /\ ~transactions[t].journaled
          /\ transactions[t].snapshot = client[t].snapshot
          /\ Become(t, IF err = "unknown" THEN Toward(t, [Adopted(t) EXCEPT !.err = "none"], "stage")
                       ELSE Failed(t, Adopted(t), err))
       \/ Become(t, Failed(t, client[t], err))
    /\ UNCHANGED <<coreVars, held, late, published>>

\* #recoverStagedAcknowledgement.
StageRead(t) ==
    LET err == client[t].err IN
    /\ At(t, "stageRead")
    /\ \/ /\ AtRevision(t, client[t].revision + 1) /\ transactions[t].journaled
          /\ Become(t, IF err = "unknown" THEN [Adopted(t) EXCEPT !.pc = "open", !.err = "none"]
                       ELSE Failed(t, Adopted(t), err))
       \/ Become(t, Failed(t, client[t], err))
    /\ UNCHANGED <<coreVars, held, late, published>>

\* #adoptPersistedCommit finds the record committed and its manifest, or its tombstone, there.
Landed(t) == Has(t, "committed") /\ manifests[transactions[t].committed] # "none"

\* The error of the commit itself; a version conflict leads to a rebase while retries are left.
Rethrown(t) ==
    IF client[t].err = "conflict" /\ client[t].retries < MaxRetries
    THEN [client[t] EXCEPT !.pc = "rebaseRead", !.retries = @ + 1, !.err = "none"]
    ELSE Failed(t, client[t], client[t].err)

\* #recoverCommitted, one read: the commit is adopted, or its error is thrown, or the read fails.
RecoverCommitted(t) ==
    /\ At(t, "recover")
    /\ \/ Landed(t) /\ Become(t, Ended("committed", FALSE))
       \/ ~Landed(t) /\ Become(t, Rethrown(t))
       \/ Become(t, IF client[t].reads + 1 < RecoveryReads THEN [client[t] EXCEPT !.reads = @ + 1]
                    ELSE Rethrown(t))
    /\ UNCHANGED <<coreVars, held, late, published>>

-----------------------------------------------------------------------------
(***************************************************************************)
(* rebase() and the rest of abort().                                       *)
(***************************************************************************)
\* The current version is read; a persisted record is renewed and updated, a deferred one
\* moves its lease, if it has one, before its local snapshot.
RebaseRead(t) ==
    /\ At(t, "rebaseRead")
    /\ LET c == [client[t] EXCEPT !.target = currentVersion, !.err = "none"] IN
       Become(t, IF c.persisted THEN Toward(t, c, "rebase")
                 ELSE IF held[t].mode = "none" \/ held[t].version = currentVersion
                 THEN Toward(t, [c EXCEPT !.snapshot = currentVersion], CommitGoal(c))
                 ELSE [c EXCEPT !.pc = "move"])
    /\ UNCHANGED <<coreVars, held, late, published>>

MoveSnapshotLease(t) ==
    LET version == client[t].target
        rebased == [client[t] EXCEPT !.snapshot = version, !.goal = CommitGoal(client[t])] IN
    /\ At(t, "move")
    /\ \/ Moved(t, version) /\ Become(t, Proceed(rebased))
       \/ MoveLost(t, version) /\ Become(t, Failed(t, client[t], "unknown"))
       \/ /\ \/ held[t].mode # "open" \/ ~Readable(version)
             \/ ~LeaseLive(<<t, held[t].pins>>, held[t].revision)
          /\ Become(t, Failed(t, client[t], "refused")) /\ UNCHANGED <<coreVars, held>>
    /\ UNCHANGED <<late, published>>

\* The revision moved under a fresh lease: what the record says decides.
AbortRead(t) ==
    /\ At(t, "abortRead")
    /\ Become(t, IF Terminal(t) THEN Settled(client[t]) ELSE Finished(client[t], "refused"))
    /\ UNCHANGED <<coreVars, held, late, published>>

\* Mutant: a transaction whose record lapsed is taken for aborted as it is.
SettleLapsedUnmarked(t) ==
    /\ At(t, "settle") /\ Become(t, Settled(client[t]))
    /\ UNCHANGED <<coreVars, held, late, published>>

\* #settleLapsedAbort: mark the record as recovery would ...
SettleLapsedAbort(t) ==
    /\ At(t, "settle")
    /\ \/ AbortTransactionIfExpired(t, now) /\ Become(t, Settled(client[t]))
       \/ /\ ~(Has(t, "active") /\ transactions[t].expires <= now)
          /\ Goto(t, "settleRead") /\ UNCHANGED coreVars
    /\ UNCHANGED <<held, late, published>>

\* ... or read what became of it: a record that is gone counts as aborted.
SettleRead(t) ==
    /\ At(t, "settleRead")
    /\ Become(t, IF Has(t, "active") THEN Finished(client[t], "refused") ELSE Settled(client[t]))
    /\ UNCHANGED <<coreVars, held, late, published>>

-----------------------------------------------------------------------------
ClientNext ==
    \E t \in Tx :
        \/ BeginWithReservation(t) \/ SettleLostBegin(t) \/ ProbeDeferred(t) \/ PinDeferred(t)
        \/ Stage(t) \/ Commit(t) \/ GiveUp(t)
        \/ RenewOwnership(t) \/ RenewFails(t) \/ RenewRead(t) \/ Heartbeat(t)
        \/ Answered(t) \/ Refused(t) \/ Lost(t) \/ LateArrives(t)
        \/ CreateRead(t) \/ StageRead(t) \/ RecoverCommitted(t)
        \/ RebaseRead(t) \/ MoveSnapshotLease(t)
        \/ AbortRead(t) \/ SettleLapsedAbort(t) \/ SettleRead(t)

LeaseNext ==
    \/ \E h \in Holders : RenewHeld(h) \/ Repin(h) \/ RemoveHeld(h)
    \/ \E r \in Readers : ProbeReader(r) \/ PinReader(r) \/ MoveReader(r) \/ CloseReader(r)

StoreNext ==
    /\ \/ CreateGarbageCollectionJob \/ RunGarbageCollectionStep \/ RemovePrunedManifestRecords
       \/ Tick
       \/ \E t \in Tx : SweepExpired(t)
    /\ UNCHANGED <<client, held, late, published>>

Next == ClientNext \/ LeaseNext \/ StoreNext

Spec == Init /\ [][Next]_vars

-----------------------------------------------------------------------------
(***************************************************************************)
(* Properties.                                                             *)
(***************************************************************************)
\* The type of the store and of the client objects.
TypeOK ==
    /\ now \in 0 .. MaxNow /\ currentVersion \in Versions
    /\ manifests \in [Versions -> {"none", "readable", "pruned"}]
    /\ \A t \in Tx : transactions[t] # NoRecord => transactions[t] \in Record
    /\ blocks \in [Blocks -> [stored: BOOLEAN, added: 0 .. MaxVersion, removed: 0 .. MaxVersion]]
    /\ \A l \in LeaseIds : leases[l] # NoLease => leases[l] \in Lease
    /\ job # NoJob => job \in Job
    /\ client \in [Tx -> Client] /\ held \in [Holders -> Snapshot]
    /\ late \in [Tx -> SUBSET Request] /\ published \subseteq Tx

\* Whatever the planner nominated and however old its plan is, every artifact that a readable
\* manifest lists is stored (runGarbageCollectionStep decides from the roots of the moment).
ReadableComplete ==
    \A v \in Versions, b \in Blocks : Readable(v) /\ Visible(b, v) => blocks[b].stored

\* A leased snapshot that is open, has not lapsed by its own copy of the expiry and whose last
\* move was answered, renewed or pinned again or not, protects its version from collection; of
\* a persisted transaction whose heartbeat keeps up the record is there, the version it reads
\* is there, and so is what it journaled (LeasedSnapshot.renew, #renewOwnership).
PinsHold ==
    /\ \A h \in Holders :
          /\ Holds(h) /\ held[h].mode = "open" /\ now < held[h].expires /\ ~held[h].unsure
          => Readable(held[h].version)
    /\ \A t \in Tx :
          /\ client[t].persisted /\ client[t].status = "active" /\ now < client[t].expires
          /\ client[t].pc \in {"open", "stage", "rebaseRead"}
          => /\ Has(t, "active") /\ Readable(client[t].snapshot)
             /\ client[t].journaled => blocks[t].stored

\* The record of a published transaction is the witness #recoverCommitted reads: it is there,
\* committed, for as long as the manifest it published can be read.
WitnessKept ==
    \A t \in published :
        blocks[t].added # 0 /\ Readable(blocks[t].added) => Has(t, "committed")

\* Once abort() has returned for a persisted transaction that is not published, no request
\* still on its way can publish it.
SettledIsFinal ==
    [][\A t \in Tx : client[t].settled /\ t \notin published => t \notin published']_vars

\* Nothing was committed between the version a published transaction checked last and its own
\* (assertCommitSnapshot), across rebases and requests that arrive late.
NoLostUpdate ==
    \A t \in Tx : Has(t, "committed") => transactions[t].committed = transactions[t].snapshot + 1

\* What callers are told of their writes is as TransactionOutcome promises.
Outcome == INSTANCE TransactionOutcome WITH told <- [t \in Tx |-> client[t].told]
OutcomeHolds == Outcome!Spec
=============================================================================
