----------------------------- MODULE RecordCore -----------------------------
(***************************************************************************)
(* The block store under the transactions, as storage/toolkit/            *)
(* record-core.ts keeps it: manifests, transaction records, leases, the   *)
(* blocks and the garbage collection job.  Every operation runs in one     *)
(* step: a store executes them one at a time.                              *)
(*                                                                         *)
(* A transaction journals one artifact, which stands for its segment and   *)
(* the blocks that the segment names, and which carries the transaction's  *)
(* id.  Compaction jobs are left out: what they pin beyond the active      *)
(* record of their transaction only makes the collector keep more.         *)
(***************************************************************************)
EXTENDS Naturals, FiniteSets

CONSTANTS
    Tx,           \* transaction ids; each one also names its artifact
    Readers,      \* leased snapshots other than those of a transaction
    Genesis,      \* the artifact of version 1, from before the model starts
    MaxVersion,   \* bound: the last manifest version
    MaxNow,       \* bound: the last tick of the clock
    MaxPins,      \* bound: lease records one holder may create
    TTL,          \* life of a lease or of a record, in ticks
    NoRecord, NoLease, NoJob

ASSUME RecordCoreAssumption ==
    /\ MaxVersion \in Nat \ {0} /\ MaxNow \in Nat /\ MaxPins \in Nat /\ TTL \in Nat \ {0}
    /\ Genesis \notin Tx /\ Tx \cap Readers = {}

VARIABLES
    now,             \* the clock every expiry and cutoff is read from
    manifests,       \* version -> "none" | "readable" | "pruned" (a tombstone)
    currentVersion,
    transactions,    \* id -> NoRecord or the transaction record
    blocks,          \* artifact -> is it stored, from which version to which is it listed
    leases,          \* <<holder, number>> -> NoLease or the lease record
    job              \* NoJob or the one collection job that is not completed

coreVars == <<now, manifests, currentVersion, transactions, blocks, leases, job>>

Blocks   == Tx \cup {Genesis}
Holders  == Tx \cup Readers
LeaseIds == Holders \X (0 .. MaxPins)
Versions == 1 .. MaxVersion
Times    == 0 .. MaxNow + TTL

Status == {"active", "committed", "aborted"}

Record == [status: Status, revision: Nat, snapshot: Versions, expires: Times,
           journaled: BOOLEAN, committed: 0 .. MaxVersion]

Lease == [version: Versions, expires: Times, revision: Nat]

Job == [cutoff: Times, family: {"manifests", "blocks", "transactions", "done"}]

\* What stands for an absent record is none.
ASSUME AbsenceAssumption == NoRecord \notin Record /\ NoLease \notin Lease /\ NoJob \notin Job

CoreInit ==
    /\ now = 0
    /\ manifests = [v \in Versions |-> IF v = 1 THEN "readable" ELSE "none"]
    /\ currentVersion = 1
    /\ transactions = [t \in Tx |-> NoRecord]
    /\ blocks = [b \in Blocks |-> [stored |-> b = Genesis, removed |-> 0,
                                   added |-> IF b = Genesis THEN 1 ELSE 0]]
    /\ leases = [l \in LeaseIds |-> NoLease]
    /\ job = NoJob

Readable(v) == manifests[v] = "readable"

\* #isManifestBlockVisible: the artifact is listed by the manifest of version v.
Visible(b, v) ==
    /\ blocks[b].added # 0 /\ blocks[b].added <= v
    /\ blocks[b].removed = 0 \/ v < blocks[b].removed

Has(t, status) == transactions[t] # NoRecord /\ transactions[t].status = status

\* The compare-and-swap every record operation begins with.
AtRevision(t, revision) == Has(t, "active") /\ transactions[t].revision = revision

\* Mutant: leases do not pin.
IsManifestPinnedByRecords(v, cutoff) ==
    v = currentVersion \/ \E t \in Tx : Has(t, "active") /\ transactions[t].snapshot = v

\* isManifestPinned, with the cutoff of the collection job.
IsManifestPinned(v, cutoff) ==
    \/ v = currentVersion
    \/ \E t \in Tx : Has(t, "active") /\ transactions[t].snapshot = v
    \/ \E l \in LeaseIds : leases[l] # NoLease /\ leases[l].version = v /\ leases[l].expires > cutoff

-----------------------------------------------------------------------------
(***************************************************************************)
(* Record operations.  A request names the operation, the revision and the *)
(* version it expects, the expiry it asks for, the artifacts it retires.   *)
(***************************************************************************)
Request == [op: {"create", "stage", "commit", "write", "begun", "abort", "rebase"},
            revision: Nat, version: Versions, expires: Times, sources: SUBSET Blocks]

\* Mutant: the commit does not compare its version with the current one.
MayPublishAnywhere(q) == currentVersion < MaxVersion /\ \A b \in q.sources : Visible(b, currentVersion)

\* assertCommitSnapshot and the checks of #planCommit on what the commit retires.
MayPublish(q) ==
    /\ currentVersion = q.version /\ currentVersion < MaxVersion
    /\ \A b \in q.sources : Visible(b, currentVersion)

CreateAccepts(t, q) == q.op = "create" /\ transactions[t] = NoRecord /\ Readable(q.version)
StageAccepts(t, q)  == q.op = "stage" /\ AtRevision(t, q.revision) /\ ~blocks[t].stored
AbortAccepts(t, q)  == q.op = "abort" /\ AtRevision(t, q.revision)
RebaseAccepts(t, q) == q.op = "rebase" /\ AtRevision(t, q.revision) /\ Readable(q.version)
CommitAccepts(t, q) ==
    /\ q.op = "commit" /\ AtRevision(t, q.revision) /\ MayPublish(q)
    /\ transactions[t].snapshot = q.version
    /\ transactions[t].journaled /\ blocks[t].stored
\* The single shot on a record that is already persisted.
BegunAccepts(t, q) ==
    /\ q.op = "begun" /\ AtRevision(t, q.revision) /\ MayPublish(q)
    /\ transactions[t].snapshot = q.version /\ ~blocks[t].stored
\* The single shot that creates its record.
WriteAccepts(t, q) == q.op = "write" /\ transactions[t] = NoRecord /\ MayPublish(q) /\ ~blocks[t].stored

Accepts(t, q) ==
    \/ CreateAccepts(t, q) \/ StageAccepts(t, q) \/ AbortAccepts(t, q) \/ RebaseAccepts(t, q)
    \/ CommitAccepts(t, q) \/ BegunAccepts(t, q) \/ WriteAccepts(t, q)

NewRecord(version, expires) ==
    [status |-> "active", revision |-> 0, snapshot |-> version, expires |-> expires,
     journaled |-> FALSE, committed |-> 0]

SetTransaction(t, record) ==
    /\ transactions' = [transactions EXCEPT ![t] = record]
    /\ UNCHANGED <<now, manifests, currentVersion, blocks, leases, job>>

CreateTransaction(t, q) ==
    CreateAccepts(t, q) /\ SetTransaction(t, NewRecord(q.version, q.expires))

StageTransactionArtifacts(t, q) ==
    /\ StageAccepts(t, q)
    /\ transactions' = [transactions EXCEPT ![t].journaled = TRUE, ![t].revision = @ + 1]
    /\ blocks' = [blocks EXCEPT ![t].stored = TRUE]
    /\ UNCHANGED <<now, manifests, currentVersion, leases, job>>

\* updateTransaction with status: the revision moves, so no older request can follow.
AbortTransaction(t, q) ==
    /\ AbortAccepts(t, q)
    /\ SetTransaction(t, [transactions[t] EXCEPT !.status = "aborted", !.revision = @ + 1])

\* updateTransaction with snapshotVersion.
RebaseTransaction(t, q) ==
    /\ RebaseAccepts(t, q)
    /\ SetTransaction(t, [transactions[t] EXCEPT !.snapshot = q.version, !.revision = @ + 1])

\* #applyCommit: the new manifest, the artifact listed, its sources retired, the record closed.
ApplyCommit(t, q, record) ==
    LET version == currentVersion + 1 IN
    /\ manifests' = [manifests EXCEPT ![version] = "readable"]
    /\ currentVersion' = version
    /\ blocks' = [b \in Blocks |->
                     IF b = t THEN [stored |-> TRUE, added |-> version, removed |-> 0]
                     ELSE IF b \in q.sources THEN [blocks[b] EXCEPT !.removed = version]
                     ELSE blocks[b]]
    /\ transactions' = [transactions EXCEPT ![t] =
                           [record EXCEPT !.status = "committed", !.committed = version,
                                          !.journaled = TRUE]]
    /\ UNCHANGED <<now, leases, job>>

\* commitTransaction and writeTransaction; the single shot journals and commits, two revisions.
CommitTransaction(t, q) ==
    CommitAccepts(t, q) /\ ApplyCommit(t, q, [transactions[t] EXCEPT !.revision = @ + 1])
WriteTransaction(t, q) ==
    \/ BegunAccepts(t, q) /\ ApplyCommit(t, q, [transactions[t] EXCEPT !.revision = @ + 2])
    \/ WriteAccepts(t, q) /\ ApplyCommit(t, q, [NewRecord(q.version, q.expires) EXCEPT !.revision = 2])

Execute(t, q) ==
    \/ CreateTransaction(t, q) \/ StageTransactionArtifacts(t, q)
    \/ AbortTransaction(t, q) \/ RebaseTransaction(t, q)
    \/ CommitTransaction(t, q) \/ WriteTransaction(t, q)

\* beginTransaction: reads the current version and creates the record, in one step.
BeginTransaction(t) ==
    /\ transactions[t] = NoRecord /\ Readable(currentVersion)
    /\ SetTransaction(t, NewRecord(currentVersion, now + TTL))

\* renewTransaction answers whether the owner still owns it; the revision stays.
Owned(t) == Has(t, "active") /\ transactions[t].expires > now
RenewTransaction(t) == Owned(t) /\ SetTransaction(t, [transactions[t] EXCEPT !.expires = now + TTL])

AbortTransactionIfExpired(t, cutoff) ==
    /\ Has(t, "active") /\ transactions[t].expires <= cutoff
    /\ SetTransaction(t, [transactions[t] EXCEPT !.status = "aborted", !.revision = @ + 1])

-----------------------------------------------------------------------------
(***************************************************************************)
(* Leases.                                                                 *)
(***************************************************************************)
SetLeases(records) ==
    /\ leases' = records
    /\ UNCHANGED <<now, manifests, currentVersion, transactions, blocks, job>>

Unexpired(l) == IF leases[l] # NoLease /\ leases[l].expires <= now THEN NoLease ELSE leases[l]

\* createLease refuses a version that is missing or pruned, and sweeps what has expired.
CreateLease(l, version) ==
    /\ leases[l] = NoLease /\ Readable(version)
    /\ SetLeases([k \in LeaseIds |->
          IF k = l THEN [version |-> version, expires |-> now + TTL, revision |-> 0] ELSE Unexpired(k)])

LeaseLive(l, revision) ==
    leases[l] # NoLease /\ leases[l].revision = revision /\ leases[l].expires > now

RenewLease(l, revision) ==
    /\ LeaseLive(l, revision) /\ Readable(leases[l].version)
    /\ SetLeases([leases EXCEPT ![l].expires = now + TTL, ![l].revision = @ + 1])

MoveLease(l, revision, version) ==
    /\ LeaseLive(l, revision) /\ Readable(version)
    /\ SetLeases([leases EXCEPT ![l] = [version |-> version, expires |-> now + TTL,
                                        revision |-> leases[l].revision + 1]])

RemoveLease(l) == SetLeases([leases EXCEPT ![l] = NoLease])

-----------------------------------------------------------------------------
(***************************************************************************)
(* Collection.  The planner may nominate whatever has provenance; the      *)
(* store decides again at every step, from the roots of that moment and    *)
(* the cutoff the job was created with.  The steps go through the          *)
(* manifests, the artifacts and then the transaction records; a step takes *)
(* the nominees of one family, and a nominee is any record that has        *)
(* provenance by then.                                                     *)
(***************************************************************************)
Terminal(t) == Has(t, "aborted") \/ Has(t, "committed")

\* #planGarbageCollection: expired leases are removed (removeLeaseIfExpired), then the job is
\* created, one unfinished job at a time.
CreateGarbageCollectionJob ==
    /\ job = NoJob
    /\ leases' = [l \in LeaseIds |-> Unexpired(l)]
    /\ job' = [cutoff |-> now, family |-> "manifests"]
    /\ UNCHANGED <<now, manifests, currentVersion, transactions, blocks>>

Examine(family, next) == job # NoJob /\ job.family = family /\ job' = [job EXCEPT !.family = next]

\* The planner closes expired records under the cutoff of its job, and so does recovery.
SweepExpired(t) == job # NoJob /\ AbortTransactionIfExpired(t, job.cutoff)

PruneManifests ==
    /\ Examine("manifests", "blocks")
    /\ manifests' = [v \in Versions |->
                        IF Readable(v) /\ ~IsManifestPinned(v, job.cutoff) THEN "pruned" ELSE manifests[v]]
    /\ UNCHANGED <<now, currentVersion, transactions, blocks, leases>>

\* Mutant: only the current manifest is a root.
RootedNow(b) == Visible(b, currentVersion) \/ (b \in Tx /\ Has(b, "active") /\ transactions[b].journaled)

\* collectIndexedPhysicalRoots for an artifact.
Rooted(b) ==
    \/ \E v \in Versions : Readable(v) /\ Visible(b, v)
    \/ b \in Tx /\ Has(b, "active") /\ transactions[b].journaled

\* Listed by a manifest once, or journaled by an aborted transaction.
Provenance(b) == blocks[b].added # 0 \/ (b \in Tx /\ Has(b, "aborted"))

\* The artifact's listing goes with it; the model keeps the versions that listed it, for
\* ReadableComplete, and what is not rooted was retired from the current version on.
ReclaimBlocks ==
    /\ Examine("blocks", "transactions")
    /\ blocks' = [b \in Blocks |-> IF Provenance(b) /\ ~Rooted(b)
                                   THEN [blocks[b] EXCEPT !.stored = FALSE] ELSE blocks[b]]
    /\ UNCHANGED <<now, manifests, currentVersion, transactions, leases>>

\* Mutant: a committed record is not kept for its manifest.
RecordKeptActive(t) == Has(t, "active") \/ (Has(t, "aborted") /\ blocks[t].stored)

\* A committed record stays while its manifest can be read or its segment is there; an
\* aborted one while anything it journaled is there.
RecordKept(t) ==
    \/ Has(t, "active")
    \/ Has(t, "committed") /\ Readable(transactions[t].committed)
    \/ blocks[t].stored

ReclaimTransactions ==
    /\ Examine("transactions", "done")
    /\ transactions' = [t \in Tx |-> IF Terminal(t) /\ ~RecordKept(t) THEN NoRecord ELSE transactions[t]]
    /\ UNCHANGED <<now, manifests, currentVersion, blocks, leases>>

RunGarbageCollectionStep == PruneManifests \/ ReclaimBlocks \/ ReclaimTransactions

\* The job is completed; the driver peels the oldest tombstones.
RemovePrunedManifestRecords ==
    /\ job # NoJob /\ job.family = "done" /\ job' = NoJob
    /\ manifests' = [v \in Versions |-> IF \A u \in 1 .. v : ~Readable(u) THEN "none" ELSE manifests[v]]
    /\ UNCHANGED <<now, currentVersion, transactions, blocks, leases>>

Tick ==
    /\ now < MaxNow /\ now' = now + 1
    /\ UNCHANGED <<manifests, currentVersion, transactions, blocks, leases, job>>
=============================================================================
