# Minnow verification project

Minnow is a columnar SQL database that runs in the browser. Several tabs and workers open the same
database; statements are optimistic transactions over a block store (memory, IndexedDB, or OPFS with
one elected leader); background work folds and collects what statements leave. This directory holds
TLA+ models of the parts of `packages/core/src` whose correctness rests on order, cancellation and
failure, the TLC runs that check them, and TLAPS proofs of the results that matter most.

Everything is translated from the source; `PROJECT.json` maps each definition to its lines. Paths
below are relative to `src/packages/core/src`.

## 1. Inventory

| Component | State it keeps | Operations | What is hard |
|---|---|---|---|
| Writer admission, `engine/write-coordinator.ts` | per context a promise chain (tail, holder, waiting count); one Web Lock between contexts | admit, enter, try / request the lock, hold, settle, sweep, abort | aborts that race a grant; a queue object dropped while somebody chains to it; tabs that die with the lock |
| One connection's admissions, `engine/writer-admissions.ts` | unsettled admissions, pending publications, turns in progress, reads parked until the turns end | admit, publish, assist, lend, outsideTurns, drain | a writer that holds the turn waits for a step that needs it; close in the middle of anything |
| Compaction scheduling, `engine/compaction-controller.ts` | runs, requests, quiet tables, backoffs and timers per table | commit, check, schedule, back off, forget, stop, drain | three possible owners of one request; timers that outlive their reason |
| Collection scheduling, `engine/collection-controller.ts` | one run, one request, a continuation, timers, the debt of uncollected commits | commit, assist, schedule, retry, manual pass, stop, drain | state read before an await and written after it; backpressure checked outside the turn |
| The OPFS leader's log, `storage/opfs/leader.ts`, `storage/toolkit/wal.ts`, `storage/toolkit/wal-acknowledgement.ts` | log, two checkpoint slots, two acknowledgement slots, the record core, the writer's offset | append (flushed, unflushed, staged), checkpoint (with lease operations between its slices), reset, reload, recover, clean up, shut down | power loss and dead tabs between any two file operations; refused writes and flushes |
| OPFS coordination, `storage/opfs/store.ts`, `rpc.ts` | leader, in-flight and settled requests, the logged ledger | elect, hand over, send, re-send, serve, answer | requests repeated at the next leader |
| Transactions, `transactions/index.ts` | record, leases, heartbeat, staged artifacts | begin, stage, commit, abort, renew, pin again, recover | lost acknowledgements; clocks that jump |
| Stores, `storage/memory.ts`, `storage/toolkit/record-core.ts`, `storage/indexeddb.ts` | manifests, transactions, leases, blocks | compare-and-swap operations, collection | leases against collection |
| Index build ownership, `engine/owner-presence.ts` | owner locks, creation locks | claim, release, ask for departure, create | liveness decided from a lock query |
| Live queries, `engine/live.ts` | groups of equal statements with a retained result and a probe, lagging groups, a sweep chain, a retry timer | subscribe, observe, hint, sweep, execute, patch, deliver, close | registrations between the steps of a sweep; sweeps that fail half way; schema changes while tables are resolved |
| Worker client and server, `engine/client.ts`, `engine/worker-server.ts` | requests, cursors, sessions | request, answer, cancel, disconnect | disconnects in the middle |
| The next engine's storage, `next/storage/` | allocator, reservations, reclaim ledger, two root slots, pins | open, reserve, append, relocate, seal, discard, abort, publish, pin, release | kills and power losses around a publish; space freed while a call in flight still writes to it |
| The rest of the next engine, `next/` | owner, sessions, log, memtables | elect, reconnect, flush, merge | fencing; re-sent requests |
| Statement and query engine, `engine/database.ts`, `query.ts`, `vector.ts`, codecs | data | parse, plan, evaluate, encode | nothing a model checker reaches: pure computation over data |

How they interact: a statement takes a turn (writer admissions, which call writer admission),
commits a transaction through the store, and on its way tells the two controllers that it committed;
a writer whose table is over its limits first helps (assist, lend), so a controller's background step
may publish inside the writer's turn. The controllers start folds and collections, which take turns
of their own. Closing a connection cancels the waits, stops the controllers, and drains them all.
Below the store, with OPFS, every mutation is sent to the tab that leads (OPFS coordination), which
executes it on the record core and makes it a frame of its log; the answer may be lost, and then the
transaction that asked settles its own outcome from the records. The next engine is a rewrite kept
beside the released one and shares nothing with it.

## 2. Modules

| Module | Models |
|---|---|
| `WriterTurn` | abstract: the writers of a group take turns |
| `WriteCoordinator`, `MCWriteCoordinator` | admission, one action per step of `admitWriter`; implements `WriterTurn` |
| `WriterAdmissions`, `MCWriterAdmissions` | one connection's admissions with the step chain of one table (`#serializedCompactionStep` of `engine/database.ts`); uses the turn as `WriterTurn` promises it |
| `AdmissionProofs` | proofs about both halves of writer admission |
| `CompactionController`, `MCCompactionController` | the whole controller, with the checks and the run loop of `engine/database.ts` reduced to what they report back |
| `CompactionControllerProofs` | proofs about it |
| `CollectionController`, `MCCollectionController` | scheduling, assist, manual passes, drain |
| `CollectionControllerProofs` | proofs about it |
| `LeaderLog`, `MCLeaderLog` | the leader's log, checkpoints, recovery |
| `LeaderLogProofs` | proofs about it |
| `ServedRequests`, `MCServedRequests` | a mutation between tabs: dispatch, re-sends, the in-flight, remembered and logged requests of successive leaders |
| `ServedRequestsProofs` | proofs about it |
| `TransactionOutcome` | abstract: what a writer may conclude from what it was told |
| `RecordCore` | the store's manifests, transaction records, leases, artifacts and collection job, one operation per step |
| `Transactions`, `MCTransactions` | transactions, leased snapshots and the engine's report of a write over `RecordCore`; implements `TransactionOutcome` |
| `TransactionsProofs` | proofs about the store under it (what is readable, what is pinned, what witnesses a commit) and about its clients (the refinement, and that snapshots and transactions keep what they read) |
| `ExtentSpace`, `MCExtentSpace` | the next engine's extent space over its file store |
| `ExtentSpaceProofs` | proofs about it |
| `LiveQueries`, `MCLiveQueries` | `LiveQuerySet`: registration, groups, hints, sweeps, executions, patches and deliveries |
| `LiveQueriesProofs` | proofs about it |

Conventions. A call that runs to its next await is one action. A promise reaction, a timer and an
answer of the browser are actions of their own, so everything that may run between two awaits does.
Timers carry no time: a timer that is set may fire at any later moment. Variables named after private
fields hold what the fields hold; variables marked *history* or *ghost* exist only for the properties
and are never read by a guard that models code, with one exception: `ResultDue` of `LeaderLog` reads
`promised` to know that the result of a served mutation is still due. An operator whose comment begins
with "Mutant" is a plausible mistake used to test that a property can fail; no specification uses it.

**WriteCoordinator.** `stage` follows the operation of a call through chain, lock and turn; `outcome`
is what its caller was told, which the race with the abort signal may settle earlier. A `LocalQueue`
is named after the call that created it. `WebLocks` is the set of contexts that have a lock manager;
the others coordinate inside themselves only. The lock manager is the browser's: first come first
served, an aborted request withdrawn before its callback, everything freed with its context. The stall
watch, which only reports, and the uncoordinated test seam are left out.

**WriterAdmissions.** The turn is free, ours, or somebody else's for as long as they please. `pc` is a
writer (one of `Writes`) inside its turn (assisting, stepping the table, lending), `claim` and `pending` the lent
publications, `lastStep`/`previous` the table's chain, `closing`/`joined` the drain.

**CompactionController.** A table is `ripe` (due by itself) or has `deltas` (due once quiet). Counts of
segments and lengths of delays are left out.

**CollectionController.** A run returns the two flags that the controller reads. `step()`, a promise
chain for explicit steps, and `status()`, which only reads, are left out.

**LeaderLog.** The record core is the sequence of the operations applied to it. A file is what a
handle reads and what the last flush covered; a dying tab leaves the first, a power loss some mixture,
page by page. Recovery (`#loadFromDisk`) is a function of the files, with each of its refusals. Byte
offsets become cells, so frames are written whole, short, or as zeroes. Operations, headroom, renumbered
frames, the initialisation of the acknowledgement file and layout upgrades are left out. The lease lane
may be used between any two slices of a checkpoint; a checkpoint that keeps it closed is one during
which nobody uses it.

**ServedRequests.** `call` is the dispatch loop of a requester, `serving` the deliveries a leader is
looking at, `inFlight` and `settled` its two maps, `terms` the leader objects one after the other, each
with the ledger of served requests it recovered and logs to. A tab leads, declines, yields, closes,
dies, or fails to reload its log. Assumed of the platform: a tab hears messages in the order they were
posted to it; it hears an operation, and begins to look at it, before it ends an election that began
later; a tab that yields says so before the next one announces itself. Broadcasts are delivered to the
tabs that issue requests only. `DEDUPE_CACHE_SIZE` (the size of the settled map) is taken to outlast a
call. The queue of a leader and its in-flight map protect against the same double start, so no single
mistake in one of the two can be seen in this model. What a mutation does, fingerprints of reused
identities, reads, the lease lane, pieces of large requests and the messages that only stretch a timeout
are left out: a timeout may come at any time. Also simplified: a request is given up for its budget only while
its tab does not lead (the code may do it in a tab that has just become leader), no tab sends a request to itself,
and the check that a mutation is valid is one step with its logging.

**RecordCore and Transactions.** A transaction journals one artifact that stands for its segment and
blocks. `client` is the transaction object with the write that drives it, `held` a leased snapshot,
`late` the requests whose answers nobody waits for any more and that may still reach the store. A call
of a holder in `Faulty` may lose its request or its answer; both look alike to the caller. The clock
moves by ticks, at any moment, also over a whole lease. The collector nominates anything that has a
provenance, in particular everything the code's planner would nominate, and removes what the roots of
the moment of removal allow. Left out: compaction jobs (they only make the collector keep more), a lost
answer of a `createLease` (the record expires by itself), catalog and index records, the journal of
savepoints. The read of a heartbeat whose renewal was refused is one step with its outcome and does not
fail by itself.

**ExtentSpace.** A unit of space holds the name of the writer whose bytes it carries, or junk; a root is
the function from units to expected bytes. `disk` holds the root slots and the data, and of each whether
it was flushed. Writers hold a reservation, an extent being built and a sealed one; `releasing` are the
batches of space that `free` has in flight. Writers append, seal, relocate a growing extent, fail in the
middle, discard, abort while a call is in flight, and publish with what the new root drops. The
seal of a builder that relocates has two further steps: `BeginMove` makes the plan and allocates the target, and
`EndMove` ends the copies, with the write lock held in between; `FailSeal` comes before the plan, or during the
copies, and then leaves the target to the builder. A kill leaves what was written. A power failure loses any part of what was not flushed; the space is then opened
again from the slots. A session's publish is one synchronous step of the file store, so a refused one
failed before the slot's write or after its flush; a kill between the two is the extra step of
`KillSpec`. The caller of `publish` is taken to state exactly what is reached and retired, as the
contract asks. Reads, the page cache, staging buffers, budgets, the log and the ownership fence, and
the IndexedDB and memory sessions are left out.

**LiveQueries.** A moment of the store is what a probe reads, the manifest version and the schema epoch. A
result is reduced to what it shows: the tables behind the statement and the commits whose rows are in it.
`groups` holds of each open group what `QueryGroup` holds, with the execution in flight (a full run, a patch
of a window, or the publication of a memo); `opening` the probe its tables are being resolved from; `sweep`
the one that runs, with the groups it still has to visit and the deliveries it defers to its end; `sub` how far
each registration is. The host is external: a full execution primed from a probe shows some moment not older
than it, a patch adds the rows of its window, and either may fail or be declined; that a delta query may also see
commits newer than its window is left out. Probes are answered in the order in which they were asked for, so a
group is never opened against a version older than the last sweep's. A hole in the manifest
history, a proof that a window cannot matter, an error of coordination (which sets the retry timer) or another
one may occur wherever the code allows it. `got` is history: what each subscriber was handed last, and whether
it reflected its probe and fitted what the subscriber had. Left out: key forwards and key observers, the
limits on groups, subscriptions, bytes and resolutions, execution slots, statistics, and a callback that
throws on its initial delivery. `adrift` marks groups that met one of two cases described among the
observations, which the properties excuse until the next full execution.

## 3. Runs

| Run | Instance | Shows |
|---|---|---|
| `coordinator` | two tabs and a context without Web Locks, four admissions, an abort, disposals, a tab that stops or is unloaded; fair scheduling | one writer at a time; queues never split; first come first served; implements `WriterTurn`; every queued writer gets its turn or a reason; a disposing connection is answered |
| `admissions` | two writers, two folds, a read, another tab, close at any point | publications run once and inside a turn; lending never deadlocks; close completes and leaves nothing |
| `compaction` | one table, two commits, failing checks and drops, writers' backoffs, close | no forgotten request, drain is quiet, quiet tables get their fold |
| `collection` | two writers, three commits, debt limit two, both modes | requests keep an owner, leftovers show, debt bounded, drain quiet, bursts collected |
| `leader_log` | both durabilities, four operations and checkpoints, two troubles | acknowledged operations survive, recovery accepts what it documents, the state is a history that happened, files and memory agree |
| `leader_log_cleanup` | *violation* | see finding 1 |
| `transactions` | a deferred writer, a folding writer, a reader, lost and late calls | what is readable is complete; what is pinned stays; a commit's record outlives its manifest; no lost update; an abort that returned is final; implements `TransactionOutcome` |
| `served` | three tabs, one mutation, two leaderships, full tabs, a death, closes, a timeout, forgetting | the mutation is logged at most once; what its caller is told is true, then and later |
| `served_again` | *violation* | see finding 2 |
| `extent_space` | two writers, five units, three publishes, a pin, two openings | both kept roots and the pinned root stay readable; a resolved publish survives; every allocated unit has one holder, relocations and failures included; nothing waits that may be reused |
| `extent_space_kill` | *violation* | see finding 3 |
| `live` | two result subscribers of one statement, two observers of another, or one of each; two commits, schema changes or failures; fair scheduling | what is delivered reflects its probe; row maps fit what their receiver has; everybody ends up with the current answer, or told of it |

Deadlock is not checked: in every module the work is bounded (each admission, commit and operation
happens once), so a behaviour may end.

Bounds. `WriteCoordinator`: a split queue needs a writer that chains onto a queue while it is
dropped, which two writers of one tab give; larger tabs are covered by the proof. A second tab is enough to
hold or free the lock.
`WriterAdmissions`: one table, because chains of different tables share nothing but the publications,
and two folds make two of those. `CompactionController`: tables share only the idle timer; `MaxCommits`
= 2 with a check every second commit reaches a commit during a run, a check and a backoff; `MaxChecks`
makes a further check wait instead of dropping it. `CollectionController`: `DebtLimit` 2 with two
writers lets one pass, one be refused and both race a manual pass. `LeaderLog`: `MaxWork` counts
operations and checkpoints together, `MaxTrouble` refusals, shutdowns, dead tabs and power losses together; four
and two reach a lease frame inside a checkpoint followed by a crash and a crash during the recovery
that follows. `MaxCommits`, `MaxPasses`, `MaxYields` and `MaxBackOffs` bound otherwise unbounded
counters.

`ServedRequests`: `MaxTerms` 2 gives every request a first leader and a successor, which is where the
three memories can disagree; a third leadership is finding 2. One timeout and one tick are enough to
send a request twice to one leader and to forget it by age; a second timeout is the observation on
refusals in section 4. Only the tabs named in `Crowded`, `Mortal`
and `Closing` fill up, die and close. `Transactions`: versions go up to three (a genesis, two commits),
the clock to two ticks with a life of two, so that a record can lapse once; the two writers meet before
anything lapses (`MeetNow`), either of them alone and the reader with the folding writer see the whole
clock, the reader and the deferred writer do not meet; one request at a time is on its way unawaited
(`MaxLate`). `ExtentSpace`: two-unit extents are built before the first publish; two writers are under
way together up to the end of the first publish of the first opening, without a pin and in a space that has not
failed; an append, a seal or a relocation of one of them may fail and be aborted beside the other;
failures happen while nothing is pinned and another opening can follow; one call of `free` is in flight
at a time. Three publishes overwrite each slot once and one of them twice, which is what it takes for
space dropped by the first to come free and be written again.

`LiveQueries`: one of three casts comes. Two result subscribers share a group, two observers (one with
`suppressUnchanged`) share another, and one of each make two groups of one sweep; result subscribers and
observers of one statement are kept apart, because of the last of the observations on live queries. The
statements read different tables before and after the schema change, and one kind of commit never shows. Two
events (commits, schema changes, failed calls) are enough for a commit during a sweep that fails, a patch on
top of a patch with a throwing callback between them, or a commit on either side of a schema change. At most
one callback of a sweep throws, at any delivery, and none while an aborted sweep flushes what it has deferred
(`engine/live.ts:1278`).

Fairness is weak fairness of what the platform runs by itself: reactions of settled promises, timers,
answers of the store, grants of a free lock. A callback is assumed to end only in a tab that has not
stopped (`Stopped`), nothing is assumed of another tab's turn in `WriterAdmissions`, and nobody is
assumed to ask for another commit, write or fold. `LiveQueries` assumes that the host answers and that hints
do not stop coming, which `pollIntervalMs`, or commits of the same database, provide; no single hint is relied
on. `LeaderLog`, `ServedRequests`, `Transactions` and
`ExtentSpace` state safety only and assume no fairness.

Each property of a passing run has a mutant in `PROJECT.json` under which TLC finds it violated.

## 4. Findings

1. `leader_log_cleanup`: the queued retry of recovery's cleanup truncates the log at the offset of an
   earlier recovery and takes acknowledged frames with it (`storage/opfs/leader.ts:3652`).
2. `served_again`: a tab that refused a mutation, yielded and leads again answers the re-send from the
   refusal it remembers, although the leader in between ran it and the recovered log says so
   (`storage/opfs/store.ts:1306` against the comment at 1120).
3. `extent_space_kill`: a tab killed between the write of a root slot and its flush leaves a root that
   reads as current; the next owner publishes over the only flushed slot, and a power failure in that
   write leaves neither (`next/storage/file-store.ts:104` against `next/storage/contract.ts:57`).

Observations that have no run of their own. Most were found with a property that the module no longer
carries, or that excuses the case:

* A refusal may be untrue without a second term of one tab, too, once a request may time out twice
  (`MaxTimeouts` = 2, `MaxTerms` = 2 in `ServedRequests`). A tab refuses a mutation and its answer comes between a
  timeout and the next dispatch, when nobody waits for it; the request is sent to it again, and it yields while it
  computes the fingerprint of that delivery. After another timeout the request goes to the next leader; then the
  former one answers from the refusal it remembers, with no look at whether it still leads
  (`storage/opfs/store.ts:1306`), its answer settles the call, and the next leader runs the mutation.
* An aborted writer whose `ifAvailable` request is out is refused to its caller and runs afterwards
  (`engine/write-coordinator.ts:261` against the comment at 148). It needs a disposing connection;
  `RefusedNeverRunsUndisposed` shows that nobody else meets it.
* Compaction publications are admitted without a `crossContextSignal` (`engine/writer-admissions.ts:118`),
  so one queued ahead of a disposing connection's writer makes that connection wait for another tab,
  unlike the comment at `engine/write-coordinator.ts:66`. `DisposingAnswered` therefore speaks of
  connections whose tab has no maintenance queued.
* A writer's backoff holds off a quiet table's check while a fold runs, and the fold's success clears the
  backoff; the table then waits for the next commit (`engine/compaction-controller.ts:117` against the
  comments at 37 and 160). `QuietTableRunsUndisturbed` excuses tables that a writer backed off.
* A check that fails is not retried (documented at `engine/database.ts:10127`), and a quiet check that
  arrives after a quiet run's last look is erased with that run
  (`engine/compaction-controller.ts:115`): the exception in `AsksKept`.
* `assist()` writes a debt it read before an await over the reset of a manual pass, and writes are
  refused right after a pass succeeded (`engine/collection-controller.ts:102` against
  `engine/database.ts:19851`).
* Strict logs do hold unflushed frames (results of served mutations, `storage/opfs/leader.ts:1694`), so
  a power loss can leave a hole followed by a frame, which `storage/toolkit/wal.ts:231` says cannot
  happen and recovery refuses. Under strict durability a slot may also be ahead of a rolled-back log;
  the next frame then leaves a gap that every later open refuses.
* `shutdown()` checkpoints an empty log too. When a never-written database is interrupted in its first
  slot, every later open refuses it ("Every OPFS checkpoint copy is corrupt"), although the comment at
  `storage/opfs/leader.ts:6171` says that the torn slot lies beside an intact one and the log. Nothing
  that anybody was promised is lost; `RecoveryOpens` and `ReloadIsIdentity` speak of databases that
  hold something.
* A recovery after a tab died between a slot's write and its flush adopts that slot; the next
  checkpoint tears the only flushed one, and a power loss then takes both. The history variable `soft`
  marks behaviours that rested on bytes no flush covered, and `RecoveryOpens` excuses them.
* A mutation that its dead leader had run is re-sent by the next leader's announcement; when that one
  declines until the budget is spent, or is full, the caller gets `OpfsCoordinationError`
  (`storage/opfs/store.ts:1958`), which `storage/types.ts:3180` says means that no operation was
  admitted. `AnswersTrue` holds that error to its word only for a request that never left its tab.
* The time a request was sent is clamped when it is recorded (`storage/opfs/store.ts:1419`) and compared
  as it came (1359).
* The answer of a `moveLease` that took effect is lost: the snapshot object stays open at its old
  version although no record pins it any more (`transactions/index.ts:258`), and the engine hands the
  object to the next reader of that version (`engine/database.ts:5332`). `PinsHold` excuses leases whose
  last move was not answered.
* `next/storage/extents.ts` says that the tail is returned only while no writer is open; `#releaseTail`
  (`next/storage/space.ts:741`) runs whatever writers are open.
* `audit()` documents that every allocated extent is reachable, held by a writer, waiting, or being released
  (`next/storage/extents.ts:521`). `SpaceAccounted` states that and holds; the code's own audit
  (`next/storage/space.ts:852`) counts less and throws "allocated but unaccounted (a leak)" where the contract
  is kept. It counts a builder by the segments of its reservation (904) and not by `#leftover` (1063, 1167), so
  it misses the target of a relocation that is being copied (1171) and the target that a failed relocation
  left to its builder, in a space that stays open until the writer aborts; and of the releases in flight it
  awaits those of the tail and no `free` of a writer: that of a discard (1017), of an abort (1044), of what a
  seal trimmed or vacated (1191) or of an empty seal (1156). The model has each of these states; nothing is
  leaked in them.
* Live queries. When the last subscriber that makes a group execute closes and a plain observer stays, sweeps
  advance the group's probe and leave its retained result alone (`engine/live.ts:1402` and 1477). A later
  `subscribe()` to the statement is handed that old result with the new probe, and later patches build on it,
  against "missed messages delay a refresh but never produce a stale result" (`engine/database.ts:8772`).
  To see it: `Subscribers = {s1, s2, o1}`, all on `q1`, `Casts = {Subscribers}`, `Observers = {o1}`,
  `Quiet = Maintainable = {}`, `MaxEvents = 1`, `MaxEpoch = 0` violate `DeliveryTrue`.
* While `#executeGroup` waits for its memo (`engine/live.ts:925`) the result is retained already and the
  execution is still in flight; a sweep joins it and settles the group at a newer probe than it was primed
  from. A quiet observer can miss the commits in between. Likewise, a group opened while a sweep reads its
  window may have a newer probe than the sweep, is taken for one that met a manifest reset (1343) and runs from
  the older probe. Both are `adrift`.
* A result subscriber that registers while a patch waits for its memo is handed the new result, then the same
  result again with a row map relative to the one before (`engine/live.ts:1048`, 1078): `MapsFit` fails when
  observers share a maintainable statement with result subscribers.
* A sweep that leaves a group lagging behind its first execution does not tell its plain observers
  (`engine/live.ts:1407`); they hear of the commit at the next hint. A schema change that publishes no manifest
  sends no hint (`engine/database.ts:10045`), so other live queries see it at the next one.

## 5. Proofs

The first part of `AdmissionProofs` proves of `WriteCoordinator`, from `CoordinatorAssumption` (the constants have their types and the
writers are finitely many), for every number of contexts, connections and writers and any set of
contexts with Web Locks: `TypeOK`, `OneWriter`, `OneRequestPerContext`, `LocalFifo`, `QueueNeverSplit`,
and that `Spec` implements `WriterTurn`. Exclusion is not inductive: the head of the chain may enter
because everyone ahead has settled, which depends on how chains are built. `IInv` therefore adds that a
queue object belongs to one context and contains its creator (`QueueInv`), that each queue is a total
order ending in its tail, with each writer's predecessors those of its predecessor (`ChainInv`), that
the waiting counter is the number of queued writers (`WaitingInv`, for which cardinalities are followed
through joins and departures), and that whoever runs holds the Web Lock (`LockInv`). The refinement
uses `IInv` to show that a turn starts only when no writer of its group is inside one. For
`RefusedNeverRunsUndisposed`, `Refusals` follows, per writer, what its caller was told against the stage of its
operation, and shows that a refusal of an operation that may still run needs a disposing connection.

`CollectionControllerProofs` proves, from `CollectionAssumption`, for every limit, bound and finite set
of writers and in both modes: `TypeOK`, `RequestHasOwner`, `LeftoverShows`, `DrainedIsQuiet` and
`DebtBounded`. The first group needs `Closing` (a stopped controller arms nothing, and a request it
still holds belongs to what drain joins) and `Disabled`. The bound on the debt needs an invariant over
the writers that passed `assist()`, the values they captured before an await, and the commits that
never assisted.

`CompactionControllerProofs` proves, from `ControllerAssumption`, for any tables, limits and bounds:
`TypeOK`, `AsksKept` and `DrainedIsQuiet`. `AsksKept` is kept by each step with the types alone, the exception
it states included. Quiescence needs `TimersHeld` (the timers that can fire are those that `#backoff`
holds on to, so that clearing the map clears them all) and `Closing` (a stopped controller sets nothing up,
and each of drain's waits is over when it is passed).

The second part of `AdmissionProofs` proves of `WriterAdmissions`, from `AdmissionsAssumption`, for any writers,
folds and reads: `AdmissionsTypeOK`, `AttemptOnceInsideTurn`, `ReadersNotStranded` and `ClosedIsQuiet`. The invariant has `Turns` (who is
inside a turn against the state of the turn), `Attempts` (a publication has one of: a pending entry, a
claim, an attempt under way, an outcome), `Steps` (the table's chain is in order and its last link is the
newest step that is not over) and `Closing`.

`TransactionsProofs` proves, from `RecordCoreAssumption` and
`TransactionsAssumption`, for any transactions, readers and artifacts, any bound on versions and time, and
whichever holders may lose requests and answers: `TypeOK`, `ReadableComplete`, `NoLostUpdate`, `WitnessKept`,
`SettledIsFinal`, `PinsHold`, and that `Spec` implements `TransactionOutcome`. The argument has four layers.
`StoreInv`: the current version is the last readable one, nothing is listed by a version that is not there,
and a committed record names the version that lists its artifact. `Pins`: the store removes nothing that an
unexpired record pins, which compares the collection job's roots and cutoff with every record
(`RecordsPin`, `LeasesPin`, `CutoffPast`). `Protocol`: per transaction, the client's object, the requests of
it still on their way, whether it is published and its record agree: one attempt, a closed record stays
closed, and whoever may yet be published is told "in doubt" and not more. It gives the refinement. `Ownership`:
the lease a client renews is the one its record names, until an answer is lost. The four are needed together
because a late request may reach the store after everything its caller knows is over.

`ExtentSpaceProofs` proves, from `ExtentSpaceAssumption` and `AbsenceAssumption`, for a space of any size, any
writers, pins and bounds on publishes and openings: `TypeOK`, `KeptRootsIntact`, `ResolvedSurvives`,
`PinnedIntact`, `NothingWaitsInVain` and `SpaceAccounted`, of `Spec`, through kills and power failures (`KillSpec`, of
finding 3, refutes `ResolvedSurvives`). The invariant gives each allocated unit one holder: the current root,
an entry of the reclaim ledger, a call of `free`, or a writer (`Apart`, `Covered`, `Retirement`). Roots stay readable because
what the previous root and each pinned root reach is in the current root or in a ledger entry that cannot
come free yet (`Readable`, with the order of the ledger in `Ledger`), and because no writer holds it. `Durable` and
`Remembered` tie the two slots to the memory of the process, before, during and after a publish; `Written` says
what a writer's units carry while it builds, seals and copies a relocation (its target belongs to it from the
plan on, and is apart from its reservation); `Forgotten` that a closed space starts anew.

`ServedRequestsProofs` proves, from `ServedRequestsAssumption` (the constants have their types and the
requests are finitely many), for any tabs and requests, any number of leaderships, timeouts and ticks, and
whichever tabs are crowded, die or close: `TypeOK`, `AtMostOnce`, that two tabs never lead together, and of
`AnswersTrue` what it says of "ok" and of requests that never left their tab. That a mutation ran at most
once is not inductive, because a tab that leads next knows of it only what it can read. `Once` therefore says where the
knowledge is: the log of the last term holds the request or has forgotten everything as old as it (`AnswersFor`, which
every later log inherits), or the requester led and ran it itself, was told, and no delivery of the request can still be looked
at by a leader (`Reaches`; this is where the order of messages and elections matters). A turn of the present leader has
not run. Around it, `Leads` ties leading tabs to the last term and to the handles, `Calls` orders the dispatch loop, `Mail` and
`Work` say whose requests the messages, deliveries and turns of a tab are and that no request has two turns, and `Truth` that
whatever a log, a memory or a caller takes for done was executed. What `AnswersTrue` says of
"refused" is false with a third leadership (finding 2) and with a second timeout of one request (section 4). It holds in the run,
which has two leaderships and one timeout, and is no theorem.

`LeaderLogProofs` proves, from `LogAssumption`, of `Spec`, for both durabilities and any number of operations,
checkpoints, refusals, dead tabs and power losses: `TypeOK`, `AckedSurvive`, `HistoryIntact`, `RecoveryOpens` and `ReloadIsIdentity`
(`SpecWithDebt`, of finding 1, refutes `AckedSurvive`). Every operation has a line: the operations it was applied to, then itself
(`Line`). The invariant says of the files, written and flushed, until a recovery refuses them:

* `OneLine`: frames name their place on their operation's line, a later frame continues an earlier one, and no
  checkpoint slot contradicts a frame or another slot. So whatever recovery puts together is a history.
* `Sworn`: no file contradicts an operation that was promised.
* `Surpassed`: what was flushed to a slot is covered by a slot that stands now, and under strict durability so is
  each flushed frame, unless the log still has it.
* `Durable`, the heart of it: under strict durability an acknowledgement names every promised operation, so a recovery that
  finds fewer refuses (`Acked`); under relaxed durability, what a checkpoint kept is either acknowledged or in a
  flushed part of the log before any hole (`Backed`), and what was reported done since is on the disk as long as the
  device keeps its power (`OnDisk`).
* `Memory`: while a leader serves, its core continues everything on the disk and everything promised.
* `Operation` and `Checkpoint`: what holds between the steps of an operation and of a checkpoint; in particular that the log is
  reset only after the acknowledgement of everything it held was flushed.

`RecoveryOpens` and `ReloadIsIdentity` say more than that: the files are ones that recovery opens, and they describe the memory
exactly. Two more invariants, each inductive on top of the ones before it, say so; `soft` is as in section 4. The first (`Same`,
until a recovery refuses `Reloads`) is about the memory and the slots:

* `Serves`: the acknowledgements of a leader that is not poisoned are whole, the later one is the one in its memory, and,
  unless `soft`, the last frame of its log (when it is empty, the slot it last completed, `Floor`) is where its core ends.
* `Twins` (unless `soft`): the newest slot is flushed, and the other one, as written and as flushed, is its mirror or one
  generation from it, and then the core of the later generation is the longer one.
* `Even` (unless `soft`): a log that has a frame which a slot covers has all of them, where a power loss cannot take one
  (`Led`, `LedFlushed`); a strict log without frames has both slots at one place. Otherwise a recovery from the other slot
  would skip frames, or find none and refuse.
* `Generations`, `Intact` and `Stamps`: what a checkpoint in progress will write, that no served operation lost its
  payload, and that each acknowledgement is in the slot of its parity.

The second (`Owes`, of `Opens` and `RecoveryOpens`) goes through the reasons that recovery has to refuse. Every part of
`Readied` holds unless `soft`, whichever of the slots, written or flushed, a recovery will start from (`Bases`):

* `Linked`: the frames before any hole, in the log as written and as flushed, follow one another, each behind its own
  pieces, and the first leaves no gap after any of these slots.
* `Tailed` and `Staged`: only the last cell can be short, a strict log has no hole, and its pieces are flushed.
* `Named`: an acknowledgement of more than some slot has names a frame, and that frame is where no power loss takes it.
* `Level`: a relaxed log of which a power loss may leave nothing has its slots at one place.
* `Paid`, `Later` and `Synced` hold always: no slot has an operation whose payload is unflushed or lost, a flushed
  acknowledgement is no later than the written one, and a frame is acknowledged after the flush of the whole log.

So an idle leader that reloads is not refused, and comes to its own core and offset.

A power loss takes any mixture of pages. The proof shows that what is left still lies on one line and that recovery (`Valid`, `Base`,
`Replayed`, `RecoveredCore`), whenever it does not refuse, returns at least what `Durable` counted.

`LiveQueriesProofs` proves, from `LiveQueriesAssumption` and `NoneAssumption`, for any statements, tables,
subscribers and schema and any number of commits, schema changes and failures: `DeliveryTrue` and `MapsFit`,
under `OneKind`, which says that no statement is both subscribed to and observed. Without it both are false: the
observations on live queries in section 4 are its counterexamples. The casts of the run satisfy it. The invariant speaks of the
moments of a history (`Moment`), of a result as what some moment since a probe gives (`Mirrors`), and of a
window without a commit that the statement shows (`Carries`). Per group that somebody subscribes to, `Knows` says
what its result shows at its probe, `Executes` what the execution in flight was primed from, with `Continues` for
a patch, which must begin at the moment that the result it patches shows, and `Keeps` from which moment the
next window may begin: the last sweep's probe unless the group lags, and the present sweep's once it was
passed. That a sweep may fail between two groups and leave some of them behind is why `Keeps` compares three
probes. `Delivers` follows, per subscriber, the number of the delivery it saw against the one of its group and the
deliveries that wait for the end of the sweep; `MapsFit` follows from it.

Only model-checked: liveness (`TurnComes`, `DisposingAnswered`, `LendEnds`, `CloseCompletes`,
`QuietTableRunsUndisturbed`, `BurstCollected`, `CommitsArrive`), which needs fairness and is outside what the prover
does; refusals in `AnswersTrue`, within the bounds of the run. Every other property of the passing runs is a theorem. Statements that are both subscribed to and observed
are neither proved nor checked: section 4 says what goes wrong there.

## 6. Plan

Next: `OwnerPresence` (departure and exclusive
creation), `OwnerSessions` (election, broker and reconnect of the next engine), the buffered writer.

## 7. Not modelled

The query engine, planner, vectors, SQL functions and codecs are pure computation over data, covered
by the repository's differential and property tests; they are most of the implementation's lines. File
and path handling is I/O. The site, scripts and integration packages have no protocol of their own. The
IndexedDB store repeats the record core's operations inside transactions whose atomicity the browser
gives. The parts in the plan are listed in `PROJECT.json` with their hazards, which name the lines where
the properties are needed.
