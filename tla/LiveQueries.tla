---------------------------- MODULE LiveQueries ----------------------------
(***************************************************************************)
(* LiveQuerySet of engine/live.ts: groups of equal statements, the sweeps  *)
(* that hints start, and what subscribers are handed.                      *)
(*                                                                         *)
(* A moment of the store is what a probe reads, the manifest version and   *)
(* the schema epoch.  A result is what it shows: the tables behind it and  *)
(* the commits whose rows are in it.  The host (engine/database.ts) is     *)
(* external: an execution primed from a probe shows some moment not older, *)
(* and a patch adds the rows of its window.                                *)
(*                                                                         *)
(* Probes are answered in the order they are asked for, so reading one and *)
(* what the set does with it up to its next call of the host are one step. *)
(* An await of a promise that is already settled is no gap.                *)
(***************************************************************************)
EXTENDS Integers, Sequences, FiniteSets

CONSTANTS
    Queries, Tables, Subscribers,
    Changes,        \* the commits that may come: a table, and whether its rows show in results
    QueryOf,        \* [Subscribers -> Queries]
    Casts,          \* the sets of subscribers of which one comes
    Observers,      \* those that observe(); the others subscribe()
    Quiet,          \* the observers with suppressUnchanged
    Maintainable,   \* the statements whose results the host can patch
    Reads,          \* [0 .. MaxEpoch -> [Queries -> SUBSET Tables]], through views
    MaxEpoch,       \* bound: changes of the schema
    MaxEvents,      \* bound: commits, changes of the schema and failed calls
    None

ASSUME LiveQueriesAssumption ==
    /\ QueryOf \in [Subscribers -> Queries] /\ Casts \subseteq SUBSET Subscribers
    /\ Quiet \subseteq Observers /\ Observers \subseteq Subscribers
    /\ Maintainable \subseteq Queries /\ Changes \subseteq [table : Tables, shows : BOOLEAN]
    /\ MaxEpoch \in Nat /\ MaxEvents \in Nat
    /\ Reads \in [0 .. MaxEpoch -> [Queries -> SUBSET Tables]]

\* A moment, a result with its tables and the commits it shows, an execution, a group.
Probes == [version : Nat, epoch : Nat]
Results == [tables : SUBSET Tables, rows : SUBSET Nat]
Executions == [phase : {"running", "patching", "memo"}, probe : Probes, after : Nat,
               base : Results \cup {None}, changed : BOOLEAN]
Groups == [dependencies : SUBSET Tables, seenProbe : Probes, result : Results \cup {None},
           maintained : BOOLEAN, execution : Executions \cup {None}, deliveries : Nat, adrift : BOOLEAN]

ASSUME NoneAssumption == None \notin Queries \cup Probes \cup Results \cup Executions \cup Groups

VARIABLES
    history,      \* the commits: the table, whether its rows show, the epoch
    epoch,        \* the schema epoch
    groups,       \* #groups: query -> None or its group
    opening,      \* #opening: query -> None or the probe its tables are resolved from
    lagging,      \* #lagging
    lastProbe,    \* #lastProbe, or None
    sweepQueued, retryTimer,
    sweep,        \* the sweep that runs, if one does
    sub,          \* subscriber -> how far it is
    got,          \* history: subscriber -> what it was handed last
    missed,       \* history: the subscribers whose callback threw on the last delivery
    faults        \* the failures so far

storeVars == <<history, epoch>>
hintVars == <<sweepQueued, retryTimer>>
vars == <<storeVars, groups, opening, lagging, lastProbe, hintVars, sweep, sub, got, missed, faults>>

-----------------------------------------------------------------------------
(***************************************************************************)
(* The store.                                                              *)
(***************************************************************************)
Now == [version |-> Len(history), epoch |-> epoch]

\* The moments the store has been through since a probe.
MomentsSince(probe) ==
    {m \in [version : probe.version .. Len(history), epoch : probe.epoch .. epoch] :
        /\ m.version # 0 => history[m.version].epoch <= m.epoch
        /\ m.version # Len(history) => m.epoch <= history[m.version + 1].epoch}

\* The commits in (after, until] that show in what is read from these tables.
Rows(tables, after, until) ==
    {v \in after + 1 .. until : history[v].shows /\ history[v].table \in tables}

Answer(q, m) == [tables |-> Reads[m.epoch][q], rows |-> Rows(Reads[m.epoch][q], 0, m.version)]

\* Mutant: the window leaves out the commit it ends with.
ChangedTablesBefore(after, until) == {history[v].table : v \in after + 1 .. until - 1}

\* #changedTablesSince, without a gap in the history.
ChangedTables(after, until) == {history[v].table : v \in after + 1 .. until}

Eventful == Len(history) + epoch + faults < MaxEvents

Commit(c) ==
    /\ Eventful
    /\ history' = Append(history, [table |-> c.table, shows |-> c.shows, epoch |-> epoch])
    /\ UNCHANGED <<epoch, groups, opening, lagging, lastProbe, hintVars, sweep, sub, got, missed, faults>>

\* A schema change that publishes no manifest, the redefinition of a view for example.
Alter ==
    /\ epoch < MaxEpoch /\ Eventful
    /\ epoch' = epoch + 1
    /\ UNCHANGED <<history, groups, opening, lagging, lastProbe, hintVars, sweep, sub, got, missed, faults>>

-----------------------------------------------------------------------------
(***************************************************************************)
(* Groups, subscribers and probes.                                         *)
(***************************************************************************)
CatalogChangedBetween(previous, current) ==
    current.version < previous.version \/ current.epoch # previous.epoch

Older(left, right) == left.version < right.version \/ left.epoch < right.epoch

NewerProbe(left, right) == IF right.version > left.version THEN right ELSE left

Attached == {"installed", "executing", "refreshing", "live"}
In(subs, q) == {s \in Subscribers : QueryOf[s] = q /\ subs[s].pc \in Attached}
Open == {q \in Queries : groups[q] # None}

\* Wants rows, or silence unless rows changed.
Wants(s) == s \notin Observers \/ s \in Quiet

GroupExecutes(q) == \E s \in In(sub, q) : Wants(s)
GroupMemoizes(q, changed) == \E s \in In(sub, q) \cap Observers : changed \/ s \notin Quiet

\* adrift is history: a sweep settled the group at its probe by joining an execution that was primed
\* before, or runs it from a probe older than the one it was opened at.
NewGroup(tables, probe) ==
    [dependencies |-> tables, seenProbe |-> probe, result |-> None, maintained |-> FALSE,
     execution |-> None, deliveries |-> 0, adrift |-> FALSE]

\* An execution: running from a probe, patching the window (after, until], or publishing a memo.
Running(probe) == [phase |-> "running", probe |-> probe, after |-> 0, base |-> None, changed |-> FALSE]
Patching(probe, after) == [Running(probe) EXCEPT !.phase = "patching", !.after = after]

IdleSweep == [pc |-> "idle", last |-> None, current |-> None, todo |-> {}, at |-> None,
              before |-> None, pending |-> {}]

NewSubscriber == [pc |-> "new", fresh |-> FALSE, delivered |-> FALSE, seenDelivery |-> -1, behind |-> "none"]
Gone == [NewSubscriber EXCEPT !.pc = "closed"]
NothingYet == [result |-> None, told |-> None, adrift |-> FALSE, reflects |-> TRUE, fits |-> TRUE]

\* What a delivery is to its receiver: a result that reflects the probe it comes with or not, with
\* a row map relative to what the receiver has or not.  An observer reads for itself when told.
Reflects(q, result, probe) == \E m \in MomentsSince(probe) : result = Answer(q, m)

Receipt(s, result, probe, base, have) ==
    IF s \in Observers THEN [NothingYet EXCEPT !.told = Now]
    ELSE [result |-> result, told |-> None, adrift |-> groups[QueryOf[s]].adrift,
          reflects |-> Reflects(QueryOf[s], result, probe), fits |-> base \in {None, have.result}]

Init ==
    /\ history = <<>> /\ epoch = 0
    /\ groups = [q \in Queries |-> None] /\ opening = [q \in Queries |-> None]
    /\ lagging = {} /\ lastProbe = None
    /\ sweepQueued = FALSE /\ retryTimer = FALSE
    /\ sweep = IdleSweep
    /\ \E cast \in Casts : sub = [s \in Subscribers |-> IF s \in cast THEN NewSubscriber ELSE Gone]
    /\ got = [s \in Subscribers |-> NothingYet]
    /\ missed = {} /\ faults = 0

Fault == Eventful /\ faults' = faults + 1

\* #hint: nothing is queued beside a queued sweep or past the retry timer.
Hinted == sweepQueued \/ ~retryTimer

\* A local commit, a message of another tab, the poll timer: any of them, at any time.
Hint ==
    /\ Open # {} /\ ~sweepQueued /\ ~retryTimer /\ sweepQueued' = TRUE
    /\ UNCHANGED <<storeVars, groups, opening, lagging, lastProbe, retryTimer, sweep, sub, got, missed, faults>>

\* #retrySweep's timer fires, and hints.
RetryFires ==
    /\ retryTimer /\ retryTimer' = FALSE /\ sweepQueued' = TRUE
    /\ UNCHANGED <<storeVars, groups, opening, lagging, lastProbe, sweep, sub, got, missed, faults>>

-----------------------------------------------------------------------------
(***************************************************************************)
(* Registration.                                                           *)
(***************************************************************************)
\* The last step of #register, from record d: the initial delivery, unless a sweep delivered before.
Registered(s, d, g) ==
    [d EXCEPT !.pc = "live", !.fresh = FALSE, !.delivered = TRUE, !.behind = "none",
              !.seenDelivery = IF d.delivered \/ s \in Observers THEN @ ELSE g.deliveries]
Handed(s, d, g, have) ==
    IF d.delivered THEN have ELSE Receipt(s, g.result, g.seenProbe, None, have)

\* #settleGroup once the result is there: on to the delivery, or through refresh() first, which
\* waits for the sweep it queued, or for the one that runs while hints are held back.
Reconciles(s) == ~sub[s].fresh \/ QueryOf[s] \in lagging
AtOnce(s) == ~Reconciles(s) \/ (~Hinted /\ sweep.pc = "idle")
Refreshing(s) == [sub[s] EXCEPT !.pc = "refreshing", !.behind = IF Hinted THEN "queued" ELSE "running"]

\* The subscribers S go on; gs are the groups they find.
GoOn(S, gs) ==
    /\ sub' = [s \in Subscribers |-> IF s \notin S THEN sub[s]
                                     ELSE IF AtOnce(s) THEN Registered(s, sub[s], gs[QueryOf[s]])
                                     ELSE Refreshing(s)]
    /\ got' = [s \in Subscribers |-> IF s \in S /\ AtOnce(s) THEN Handed(s, sub[s], gs[QueryOf[s]], got[s])
                                     ELSE got[s]]
    /\ sweepQueued' = IF \E s \in S : Reconciles(s) THEN Hinted ELSE sweepQueued

\* #getOrOpenGroup: an open group, one that is opening, or a new one.
Subscribe(s) ==
    LET q == QueryOf[s] IN
    /\ sub[s].pc = "new"
    /\ \/ groups[q] # None /\ sub' = [sub EXCEPT ![s].pc = "installed"] /\ UNCHANGED opening
       \/ groups[q] = None /\ opening[q] # None /\ sub' = [sub EXCEPT ![s].pc = "joining"] /\ UNCHANGED opening
       \/ /\ groups[q] = None /\ opening[q] = None /\ opening' = [opening EXCEPT ![q] = Now]
          /\ sub' = [sub EXCEPT ![s].pc = "joining", ![s].fresh = TRUE]
    /\ UNCHANGED <<storeVars, groups, lagging, lastProbe, hintVars, sweep, got, missed, faults>>

\* #stableDependencies reads its second probe: the tables, resolved at epoch e, stand unless the
\* catalog moved.
Stable(before) == ~CatalogChangedBetween(before, Now)

OpenGroup(q) ==
    /\ opening[q] # None
    /\ IF Stable(opening[q])
       THEN /\ opening' = [opening EXCEPT ![q] = None]
            /\ \E e \in opening[q].epoch .. epoch : groups' = [groups EXCEPT ![q] = NewGroup(Reads[e][q], Now)]
            /\ lastProbe' = IF lastProbe = None THEN Now ELSE lastProbe
            /\ lagging' = IF lastProbe # None /\ CatalogChangedBetween(lastProbe, Now)
                          THEN lagging \cup {q} ELSE lagging
            /\ sub' = [s \in Subscribers |-> IF QueryOf[s] = q /\ sub[s].pc = "joining"
                                             THEN [sub[s] EXCEPT !.pc = "installed"] ELSE sub[s]]
       ELSE /\ opening' = [opening EXCEPT ![q] = Now]
            /\ UNCHANGED <<groups, lagging, lastProbe, sub>>
    /\ UNCHANGED <<storeVars, hintVars, sweep, got, missed, faults>>

OpenFails(q) ==
    /\ opening[q] # None /\ Fault
    /\ opening' = [opening EXCEPT ![q] = None]
    /\ sub' = [s \in Subscribers |-> IF QueryOf[s] = q /\ sub[s].pc = "joining"
                                     THEN [sub[s] EXCEPT !.pc = "closed"] ELSE sub[s]]
    /\ UNCHANGED <<storeVars, groups, lagging, lastProbe, hintVars, sweep, got, missed>>

\* The key baseline is there: #settleGroup begins, and shares an execution that runs already.
Settle(s) ==
    LET q == QueryOf[s]  g == groups[q] IN
    /\ sub[s].pc = "installed"
    /\ IF Wants(s) /\ g.result = None
       THEN /\ sub' = [sub EXCEPT ![s].pc = "executing"]
            /\ groups' = IF g.execution # None THEN groups
                         ELSE [groups EXCEPT ![q].execution = Running(g.seenProbe)]
            /\ UNCHANGED <<sweepQueued, got>>
       ELSE GoOn({s}, groups) /\ UNCHANGED groups
    /\ UNCHANGED <<storeVars, opening, lagging, lastProbe, retryTimer, sweep, missed, faults>>

\* A subscriber is gone, and with the last one the group (#removeEmptyGroup): what a sweep had of
\* it is void.
Drop(S) == [s \in Subscribers |-> IF s \in S THEN Gone ELSE sub[s]]
Forget(S) == [s \in Subscribers |-> IF s \in S THEN NothingYet ELSE got[s]]
Empty(q, subs) == In(subs, q) = {}
Without(q) == IF sweep.at # q THEN [sweep EXCEPT !.todo = @ \ {q}]
              ELSE [sweep EXCEPT !.pc = "next", !.at = None, !.before = None]

Unsubscribe(s) ==
    LET q == QueryOf[s] IN
    /\ sub[s].pc = "live"
    /\ sub' = Drop({s}) /\ got' = Forget({s}) /\ missed' = missed \ {s}
    /\ IF Empty(q, sub')
       THEN /\ groups' = [groups EXCEPT ![q] = None]
            /\ lagging' = lagging \ {q} /\ sweep' = Without(q)
       ELSE UNCHANGED <<groups, lagging, sweep>>
    /\ UNCHANGED <<storeVars, opening, lastProbe, hintVars, faults>>

\* close(): every subscription completes, and whatever is under way finds the set closed.
Close ==
    /\ Open # {}
    /\ groups' = [q \in Queries |-> None] /\ opening' = [q \in Queries |-> None]
    /\ lagging' = {} /\ sweep' = IdleSweep /\ sweepQueued' = FALSE /\ retryTimer' = FALSE
    /\ sub' = Drop(Subscribers) /\ got' = Forget(Subscribers) /\ missed' = {}
    /\ UNCHANGED <<storeVars, lastProbe, faults>>

-----------------------------------------------------------------------------
(***************************************************************************)
(* A sweep.                                                                *)
(***************************************************************************)
\* What the end of a sweep leaves of subscribers: its deliveries go out, except to those in
\* Thrown, whose callback throws; then the registrations that waited for it finish.
Pending(s) == \E d \in sweep.pending : d.to = s
Delivery(s) == CHOOSE d \in sweep.pending : d.to = s

\* The row map of a patch is passed on only to one that has the result before it.
Consecutive(s) == sub[s].seenDelivery = groups[QueryOf[s]].deliveries - 1

\* Mutant: a delivery counts as received before the callback returns.
DeliveredEarly(subs, thrown, s) ==
    IF ~Pending(s) \/ subs[s].pc = "closed" THEN subs[s]
    ELSE [subs[s] EXCEPT !.delivered = TRUE,
                         !.seenDelivery = IF s \in Observers THEN @ ELSE groups[QueryOf[s]].deliveries]

Delivered(subs, thrown, s) ==
    IF ~Pending(s) \/ subs[s].pc = "closed" THEN subs[s]
    ELSE [subs[s] EXCEPT !.delivered = TRUE,
                         !.seenDelivery = IF s \in thrown \cup Observers THEN @ ELSE groups[QueryOf[s]].deliveries]

Received(subs, thrown, s) ==
    IF ~Pending(s) \/ subs[s].pc = "closed" \/ s \in thrown THEN got[s]
    ELSE Receipt(s, Delivery(s).result, sweep.current, IF Consecutive(s) THEN Delivery(s).base ELSE None, got[s])

Waited(d) == d.pc = "refreshing" /\ d.behind = "running"

EndOfSweep(subs, gs, thrown) ==
    LET d == [s \in Subscribers |-> Delivered(subs, thrown, s)]
        r == [s \in Subscribers |-> Received(subs, thrown, s)] IN
    /\ sub' = [s \in Subscribers |-> IF Waited(d[s]) THEN Registered(s, d[s], gs[QueryOf[s]]) ELSE d[s]]
    /\ got' = [s \in Subscribers |-> IF Waited(d[s]) THEN Handed(s, d[s], gs[QueryOf[s]], r[s]) ELSE r[s]]
    /\ missed' = (missed \ {s \in Subscribers : Pending(s)}) \cup thrown
    /\ sweep' = IdleSweep

\* A sweep that throws flushes what it settled; a coordination error sets the retry timer.
Abort(subs, gs, coordination) ==
    /\ EndOfSweep(subs, gs, {})
    /\ retryTimer' = (coordination /\ \E q \in Queries : gs[q] # None)

\* The callback of #hint: the probe is read, and unless a window of commits must be read for it
\* (#sweepCandidates) the candidates are known at once.
StartSweep ==
    LET joined == [s \in Subscribers |-> IF sub[s].behind = "queued" THEN [sub[s] EXCEPT !.behind = "running"]
                                         ELSE sub[s]]
        begun == [IdleSweep EXCEPT !.last = lastProbe, !.current = Now]
        nothing == retryTimer \/ Open = {} \/ (lastProbe = Now /\ lagging = {}) IN
    /\ sweepQueued /\ sweep.pc = "idle"
    /\ sweepQueued' = FALSE
    /\ \/ nothing /\ EndOfSweep(joined, groups, {}) /\ UNCHANGED <<retryTimer, faults>>
       \/ /\ ~nothing
          /\ sweep' = IF CatalogChangedBetween(lastProbe, Now) THEN [begun EXCEPT !.pc = "next", !.todo = Open]
                      ELSE IF lastProbe = Now THEN [begun EXCEPT !.pc = "next", !.todo = lagging]
                      ELSE [begun EXCEPT !.pc = "planning"]
          /\ sub' = joined /\ UNCHANGED <<got, missed, retryTimer, faults>>
       \/ /\ ~retryTimer /\ Open # {} /\ Fault
          /\ \E coordination \in BOOLEAN : Abort(joined, groups, coordination)
    /\ UNCHANGED <<storeVars, groups, opening, lagging, lastProbe>>

\* The window since the last sweep is read; a gap in the history widens it to everything.
Plan ==
    \E gap \in BOOLEAN :
        LET changed == ChangedTables(sweep.last.version, sweep.current.version) IN
        /\ sweep.pc = "planning"
        /\ sweep' = [sweep EXCEPT !.pc = "next",
                                  !.todo = {q \in Open : \/ gap \/ q \in lagging
                                                         \/ groups[q].dependencies \cap changed # {}}]
        /\ UNCHANGED <<storeVars, groups, opening, lagging, lastProbe, hintVars, sub, got, missed, faults>>

\* Mutant: the window begins at the last sweep for a group that lags behind it, too.
PriorOfSweep(q) == NewerProbe(groups[q].seenProbe, sweep.last)

\* Where the window of a group begins: at the last sweep, unless the group lags behind it.
Prior(q) == IF q \in lagging THEN groups[q].seenProbe ELSE NewerProbe(groups[q].seenProbe, sweep.last)

\* The read of a window (one that begins elsewhere than the sweep's is read anew) or a resolution
\* fails.
SweepFails ==
    /\ \/ sweep.pc \in {"planning", "resolving"}
       \/ sweep.pc = "next" /\ \E q \in sweep.todo : Prior(q).version # sweep.last.version
    /\ Fault
    /\ lagging' = IF sweep.pc = "resolving" THEN lagging \cup {sweep.at} ELSE lagging
    /\ \/ \E coordination \in BOOLEAN : (sweep.pc = "resolving" => coordination) /\ Abort(sub, groups, coordination)
       \/ /\ sweep.pc = "resolving" /\ sweep' = [sweep EXCEPT !.pc = "next", !.at = None, !.before = None]
          /\ UNCHANGED <<sub, got, missed, retryTimer>>
    /\ UNCHANGED <<storeVars, groups, opening, lastProbe, sweepQueued>>

-----------------------------------------------------------------------------
(***************************************************************************)
(* One group of a sweep.                                                   *)
(***************************************************************************)
\* The deliveries a visit defers to the end of the sweep.
Notices(q, executed, changed, result, base) ==
    {[to |-> s, result |-> IF s \in Observers THEN None ELSE result, base |-> base] :
        s \in {s \in In(sub, q) : IF s \in Observers THEN ~executed \/ changed \/ s \notin Quiet
                                  ELSE executed /\ changed}}

\* #settleProbe, and on to the next group.
SettleProbe(q, g) ==
    /\ groups' = [groups EXCEPT ![q] = [g EXCEPT !.seenProbe = sweep.current]]
    /\ lagging' = lagging \ {q}
Visited(q, notices) ==
    sweep' = [sweep EXCEPT !.pc = "next", !.at = None, !.before = None, !.todo = @ \ {q},
                              !.pending = @ \cup notices]

\* The rest of #sweepGroup for an affected group: leave it lagging behind its first execution,
\* patch, join the execution in flight, run, or just tell its observers.
Rerun(q, g, patchFrom) ==
    LET wait == sweep' = [sweep EXCEPT !.pc = "waiting", !.at = q, !.before = None, !.todo = @ \ {q}] IN
    IF ~GroupExecutes(q)
    THEN /\ SettleProbe(q, g) /\ Visited(q, Notices(q, FALSE, FALSE, None, None))
    ELSE IF g.result = None /\ g.execution # None
    THEN /\ groups' = [groups EXCEPT ![q] = g] /\ lagging' = lagging \cup {q} /\ Visited(q, {})
    ELSE /\ groups' = [groups EXCEPT ![q] =
                          IF g.execution # None THEN [g EXCEPT !.adrift = TRUE]
                          ELSE IF patchFrom # None /\ g.maintained
                          THEN [g EXCEPT !.execution = Patching(sweep.current, patchFrom.version)]
                          ELSE [g EXCEPT !.execution = Running(sweep.current),
                                         !.adrift = @ \/ Older(sweep.current, g.seenProbe)]]
         /\ wait /\ UNCHANGED lagging

\* #sweepGroup up to an execution or the resolution of the tables.  gap: the history has a hole;
\* proof: the host proves that the window cannot matter (changeCanAffect).  The reads of the window
\* are no gap: only the sweep moves what was looked at before them.
Visit(q) ==
    LET g == groups[q]
        prior == Prior(q)
        window == ChangedTables(prior.version, sweep.current.version)
        relevant == g.dependencies \cap window IN
    /\ sweep.pc = "next" /\ q \in sweep.todo
    /\ \/ /\ g.seenProbe = sweep.current
          /\ lagging' = lagging \ {q} /\ Visited(q, {}) /\ UNCHANGED groups
       \/ /\ g.seenProbe # sweep.current /\ CatalogChangedBetween(prior, sweep.current)
          /\ groups' = [groups EXCEPT ![q].maintained = FALSE]
          /\ sweep' = [sweep EXCEPT !.pc = "resolving", !.at = q, !.before = Now, !.todo = @ \ {q}]
          /\ UNCHANGED lagging
       \/ \E gap, proof \in BOOLEAN :
          /\ g.seenProbe # sweep.current /\ ~CatalogChangedBetween(prior, sweep.current)
          /\ gap => window # {}
          /\ proof => relevant # {} /\ ~gap /\ Rows(relevant, prior.version, sweep.current.version) = {}
          /\ IF proof \/ (~gap /\ relevant = {})
             THEN SettleProbe(q, g) /\ Visited(q, {})
             ELSE Rerun(q, g, IF gap THEN None ELSE prior)
    /\ UNCHANGED <<storeVars, opening, lastProbe, hintVars, sub, got, missed, faults>>

\* #refreshDependencies: the tables resolved at epoch e stand if the catalog kept still.
RefreshDependencies ==
    LET q == sweep.at IN
    /\ sweep.pc = "resolving"
    /\ IF Stable(sweep.before)
       THEN \E e \in sweep.before.epoch .. epoch :
                Rerun(q, [groups[q] EXCEPT !.dependencies = Reads[e][q]], None)
       ELSE sweep' = [sweep EXCEPT !.before = Now] /\ UNCHANGED <<groups, lagging>>
    /\ UNCHANGED <<storeVars, opening, lastProbe, hintVars, sub, got, missed, faults>>

\* Every candidate is visited: the probe advances, and the deliveries go out together.
EndSweep ==
    /\ sweep.pc = "next" /\ sweep.todo = {}
    /\ lastProbe' = sweep.current
    /\ \/ EndOfSweep(sub, groups, {})
       \/ \E s \in Subscribers : Pending(s) /\ sub[s].pc # "closed" /\ EndOfSweep(sub, groups, {s})
    /\ UNCHANGED <<storeVars, groups, opening, lagging, hintVars, faults>>

-----------------------------------------------------------------------------
(***************************************************************************)
(* Executions.                                                             *)
(***************************************************************************)
Awaiting(q) == {s \in Subscribers : QueryOf[s] = q /\ sub[s].pc = "executing"}
SweepAwaits(q) == sweep.pc = "waiting" /\ sweep.at = q

\* The execution of q is over and g is its group: the registrations that wait for it go on, then
\* the sweep that does.
Over(q, g, changed, base) ==
    LET done == [g EXCEPT !.execution = None]
        counted == [done EXCEPT !.deliveries = IF changed THEN @ + 1 ELSE @] IN
    /\ GoOn(Awaiting(q), [groups EXCEPT ![q] = done])
    /\ IF SweepAwaits(q)
       THEN SettleProbe(q, counted) /\ Visited(q, Notices(q, TRUE, changed, g.result, base))
       ELSE groups' = [groups EXCEPT ![q] = done] /\ UNCHANGED <<lagging, sweep>>

\* A result is accepted and retained; a maintained one is published to the memo first where an
\* adapter will ask for it.
Retain(q, result, maintained, base) ==
    LET g == [groups[q] EXCEPT !.result = result, !.maintained = maintained, !.adrift = @ /\ base # None]
        changed == groups[q].result = None \/ groups[q].result # result IN
    /\ IF maintained /\ GroupMemoizes(q, changed)
       THEN /\ groups' = [groups EXCEPT ![q] = [g EXCEPT !.execution.phase = "memo", !.execution.base = base,
                                                         !.execution.changed = changed]]
            /\ UNCHANGED <<lagging, sweep, sub, got, sweepQueued>>
       ELSE Over(q, g, changed, base)
    /\ UNCHANGED <<storeVars, opening, lastProbe, retryTimer, missed, faults>>

Has(q, phase) == groups[q] # None /\ groups[q].execution # None /\ groups[q].execution.phase = phase

ExecutionLands(q) ==
    /\ Has(q, "running")
    /\ \E m \in MomentsSince(groups[q].execution.probe) :
           Retain(q, Answer(q, m), q \in Maintainable, None)

PatchLands(q) ==
    LET g == groups[q] IN
    /\ Has(q, "patching")
    /\ Retain(q, [g.result EXCEPT !.rows = @ \cup Rows(g.result.tables \cap g.dependencies,
                                                      g.execution.after, g.execution.probe.version)],
              TRUE, g.result)

\* The host declines the window, or the patch fails: the full statement answers.
PatchDeclined(q) ==
    /\ Has(q, "patching")
    /\ groups' = [groups EXCEPT ![q].execution = Running(sweep.current)]
    /\ UNCHANGED <<storeVars, opening, lagging, lastProbe, hintVars, sweep, sub, got, missed, faults>>

MemoEnds(q) ==
    /\ Has(q, "memo")
    /\ Over(q, groups[q], groups[q].execution.changed, groups[q].execution.base)
    /\ UNCHANGED <<storeVars, opening, lastProbe, retryTimer, missed, faults>>

\* The registrations that wait for it fail with it; a sweep leaves the group lagging, and goes on
\* unless the error is one of coordination.
ExecutionFails(q) ==
    LET subs == Drop(Awaiting(q))
        gs == [groups EXCEPT ![q] = IF Empty(q, subs) THEN None ELSE [groups[q] EXCEPT !.execution = None]] IN
    /\ Has(q, "running") /\ Fault
    /\ groups' = gs
    /\ lagging' = IF Empty(q, subs) THEN lagging \ {q}
                  ELSE IF SweepAwaits(q) THEN lagging \cup {q} ELSE lagging
    /\ \/ /\ ~SweepAwaits(q) /\ sweep' = IF Empty(q, subs) THEN Without(q) ELSE sweep
          /\ sub' = subs /\ UNCHANGED <<got, missed, retryTimer>>
       \/ SweepAwaits(q) /\ Visited(q, {}) /\ sub' = subs /\ UNCHANGED <<got, missed, retryTimer>>
       \/ SweepAwaits(q) /\ Abort(subs, gs, TRUE)
    /\ UNCHANGED <<storeVars, opening, lastProbe, sweepQueued>>

-----------------------------------------------------------------------------
HostNext ==
    \/ \E c \in Changes : Commit(c)
    \/ Alter \/ Hint \/ RetryFires

RegistrationNext ==
    \/ \E s \in Subscribers : Subscribe(s) \/ Settle(s) \/ Unsubscribe(s)
    \/ \E q \in Queries : OpenGroup(q) \/ OpenFails(q)
    \/ Close

SweepNext ==
    \/ StartSweep \/ Plan \/ SweepFails \/ RefreshDependencies \/ EndSweep
    \/ \E q \in Queries : Visit(q)

ExecutionNext ==
    \E q \in Queries :
        \/ ExecutionLands(q) \/ PatchLands(q) \/ PatchDeclined(q) \/ MemoEnds(q) \/ ExecutionFails(q)

Next == HostNext \/ RegistrationNext \/ SweepNext \/ ExecutionNext

Spec == Init /\ [][Next]_vars

\* Timers fire, the host answers every call, and hints do not stop coming (pollIntervalMs, or a
\* commit of this database).
Fairness ==
    /\ WF_vars(Hint \/ RetryFires)
    /\ WF_vars(StartSweep \/ Plan \/ RefreshDependencies \/ EndSweep \/ \E q \in Queries : Visit(q))
    /\ \A q \in Queries :
          /\ WF_vars(OpenGroup(q))
          /\ WF_vars(ExecutionLands(q) \/ PatchLands(q) \/ PatchDeclined(q) \/ MemoEnds(q))
    /\ \A s \in Subscribers : WF_vars(Settle(s))

FairSpec == Spec /\ Fairness

-----------------------------------------------------------------------------
(***************************************************************************)
(* Properties.                                                             *)
(***************************************************************************)
\* A result that is handed out reflects the probe it is delivered with, or a later moment
\* (LiveQueryDelivery), whatever was patched, shared, retried or left lagging on the way.
DeliveryTrue == \A s \in Subscribers : got[s].reflects \/ got[s].adrift

\* A row map is relative to the result that its receiver has, also after a callback threw, a
\* registration in the middle of a sweep, or an execution that changed nothing (#deliverResult).
MapsFit == \A s \in Subscribers : got[s].fits

UpToDate(s) ==
    LET q == QueryOf[s] IN
    \/ s \in missed \/ groups[q].adrift
    \/ Answer(q, Now) = IF s \in Observers THEN Answer(q, got[s].told) ELSE got[s].result

\* However commits, schema changes, failures and retries fall between the steps of registrations
\* and sweeps, no registration waits for ever, and every subscriber ends up with the current
\* answer, or told of it.
CommitsArrive ==
    <>[](\A s \in Subscribers : /\ sub[s].pc \in {"new", "live", "closed"}
                                /\ sub[s].pc = "live" => UpToDate(s))
=============================================================================
