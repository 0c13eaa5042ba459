------------------------- MODULE CollectionController -------------------------
(***************************************************************************)
(* The scheduling owner of garbage collection                              *)
(* (packages/core/src/engine/collection-controller.ts): one bounded run at *)
(* a time, a run every few commits and one when the tab goes quiet,        *)
(* continuations for a run that left work, retries after a failure, and    *)
(* the debt that makes writers help or be refused.                         *)
(*                                                                         *)
(* A writer's write is assist(), then its turn, then committed(); the turn *)
(* itself is not modelled, so any writers that passed assist may commit.   *)
(* What a run reclaims is reduced to the two flags it returns.  Times are  *)
(* abstracted: a timer that is set may fire at any later moment.           *)
(***************************************************************************)
EXTENDS Naturals, FiniteSets

CONSTANTS Modes,            \* the values the option autoCollect may have
          DebtLimit,        \* collectionDebtLimit
          CommitInterval,   \* AUTO_COLLECT_COMMIT_INTERVAL
          Writers,          \* concurrent writes
          MaxCommits,       \* bound on the commits of a behaviour
          MaxPasses,        \* bound on collectGarbage calls that succeed
          MaxYields         \* bound on continuations overtaken by a later one

ASSUME CollectionAssumption ==
    /\ Modes \subseteq BOOLEAN
    /\ DebtLimit \in Nat \ {0} /\ CommitInterval \in Nat \ {0}
    /\ IsFiniteSet(Writers)
    /\ MaxCommits \in Nat /\ MaxPasses \in Nat /\ MaxYields \in Nat

VARIABLES
    enabled,        \* the port of this name, fixed when the database is opened
    stopped, running, requested, debt, commits,   \* the fields of these names
    initialized,    \* #manualDebtInitialized
    started,        \* #startedAt is set
    retry, idle,    \* #retryTimer and #idleTimer are set
    cont,           \* the promise in #continuation is pending
    older,          \* continuations that a later one replaced, still pending
    writer,         \* writer[w] : where w's call of assist() stands
    captured,       \* captured[w] : #debt as assist read it before its await
    drain,          \* none, task, continuation or done
    made,           \* commits made so far
    passes,         \* manual passes so far
    unassisted,     \* history: commits that no assist() preceded
    leftover        \* history: the last run left work behind, or failed

runVars == <<running, requested, commits, started, retry, leftover>>
timeVars == <<idle, cont, older>>
writerVars == <<writer, captured>>
countVars == <<made, passes, unassisted>>
vars == <<enabled, stopped, debt, initialized, drain, runVars, timeVars,
          writerVars, countVars>>

TypeOK ==
    /\ enabled \in BOOLEAN
    /\ stopped \in BOOLEAN /\ running \in BOOLEAN /\ requested \in BOOLEAN
    /\ debt \in Nat /\ commits \in Nat
    /\ initialized \in BOOLEAN /\ started \in BOOLEAN
    /\ retry \in BOOLEAN /\ idle \in BOOLEAN /\ cont \in BOOLEAN
    /\ older \in 0 .. MaxYields
    /\ writer \in [Writers ->
                    {"out", "reading", "awaiting", "resumed", "passed"}]
    /\ captured \in [Writers -> Nat]
    /\ drain \in {"none", "task", "continuation", "done"}
    /\ made \in 0 .. MaxCommits /\ passes \in 0 .. MaxPasses
    /\ unassisted \in Nat
    /\ leftover \in BOOLEAN

(* The constructor and start(). *)
Init ==
    /\ enabled \in Modes
    /\ stopped = FALSE /\ running = FALSE /\ requested = FALSE
    /\ debt = 0 /\ commits = 0
    /\ initialized = FALSE /\ started = FALSE
    /\ retry = FALSE /\ idle = enabled
    /\ cont = FALSE /\ older = 0
    /\ writer = [w \in Writers |-> "out"]
    /\ captured = [w \in Writers |-> 0]
    /\ drain = "none"
    /\ made = 0 /\ passes = 0 /\ unassisted = 0
    /\ leftover = FALSE
-------------------------------------------------------------------------------
(* Mutant: a trigger that finds a run under way is dropped. *)
ScheduleDropped(force, counted) ==
    IF stopped \/ ~enabled \/ running \/ (retry /\ ~force)
    THEN commits' = counted /\ UNCHANGED <<running, requested, started, retry,
                                           leftover>>
    ELSE /\ running' = TRUE /\ requested' = FALSE /\ retry' = FALSE
         /\ commits' = 0 /\ started' = TRUE /\ leftover' = FALSE

(* schedule: note a request while a run is under way, wait out a retry      *)
(* unless forced, and otherwise start a run.  counted is #commits, which a  *)
(* caller may just have raised.                                             *)
Schedule(force, counted) ==
    IF stopped \/ ~enabled \/ running \/ (retry /\ ~force)
    THEN /\ commits' = counted
         /\ requested' = (requested \/ (~stopped /\ enabled /\ running))
         /\ UNCHANGED <<running, started, retry, leftover>>
    ELSE /\ running' = TRUE /\ requested' = FALSE /\ retry' = FALSE
         /\ commits' = 0 /\ started' = TRUE /\ leftover' = FALSE

ArmIdle == idle' = (idle \/ (~stopped /\ enabled))

(* committed: count, schedule every CommitInterval commits or when the last *)
(* run is long ago, and put the quiet minute off.                           *)
Committed(late) ==
    /\ made < MaxCommits
    /\ made' = made + 1
    /\ debt' = debt + 1
    /\ IF commits + 1 >= CommitInterval \/ (started /\ late)
       THEN Schedule(FALSE, commits + 1)
       ELSE /\ commits' = commits + 1
            /\ UNCHANGED <<running, requested, started, retry, leftover>>
    /\ ArmIdle

(* A write that passed assist() commits. *)
Commit(w, late) ==
    /\ writer[w] = "passed"
    /\ writer' = [writer EXCEPT ![w] = "out"]
    /\ Committed(late)
    /\ UNCHANGED <<enabled, stopped, initialized, drain, cont, older, captured,
                   passes, unassisted>>

(* Its statement publishes nothing after all. *)
GiveUp(w) ==
    /\ writer[w] = "passed"
    /\ writer' = [writer EXCEPT ![w] = "out"]
    /\ UNCHANGED <<enabled, stopped, debt, initialized, drain, runVars,
                   timeVars, captured, countVars>>

(* Catalog changes and maintenance commit without assist(). *)
CommitUnassisted(late) ==
    /\ Committed(late)
    /\ unassisted' = unassisted + 1
    /\ UNCHANGED <<enabled, stopped, initialized, drain, cont, older,
                   writerVars, passes>>

(* A fold of the compaction controller finished: its sources are garbage. *)
FoldFinished ==
    /\ Schedule(FALSE, commits)
    /\ UNCHANGED <<enabled, stopped, debt, initialized, drain, timeVars,
                   writerVars, countVars>>

(* collectedManually, at the end of a successful collectGarbage(). *)
CollectedManually ==
    /\ ~stopped /\ passes < MaxPasses
    /\ passes' = passes + 1
    /\ debt' = 0 /\ initialized' = TRUE /\ commits' = 0
    /\ UNCHANGED <<enabled, stopped, drain, running, requested, started, retry,
                   leftover, timeVars, writerVars, made, unassisted>>
-------------------------------------------------------------------------------
(* What assist() does with d in #debt: pass, refuse, or force a run and     *)
(* await the task, which is none when the controller is stopped.            *)
Judge(w, d) ==
    IF d < DebtLimit
    THEN /\ writer' = [writer EXCEPT ![w] = "passed"]
         /\ UNCHANGED runVars
    ELSE IF ~enabled
         THEN /\ writer' = [writer EXCEPT ![w] = "out"]
              /\ UNCHANGED runVars
         ELSE /\ Schedule(TRUE, commits)
              /\ writer' = [writer EXCEPT ![w] =
                              IF running' THEN "awaiting" ELSE "resumed"]

(* assist: in manual mode the first writers read the durable debt... *)
AssistReads(w) ==
    /\ writer[w] = "out" /\ ~enabled /\ ~initialized
    /\ writer' = [writer EXCEPT ![w] = "reading"]
    /\ captured' = [captured EXCEPT ![w] = debt]
    /\ UNCHANGED <<enabled, stopped, debt, initialized, drain, runVars,
                   timeVars, countVars>>

(* ...and set #debt from it and from the value they read before the await. *)
AssistInitializes(w) ==
    /\ writer[w] = "reading"
    /\ \E durable \in 0 .. DebtLimit :
        LET d == IF captured[w] > durable THEN captured[w] ELSE durable IN
        /\ debt' = d
        /\ Judge(w, d)
    /\ initialized' = TRUE
    /\ captured' = [captured EXCEPT ![w] = 0]
    /\ UNCHANGED <<enabled, stopped, drain, timeVars, countVars>>

AssistReadFails(w) ==
    /\ writer[w] = "reading"
    /\ writer' = [writer EXCEPT ![w] = "out"]
    /\ captured' = [captured EXCEPT ![w] = 0]
    /\ UNCHANGED <<enabled, stopped, debt, initialized, drain, runVars,
                   timeVars, countVars>>

(* assist, when the debt is known. *)
Assist(w) ==
    /\ writer[w] = "out" /\ (enabled \/ initialized)
    /\ Judge(w, debt)
    /\ UNCHANGED <<enabled, stopped, debt, initialized, drain, timeVars,
                   captured, countVars>>

(* Mutant: a writer whose awaited run ended goes ahead. *)
AssistGoesAhead(w) ==
    /\ writer[w] = "resumed"
    /\ writer' = [writer EXCEPT ![w] = "passed"]
    /\ UNCHANGED <<enabled, stopped, debt, initialized, drain, runVars,
                   timeVars, captured, countVars>>

(* The awaited run is over: pass if it settled the debt, else be refused. *)
AssistResumes(w) ==
    /\ writer[w] = "resumed"
    /\ writer' = [writer EXCEPT ![w] =
                    IF debt < DebtLimit THEN "passed" ELSE "out"]
    /\ UNCHANGED <<enabled, stopped, debt, initialized, drain, runVars,
                   timeVars, captured, countVars>>
-------------------------------------------------------------------------------
(* Mutant: the request is kept and no continuation installed. *)
LeaveAlone(ask) ==
    /\ running
    /\ running' = FALSE
    /\ requested' = ask
    /\ writer' = [w \in Writers |->
                    IF writer[w] = "awaiting" THEN "resumed" ELSE writer[w]]
    /\ UNCHANGED <<cont, older>>

(* The run's finally: a request becomes a continuation, which replaces the  *)
(* one before it, and the writers that awaited the run resume.              *)
Leave(ask) ==
    /\ running /\ (ask /\ cont => older < MaxYields)
    /\ running' = FALSE
    /\ requested' = ask
    /\ cont' = (cont \/ ask)
    /\ older' = IF ask /\ cont THEN older + 1 ELSE older
    /\ writer' = [w \in Writers |->
                    IF writer[w] = "awaiting" THEN "resumed" ELSE writer[w]]

(* Mutant: what a run leaves behind waits for the next trigger. *)
RunEndsIdle(moreWork, reclaimed) ==
    /\ Leave(requested)
    /\ debt' = IF reclaimed \/ ~moreWork THEN 0 ELSE debt
    /\ leftover' = moreWork
    /\ UNCHANGED <<enabled, stopped, initialized, drain, commits, started,
                   retry, idle, captured, countVars>>

(* The run resolves.  A pass that reclaimed something kept up with the debt. *)
RunEnds(moreWork, reclaimed) ==
    /\ Leave(requested \/ moreWork)
    /\ debt' = IF reclaimed \/ ~moreWork THEN 0 ELSE debt
    /\ leftover' = moreWork
    /\ UNCHANGED <<enabled, stopped, initialized, drain, commits, started,
                   retry, idle, captured, countVars>>

(* Another connection advanced the job: try again, report nothing. *)
RunConflicts ==
    /\ Leave(TRUE)
    /\ leftover' = TRUE
    /\ UNCHANGED <<enabled, stopped, debt, initialized, drain, commits,
                   started, retry, idle, captured, countVars>>

(* Mutant: a failure that arrives during close arms its retry. *)
RunFailsStopped ==
    /\ Leave(requested)
    /\ leftover' = TRUE
    /\ retry' = TRUE
    /\ UNCHANGED <<enabled, stopped, debt, initialized, drain, commits,
                   started, idle, captured, countVars>>

(* Any other failure is retried behind a growing delay. *)
RunFails ==
    /\ Leave(requested)
    /\ leftover' = TRUE
    /\ retry' = (retry \/ ~stopped)
    /\ UNCHANGED <<enabled, stopped, debt, initialized, drain, commits,
                   started, idle, captured, countVars>>

(* The engine's own shutdown refusal is no failure. *)
RunRefused ==
    /\ stopped
    /\ Leave(requested)
    /\ UNCHANGED <<enabled, stopped, debt, initialized, drain, commits,
                   started, retry, idle, leftover, captured, countVars>>

(* A continuation: forget the request when stopped, leave it to a run that  *)
(* a commit already started, and otherwise schedule.                        *)
ContinueBody ==
    \/ /\ stopped
       /\ requested' = FALSE
       /\ UNCHANGED <<running, commits, started, retry, leftover>>
    \/ ~stopped /\ running /\ UNCHANGED runVars
    \/ ~stopped /\ ~running /\ Schedule(FALSE, commits)

Continue ==
    /\ cont /\ cont' = FALSE
    /\ ContinueBody
    /\ UNCHANGED <<enabled, stopped, debt, initialized, drain, idle, older,
                   writerVars, countVars>>

ContinueOlder ==
    /\ older > 0 /\ older' = older - 1
    /\ ContinueBody
    /\ UNCHANGED <<enabled, stopped, debt, initialized, drain, idle, cont,
                   writerVars, countVars>>

(* The retry timer forces a run. *)
RetryFires ==
    /\ retry
    /\ IF stopped \/ running
       THEN /\ retry' = FALSE
            /\ requested' = (requested \/ (~stopped /\ running))
            /\ UNCHANGED <<running, commits, started, leftover>>
       ELSE Schedule(TRUE, commits)
    /\ UNCHANGED <<enabled, stopped, debt, initialized, drain, timeVars,
                   writerVars, countVars>>

IdleFires ==
    /\ idle /\ idle' = FALSE
    /\ Schedule(FALSE, commits)
    /\ UNCHANGED <<enabled, stopped, debt, initialized, drain, cont, older,
                   writerVars, countVars>>

(* stop, followed by drain's first wait. *)
Stop ==
    /\ ~stopped
    /\ stopped' = TRUE /\ drain' = "task"
    /\ requested' = FALSE /\ retry' = FALSE /\ idle' = FALSE
    /\ UNCHANGED <<enabled, debt, initialized, running, commits, started,
                   leftover, cont, older, writerVars, countVars>>

(* drain joins the run first, because a run installs its continuation as it *)
(* settles, and then that continuation.                                     *)
DrainTask ==
    /\ drain = "task" /\ ~running
    /\ drain' = "continuation"
    /\ UNCHANGED <<enabled, stopped, debt, initialized, runVars, timeVars,
                   writerVars, countVars>>

DrainContinuation ==
    /\ drain = "continuation" /\ ~cont
    /\ drain' = "done"
    /\ UNCHANGED <<enabled, stopped, debt, initialized, runVars, timeVars,
                   writerVars, countVars>>

RunNext ==
    \/ \E moreWork, reclaimed \in BOOLEAN : RunEnds(moreWork, reclaimed)
    \/ RunConflicts \/ RunFails \/ RunRefused

Next ==
    \/ \E w \in Writers :
        \/ AssistReads(w) \/ AssistInitializes(w) \/ AssistReadFails(w)
        \/ Assist(w) \/ AssistResumes(w) \/ GiveUp(w)
        \/ \E late \in BOOLEAN : Commit(w, late)
    \/ \E late \in BOOLEAN : CommitUnassisted(late)
    \/ FoldFinished \/ CollectedManually
    \/ RunNext \/ Continue \/ ContinueOlder \/ RetryFires \/ IdleFires
    \/ Stop \/ DrainTask \/ DrainContinuation

Spec == Init /\ [][Next]_vars

(* Timers fire, runs settle, yields resolve. *)
Fairness ==
    /\ WF_vars(RunNext) /\ WF_vars(Continue) /\ WF_vars(ContinueOlder)
    /\ WF_vars(RetryFires) /\ WF_vars(IdleFires)

FairSpec == Spec /\ Fairness
-------------------------------------------------------------------------------
(* "Keep collectionRequested true until the continuation takes ownership"   *)
(* (line 210): a request always has a run, a continuation or a retry that   *)
(* will take it up, whichever of them the others cancelled or overtook.     *)
RequestHasOwner ==
    requested /\ ~stopped => running \/ cont \/ older > 0 \/ retry

(* "A caller waiting for quiescence" never sees a false idle state (line    *)
(* 211): work that the last run left behind shows in the status.            *)
LeftoverShows == leftover /\ ~stopped => requested \/ running \/ retry

(* Backpressure works although assist() runs before the turn: the debt      *)
(* passes its limit by at most the writers that were let through together   *)
(* and the commits that do not assist.                                      *)
DebtBounded ==
    debt + Cardinality({w \in Writers : writer[w] = "passed"})
        <= DebtLimit + Cardinality(Writers) - 1 + unassisted

(* Once drain resolves no run is under way and nothing will start one. *)
DrainedIsQuiet ==
    drain = "done" => ~running /\ ~requested /\ ~retry /\ ~idle

(* The last commits of a burst are collected although no commit follows:    *)
(* a run starts after them unless the connection closes.                    *)
BurstCollected == (enabled /\ commits > 0) ~> (commits = 0 \/ stopped)

===============================================================================
