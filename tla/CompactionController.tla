------------------------- MODULE CompactionController -------------------------
(***************************************************************************)
(* The scheduling owner of background folds                                *)
(* (packages/core/src/engine/compaction-controller.ts): one fold per table *)
(* at a time, a check every few commits and one when the table goes quiet, *)
(* retries behind a growing backoff, requests that arrive while a fold is  *)
(* running, and the drain of close().                                      *)
(*                                                                         *)
(* The engine's side is reduced to what the controller can tell apart.  A  *)
(* table is ripe when its segments are due for a fold by themselves, and   *)
(* has deltas when only a quiet table's fold would take what it holds      *)
(* (autoCompactionDueHint and idleFoldDueHint in engine/database.ts).      *)
(* Delays are abstracted: a timer that is set may fire at any later time.  *)
(***************************************************************************)
EXTENDS Naturals, FiniteSets

CONSTANTS Tables,
          CommitInterval,     \* commits of a table between two checks (8)
          FailureLimit,       \* QUIET_COMPACTION_FAILURE_LIMIT
          MaxCommits,         \* bound on the commits of a behaviour
          MaxBackOffs,        \* bound on backoffs asked for by writers
          MaxChecks,          \* bound on a table's checks of a kind and on its
                              \* continuations; beyond it the next one waits
          StoreFails          \* whether a check's reads, or a drop, may fail

ASSUME ControllerAssumption ==
    /\ CommitInterval \in Nat \ {0}
    /\ FailureLimit \in Nat \ {0}
    /\ MaxCommits \in Nat /\ MaxBackOffs \in Nat /\ MaxChecks \in Nat \ {0}
    /\ StoreFails \in BOOLEAN

VARIABLES
    stopped,        \* #stopped
    run,            \* run[t] : the fold in #runs, plain or quiet
    folded,         \* tables whose running fold has folded all it saw due
    cancelled,      \* tables whose running fold is in #cancelledRuns
    requested,      \* #requested
    idlePending,    \* #idlePending
    backoff,        \* backoff[t] : #backoff, with whether its timer is set
    timers,         \* timers[t] : retry timers that can still fire
    quietFailures,  \* #quietFailures
    idleTables,     \* #idleTables
    idleTimer,      \* #idleTimer is set
    commits,        \* #commits
    checks,         \* checks[t][idle] : checks of t under way
    yields,         \* continuations of t still yielding
    seen,           \* seen[t][idle] : checks that have read the table
    table,          \* table[t] : live, being seen, table, or gone
    drain,          \* none, runs, continuations or done
    ripe, deltas,   \* what the tables hold
    made, asked,    \* commits and writer backoffs made so far
    owed,           \* history: a quiet check whose run has not ended; missed
                    \* when it came after the last look of a quiet run
    failed          \* history: a check or a drop has failed

workVars == <<ripe, deltas, made, asked>>
idleVars == <<idleTables, idleTimer, commits>>
vars == <<stopped, run, folded, cancelled, requested, idlePending, backoff,
          timers, quietFailures, idleVars, checks, yields, seen, table, drain,
          failed, workVars, owed>>

NoBackoff == [kind |-> "none", timer |-> FALSE]

TypeOK ==
    /\ stopped \in BOOLEAN /\ idleTimer \in BOOLEAN /\ failed \in BOOLEAN
    /\ run \in [Tables -> {"none", "plain", "quiet"}]
    /\ folded \subseteq Tables /\ cancelled \subseteq Tables
    /\ requested \subseteq Tables /\ idlePending \subseteq Tables
    /\ backoff \in [Tables ->
            [kind : {"none", "declined", "failed"}, timer : BOOLEAN]]
    /\ timers \in [Tables -> Nat]
    /\ quietFailures \in [Tables -> 0 .. FailureLimit - 1]
    /\ idleTables \subseteq Tables
    /\ commits \in [Tables -> 0 .. CommitInterval - 1]
    /\ checks \in [Tables -> [BOOLEAN -> Nat]]
    /\ yields \in [Tables -> Nat]
    /\ seen \in [Tables -> [BOOLEAN -> Nat]]
    /\ table \in [Tables -> {"live", "dropping", "gone"}]
    /\ drain \in {"none", "runs", "continuations", "done"}
    /\ ripe \subseteq Tables /\ deltas \subseteq Tables
    /\ made \in 0 .. MaxCommits /\ asked \in 0 .. MaxBackOffs
    /\ owed \in [Tables -> {"no", "asked", "missed"}]

Init ==
    /\ stopped = FALSE /\ idleTimer = FALSE /\ failed = FALSE
    /\ run = [t \in Tables |-> "none"]
    /\ folded = {} /\ cancelled = {} /\ requested = {} /\ idlePending = {}
    /\ backoff = [t \in Tables |-> NoBackoff]
    /\ timers = [t \in Tables |-> 0]
    /\ quietFailures = [t \in Tables |-> 0]
    /\ idleTables = {}
    /\ commits = [t \in Tables |-> 0]
    /\ checks = [t \in Tables |-> [idle \in BOOLEAN |-> 0]]
    /\ yields = [t \in Tables |-> 0]
    /\ seen = [t \in Tables |-> [idle \in BOOLEAN |-> 0]]
    /\ table = [t \in Tables |-> "live"]
    /\ drain = "none"
    /\ ripe = {} /\ deltas = {} /\ made = 0 /\ asked = 0
    /\ owed = [t \in Tables |-> "no"]
-------------------------------------------------------------------------------
(* #clearBackoff with the timer it clears, and backOff with the one it sets. *)
TimersWithout(t) == timers[t] - (IF backoff[t].timer THEN 1 ELSE 0)

ClearBackoff(t) ==
    /\ timers' = [timers EXCEPT ![t] = TimersWithout(t)]
    /\ backoff' = [backoff EXCEPT ![t] = NoBackoff]

(* Mutant: a stopped controller still arms a retry. *)
BackOffStopped(t, outcome) ==
    /\ timers' = [timers EXCEPT ![t] = TimersWithout(t) + 1]
    /\ backoff' = [backoff EXCEPT ![t] = [kind |-> outcome, timer |-> TRUE]]

BackOff(t, outcome) ==
    IF stopped THEN UNCHANGED <<timers, backoff>>
    ELSE /\ timers' = [timers EXCEPT ![t] = TimersWithout(t) + 1]
         /\ backoff' = [backoff EXCEPT ![t] =
                          [kind |-> outcome, timer |-> TRUE]]

(* Whether one more commit of t still waits for the next check. *)
BelowInterval(t) == commits[t] + 1 < CommitInterval

(* committed: the table is no longer quiet; every CommitInterval commits it *)
(* is checked, and the idle timer starts over.                              *)
Commit(t) ==
    /\ ~stopped /\ table[t] # "gone" /\ made < MaxCommits
    /\ made' = made + 1
    /\ deltas' = deltas \cup {t}
    /\ ripe' \in {ripe, ripe \cup {t}}
    /\ idlePending' = idlePending \ {t}
    /\ owed' = [owed EXCEPT ![t] = "no"]
    /\ idleTables' = idleTables \cup {t}
    /\ idleTimer' = TRUE
    /\ IF BelowInterval(t)
       THEN /\ commits' = [commits EXCEPT ![t] = @ + 1]
            /\ UNCHANGED checks
       ELSE /\ commits' = [commits EXCEPT ![t] = 0]
            /\ checks' = [checks EXCEPT ![t][FALSE] = @ + 1]
    /\ UNCHANGED <<stopped, run, folded, cancelled, requested, backoff, timers,
                   quietFailures, yields, seen, table, drain, failed, asked>>

(* The idle timer fires: every table that went quiet is checked as such. *)
IdleFires ==
    /\ idleTimer
    /\ idleTimer' = FALSE
    /\ idleTables' = {}
    /\ commits' = [t \in Tables |-> IF t \in idleTables THEN 0 ELSE commits[t]]
    /\ checks' = [t \in Tables |->
                    IF t \in idleTables
                    THEN [checks[t] EXCEPT ![TRUE] = @ + 1] ELSE checks[t]]
    /\ UNCHANGED <<stopped, run, folded, cancelled, requested, idlePending,
                   backoff, timers, quietFailures, yields, seen, table, drain,
                   failed, workVars, owed>>

(* A backoff that still holds a fold of t off. *)
HeldOff(t, quiet, grown) ==
    /\ backoff[t].kind # "none"
    /\ backoff[t].timer \/ (~quiet /\ backoff[t].kind = "declined" /\ ~grown)

(* schedule: remember a quiet table, respect the backoff, note a request    *)
(* that finds a fold running, and otherwise start one.                      *)
Schedule(t, idle, grown) ==
    IF stopped \/ table[t] = "dropping"
    THEN UNCHANGED <<run, folded, requested, idlePending, owed>>
    ELSE LET quiet == idle \/ t \in idlePending IN
      /\ idlePending' = IF idle THEN idlePending \cup {t} ELSE idlePending
      /\ owed' = IF ~idle THEN owed
                 ELSE [owed EXCEPT ![t] =
                         IF run[t] = "quiet" /\ t \in folded
                         THEN "missed" ELSE "asked"]
      /\ CASE HeldOff(t, quiet, grown) -> UNCHANGED <<run, folded, requested>>
           [] ~HeldOff(t, quiet, grown) /\ run[t] # "none" ->
                /\ requested' = requested \cup {t}
                /\ UNCHANGED <<run, folded>>
           [] OTHER ->
                /\ run' = [run EXCEPT ![t] =
                             IF quiet THEN "quiet" ELSE "plain"]
                /\ folded' = folded \ {t}
                /\ UNCHANGED requested

Due(t, idle) == t \in ripe \/ (idle /\ t \in deltas)

(* A check reads the table's record, between the connection's own turns. *)
CheckReads(t, idle) ==
    /\ checks[t][idle] > 0
    /\ checks' = [checks EXCEPT ![t][idle] = @ - 1]
    /\ seen' = IF table[t] = "gone" \/ stopped THEN seen
               ELSE [seen EXCEPT ![t][idle] = @ + 1]
    /\ UNCHANGED <<stopped, run, folded, cancelled, requested, idlePending,
                   backoff, timers, quietFailures, idleVars, yields, table,
                   drain, failed, workVars, owed>>

(* It then counts the segments it sees and schedules a fold when due.  The  *)
(* table may have been dropped between the two.                             *)
CheckEnds(t, idle, grown) ==
    /\ seen[t][idle] > 0
    /\ seen' = [seen EXCEPT ![t][idle] = @ - 1]
    /\ IF Due(t, idle)
       THEN Schedule(t, idle, grown)
       ELSE UNCHANGED <<run, folded, requested, idlePending, owed>>
    /\ UNCHANGED <<stopped, cancelled, backoff, timers, quietFailures,
                   idleVars, checks, yields, table, drain, failed, workVars>>

(* A check whose reads fail is reported and waits for the next one. *)
CheckFails(t, idle) ==
    /\ StoreFails /\ seen[t][idle] > 0
    /\ seen' = [seen EXCEPT ![t][idle] = @ - 1]
    /\ failed' = TRUE
    /\ UNCHANGED <<stopped, run, folded, cancelled, requested, idlePending,
                   backoff, timers, quietFailures, idleVars, checks, yields,
                   table, drain, workVars, owed>>

(* A read that meets a fragmented table, or deltas too large for its        *)
(* budget, schedules the table too.                                         *)
Scan(t, grown) ==
    /\ t \in ripe \cup deltas /\ ~stopped
    /\ Schedule(t, FALSE, grown)
    /\ UNCHANGED <<stopped, cancelled, backoff, timers, quietFailures,
                   idleVars, checks, yields, seen, table, drain, failed,
                   workVars>>
-------------------------------------------------------------------------------
(* The running fold folds what it sees due, and looks once more. *)
Fold(t) ==
    /\ run[t] # "none" /\ t \notin folded /\ table[t] = "live" /\ ~stopped
    /\ folded' = folded \cup {t}
    /\ ripe' = ripe \ {t}
    /\ deltas' = IF run[t] = "quiet" THEN deltas \ {t} ELSE deltas
    /\ UNCHANGED <<stopped, run, cancelled, requested, idlePending, backoff,
                   timers, quietFailures, idleVars, checks, yields, seen,
                   table, drain, failed, made, asked, owed>>

(* The run's finally: leave #runs, and turn a request into a continuation. *)
Leave(t) ==
    /\ run' = [run EXCEPT ![t] = "none"]
    /\ folded' = folded \ {t}
    /\ cancelled' = cancelled \ {t}
    /\ requested' = requested \ {t}
    /\ yields' = IF t \in requested /\ ~stopped
                 THEN [yields EXCEPT ![t] = @ + 1] ELSE yields

(* Mutant: any run that ends answers the quiet check. *)
AnsweredByAny(t) == idlePending \ {t}

(* A quiet run that ended has answered the check that asked for it. *)
Answered(t) == IF run[t] = "quiet" THEN idlePending \ {t} ELSE idlePending

(* The run resolves: it folded something, or it declined. *)
RunEnds(t) ==
    /\ run[t] # "none" /\ yields[t] < MaxChecks
    /\ IF t \in cancelled
       THEN UNCHANGED <<idlePending, quietFailures, timers, backoff, owed>>
       ELSE /\ idlePending' = Answered(t)
            /\ owed' = IF run[t] = "quiet" /\ owed[t] = "asked"
                       THEN [owed EXCEPT ![t] = "no"] ELSE owed
            /\ quietFailures' = [quietFailures EXCEPT ![t] = 0]
            /\ IF t \in folded THEN ClearBackoff(t) ELSE BackOff(t, "declined")
    /\ Leave(t)
    /\ UNCHANGED <<stopped, idleVars, checks, seen, table, drain, failed,
                   workVars>>

(* #quietFailures of t after one more failure. *)
QuietCount(t, silent) == IF silent THEN quietFailures[t] + 1 ELSE 0

(* The run rejects.  A lost race or a vanished leader is quiet until it has *)
(* happened FailureLimit times in a row; anything else is reported.         *)
RunFails(t, quietly) ==
    /\ run[t] # "none" /\ yields[t] < MaxChecks
    /\ LET silent == quietly /\ quietFailures[t] + 1 < FailureLimit IN
        /\ quietFailures' = [quietFailures EXCEPT ![t] = QuietCount(t, silent)]
    /\ IF t \in cancelled THEN UNCHANGED <<timers, backoff>>
       ELSE BackOff(t, "failed")
    /\ Leave(t)
    /\ UNCHANGED <<stopped, idlePending, idleVars, checks, seen, table, drain,
                   failed, workVars, owed>>

(* Whether the next check of t, quiet if the table went quiet, fits. *)
MayCheck(t) ==
    LET idle == t \in idlePending
    IN  checks[t][idle] + seen[t][idle] < MaxChecks

(* The continuation has yielded and checks the table again. *)
Continue(t) ==
    /\ yields[t] > 0 /\ MayCheck(t)
    /\ yields' = [yields EXCEPT ![t] = @ - 1]
    /\ checks' = IF stopped THEN checks
                 ELSE [checks EXCEPT ![t][t \in idlePending] = @ + 1]
    /\ UNCHANGED <<stopped, run, folded, cancelled, requested, idlePending,
                   backoff, timers, quietFailures, idleVars, seen, table,
                   drain, failed, workVars, owed>>

(* Mutant: the retry forgets that the table went quiet. *)
RetryFiresPlain(t) ==
    /\ timers[t] > 0 /\ MayCheck(t)
    /\ timers' = [timers EXCEPT ![t] = @ - 1]
    /\ backoff' = [backoff EXCEPT ![t].timer = FALSE]
    /\ checks' = IF stopped THEN checks
                 ELSE [checks EXCEPT ![t][FALSE] = @ + 1]
    /\ UNCHANGED <<stopped, run, folded, cancelled, requested, idlePending,
                   quietFailures, idleVars, yields, seen, table, drain, failed,
                   workVars, owed>>

(* A retry timer fires and checks the table, quietly if it went quiet. *)
RetryFires(t) ==
    /\ timers[t] > 0 /\ MayCheck(t)
    /\ timers' = [timers EXCEPT ![t] = @ - 1]
    /\ backoff' = [backoff EXCEPT ![t].timer = FALSE]
    /\ checks' = IF stopped THEN checks
                 ELSE [checks EXCEPT ![t][t \in idlePending] = @ + 1]
    /\ UNCHANGED <<stopped, run, folded, cancelled, requested, idlePending,
                   quietFailures, idleVars, yields, seen, table, drain, failed,
                   workVars, owed>>

(* A write at the backpressure limit stepped the table without success. *)
WriterBacksOff(t, outcome) ==
    /\ asked < MaxBackOffs
    /\ asked' = asked + 1
    /\ BackOff(t, outcome)
    /\ UNCHANGED <<stopped, run, folded, cancelled, requested, idlePending,
                   quietFailures, idleVars, checks, yields, seen, table, drain,
                   failed, ripe, deltas, made, owed>>

(* dropTable holds folds of the table off while it is under way. *)
DropBegins(t) ==
    /\ ~stopped /\ table[t] = "live"
    /\ table' = [table EXCEPT ![t] = "dropping"]
    /\ UNCHANGED <<stopped, run, folded, cancelled, requested, idlePending,
                   backoff, timers, quietFailures, idleVars, checks, yields,
                   seen, drain, failed, workVars, owed>>

DropFails(t) ==
    /\ StoreFails /\ table[t] = "dropping"
    /\ table' = [table EXCEPT ![t] = "live"]
    /\ failed' = TRUE
    /\ UNCHANGED <<stopped, run, folded, cancelled, requested, idlePending,
                   backoff, timers, quietFailures, idleVars, checks, yields,
                   seen, drain, workVars, owed>>

(* forget: the drop committed, and is a commit of the table itself. *)
Forget(t) ==
    /\ table[t] = "dropping"
    /\ table' = [table EXCEPT ![t] = "gone"]
    /\ idleTimer' = ~stopped
    /\ checks' = IF stopped \/ BelowInterval(t) THEN checks
                 ELSE [checks EXCEPT ![t][FALSE] = @ + 1]
    /\ cancelled' = IF run[t] = "none" THEN cancelled ELSE cancelled \cup {t}
    /\ ClearBackoff(t)
    /\ quietFailures' = [quietFailures EXCEPT ![t] = 0]
    /\ idleTables' = idleTables \ {t}
    /\ commits' = [commits EXCEPT ![t] = 0]
    /\ requested' = requested \ {t}
    /\ idlePending' = idlePending \ {t}
    /\ owed' = [owed EXCEPT ![t] = "no"]
    /\ UNCHANGED <<stopped, run, folded, yields, seen, drain, failed,
                   workVars>>

(* stop, followed by drain's first wait. *)
Stop ==
    /\ ~stopped
    /\ stopped' = TRUE
    /\ drain' = "runs"
    /\ idleTimer' = FALSE
    /\ timers' = [t \in Tables |-> TimersWithout(t)]
    /\ backoff' = [t \in Tables |-> NoBackoff]
    /\ quietFailures' = [t \in Tables |-> 0]
    /\ idleTables' = {} /\ requested' = {} /\ idlePending' = {}
    /\ commits' = [t \in Tables |-> 0]
    /\ owed' = [t \in Tables |-> "no"]
    /\ UNCHANGED <<run, folded, cancelled, checks, yields, seen, table,
                   workVars, failed>>

(* drain joins the runs, then the continuations and checks it tracks. *)
DrainRuns ==
    /\ drain = "runs" /\ \A t \in Tables : run[t] = "none"
    /\ drain' = "continuations"
    /\ UNCHANGED <<stopped, run, folded, cancelled, requested, idlePending,
                   backoff, timers, quietFailures, idleVars, checks, yields,
                   seen, table, workVars, owed, failed>>

DrainContinuations ==
    /\ drain = "continuations"
    /\ \A t \in Tables :
        /\ yields[t] = 0
        /\ \A idle \in BOOLEAN : checks[t][idle] + seen[t][idle] = 0
    /\ drain' = "done"
    /\ UNCHANGED <<stopped, run, folded, cancelled, requested, idlePending,
                   backoff, timers, quietFailures, idleVars, checks, yields,
                   seen, table, workVars, owed, failed>>

Next ==
    \/ \E t \in Tables :
        \/ Commit(t) \/ Fold(t) \/ RunEnds(t) \/ Continue(t) \/ RetryFires(t)
        \/ DropBegins(t) \/ DropFails(t) \/ Forget(t)
        \/ \E idle \in BOOLEAN : CheckReads(t, idle) \/ CheckFails(t, idle)
        \/ \E idle, grown \in BOOLEAN : CheckEnds(t, idle, grown)
        \/ \E grown \in BOOLEAN : Scan(t, grown)
        \/ \E quietly \in BOOLEAN : RunFails(t, quietly)
        \/ \E outcome \in {"declined", "failed"} : WriterBacksOff(t, outcome)
    \/ IdleFires \/ Stop \/ DrainRuns \/ DrainContinuations

Spec == Init /\ [][Next]_vars

(* Timers fire, the store answers reads, and folds settle. *)
Fairness ==
    /\ WF_vars(IdleFires)
    /\ \A t \in Tables :
        /\ WF_vars(RetryFires(t)) /\ WF_vars(Continue(t))
        /\ WF_vars(RunEnds(t) \/ \E quietly \in BOOLEAN : RunFails(t, quietly))
        /\ \A idle \in BOOLEAN :
            /\ WF_vars(CheckReads(t, idle))
            /\ WF_vars(\E grown \in BOOLEAN : CheckEnds(t, idle, grown))

FairSpec == Spec /\ Fairness
-------------------------------------------------------------------------------
(* A request noted while a fold runs has that fold to take it over; and a   *)
(* quiet table's check is "kept through a busy run, a backoff, or a         *)
(* failed attempt" (line 35) until the run that it asked for has ended; the *)
(* exception is a check that arrives while a quiet run that has already     *)
(* taken its last look at the table is settling.                            *)
AsksKept ==
    \A t \in Tables :
        /\ t \in requested => run[t] # "none"
        /\ owed[t] = "asked" => t \in idlePending

(* "An idle table must not wait forever for writes that never come" (line   *)
(* 160): a quiet table whose run was put off gets another quiet run while   *)
(* it still holds something to fold, as long as no writer backs the table   *)
(* off and no check or drop fails ("a failed check waits for the next one", *)
(* engine/database.ts line 10127).                                          *)
QuietTableRunsUndisturbed ==
    \A t \in Tables :
        (t \in idlePending) ~> (\/ run[t] = "quiet" \/ t \notin idlePending
                               \/ ~Due(t, TRUE) \/ table[t] # "live"
                               \/ asked > 0 \/ failed)

(* Once drain resolves nothing of the controller is left that could touch   *)
(* the store: no fold, no check, no continuation and no timer.              *)
DrainedIsQuiet ==
    drain = "done" =>
        /\ ~idleTimer
        /\ \A t \in Tables :
            /\ run[t] = "none" /\ timers[t] = 0 /\ yields[t] = 0
            /\ \A idle \in BOOLEAN : checks[t][idle] + seen[t][idle] = 0
===============================================================================
