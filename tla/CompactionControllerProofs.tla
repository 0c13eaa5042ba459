---------------------- MODULE CompactionControllerProofs ----------------------
(***************************************************************************)
(* Proofs about CompactionController for any set of tables, any interval,  *)
(* failure limit and bounds, and whether or not reads and drops may fail.  *)
(***************************************************************************)
EXTENDS CompactionController, TLAPS

(* The retry timers that can fire are the ones #backoff holds on to: one    *)
(* for a backoff whose timer is set and none otherwise.                     *)
TimersHeld ==
    \A t \in Tables : timers[t] = IF backoff[t].timer THEN 1 ELSE 0

(* stop() leaves no timer behind, and what is set up later does not set one *)
(* again; drain() has passed each of its waits only once what it waits for  *)
(* is over, and a stopped controller starts none of it again.               *)
Closing ==
    /\ stopped <=> drain # "none"
    /\ stopped => /\ ~idleTimer
                  /\ \A t \in Tables : ~backoff[t].timer
    /\ drain \in {"continuations", "done"} =>
            \A t \in Tables : run[t] = "none"
    /\ drain = "done" =>
            \A t \in Tables :
                /\ yields[t] = 0
                /\ \A idle \in BOOLEAN : checks[t][idle] = 0 /\ seen[t][idle] = 0

(* The inductive invariant. *)
Inv == TypeOK /\ AsksKept /\ TimersHeld /\ Closing

(* What a step of schedule() may do: nothing once the controller stopped,   *)
(* and otherwise start at most a fold of t, note a request of a table that  *)
(* is being folded, or remember that t went quiet.                          *)
LEMMA ScheduleEffect ==
  ASSUME TypeOK, AsksKept, NEW t \in Tables, NEW idle \in BOOLEAN,
         NEW grown \in BOOLEAN, Schedule(t, idle, grown)
  PROVE  /\ stopped => UNCHANGED <<run, folded, requested, idlePending, owed>>
         /\ run' \in [Tables -> {"none", "plain", "quiet"}]
         /\ folded' \subseteq Tables /\ requested' \subseteq Tables
         /\ idlePending' \subseteq Tables
         /\ owed' \in [Tables -> {"no", "asked", "missed"}]
         /\ AsksKept'
<1>1. CASE stopped \/ table[t] = "dropping"
  BY <1>1 DEF Schedule, TypeOK, AsksKept
<1>2. CASE ~(stopped \/ table[t] = "dropping")
  <2> DEFINE quiet == idle \/ t \in idlePending
  <2>1. /\ idlePending' = IF idle THEN idlePending \cup {t} ELSE idlePending
        /\ owed' = IF ~idle THEN owed
                   ELSE [owed EXCEPT ![t] =
                           IF run[t] = "quiet" /\ t \in folded
                           THEN "missed" ELSE "asked"]
    BY <1>2 DEF Schedule
  <2>2. \/ UNCHANGED <<run, folded, requested>>
        \/ run[t] # "none" /\ requested' = requested \cup {t} /\ UNCHANGED <<run, folded>>
        \/ /\ run' = [run EXCEPT ![t] = IF quiet THEN "quiet" ELSE "plain"]
           /\ folded' = folded \ {t} /\ requested' = requested
    BY <1>2, Zenon DEF Schedule
  <2>3. /\ run' \in [Tables -> {"none", "plain", "quiet"}]
        /\ folded' \subseteq Tables /\ requested' \subseteq Tables
        /\ \A u \in Tables : u \in requested' => run'[u] # "none"
    BY <2>2 DEF TypeOK, AsksKept
  <2>4. /\ idlePending' \subseteq Tables
        /\ owed' \in [Tables -> {"no", "asked", "missed"}]
        /\ \A u \in Tables : owed'[u] = "asked" => u \in idlePending'
    BY <2>1 DEF TypeOK, AsksKept
  <2> QED
    BY <1>2, <2>3, <2>4 DEF AsksKept
<1> QED
  BY <1>1, <1>2

(* What backOff() may do: nothing once stopped, and otherwise replace the   *)
(* backoff of t, and its timer, by a new one.                               *)
LEMMA BackOffEffect ==
  ASSUME TypeOK, TimersHeld, NEW t \in Tables,
         NEW outcome \in {"declined", "failed"}, BackOff(t, outcome)
  PROVE  /\ timers' \in [Tables -> Nat]
         /\ backoff' \in [Tables ->
                [kind : {"none", "declined", "failed"}, timer : BOOLEAN]]
         /\ TimersHeld'
         /\ stopped => UNCHANGED <<timers, backoff>>
<1>1. CASE stopped
  BY <1>1 DEF BackOff, TypeOK, TimersHeld
<1>2. CASE ~stopped
  <2>1. timers[t] - (IF backoff[t].timer THEN 1 ELSE 0) = 0
    BY DEF TimersHeld, TypeOK
  <2>2. /\ timers' = [timers EXCEPT ![t] = 1]
        /\ backoff' = [backoff EXCEPT ![t] = [kind |-> outcome, timer |-> TRUE]]
    BY <1>2, <2>1 DEF BackOff, TimersWithout
  <2> QED
    BY <1>2, <2>2 DEF TypeOK, TimersHeld
<1> QED
  BY <1>1, <1>2

(* #clearBackoff forgets the backoff of t and the timer it held. *)
LEMMA ClearBackoffEffect ==
  ASSUME TypeOK, TimersHeld, NEW t \in Tables, ClearBackoff(t)
  PROVE  /\ timers' \in [Tables -> Nat]
         /\ backoff' \in [Tables ->
                [kind : {"none", "declined", "failed"}, timer : BOOLEAN]]
         /\ TimersHeld'
         /\ \A u \in Tables : backoff'[u].timer => backoff[u].timer
<1>1. timers[t] - (IF backoff[t].timer THEN 1 ELSE 0) = 0
  BY DEF TimersHeld, TypeOK
<1>2. /\ timers' = [timers EXCEPT ![t] = 0]
      /\ backoff' = [backoff EXCEPT ![t] = NoBackoff]
  BY <1>1 DEF ClearBackoff, TimersWithout
<1> QED
  BY <1>2 DEF TypeOK, TimersHeld, NoBackoff

(* A new controller satisfies the invariant. *)
LEMMA InitInv == Init => Inv
<1> SUFFICES ASSUME Init PROVE Inv
  OBVIOUS
<1>1. TypeOK
  <2>1. stopped \in BOOLEAN /\ idleTimer \in BOOLEAN /\ failed \in BOOLEAN
    BY Zenon DEF Init
  <2>2. /\ checks \in [Tables -> [BOOLEAN -> Nat]]
        /\ seen \in [Tables -> [BOOLEAN -> Nat]]
    BY DEF Init
  <2>3. /\ backoff \in [Tables ->
              [kind : {"none", "declined", "failed"}, timer : BOOLEAN]]
        /\ quietFailures \in [Tables -> 0 .. FailureLimit - 1]
        /\ commits \in [Tables -> 0 .. CommitInterval - 1]
        /\ made \in 0 .. MaxCommits /\ asked \in 0 .. MaxBackOffs
    BY ControllerAssumption DEF Init, NoBackoff
  <2> QED
    BY <2>1, <2>2, <2>3 DEF Init, TypeOK
<1>2. AsksKept /\ TimersHeld /\ Closing
  BY DEF Init, AsksKept, TimersHeld, Closing, NoBackoff
<1> QED
  BY <1>1, <1>2 DEF Inv

(* The counts of checks stay counts when one is added, or one of those that *)
(* are there is taken away.                                                 *)
LEMMA Counted ==
  ASSUME NEW c \in [Tables -> [BOOLEAN -> Nat]], NEW t \in Tables,
         NEW b \in BOOLEAN
  PROVE  /\ [c EXCEPT ![t][b] = @ + 1] \in [Tables -> [BOOLEAN -> Nat]]
         /\ c[t][b] > 0 =>
              [c EXCEPT ![t][b] = @ - 1] \in [Tables -> [BOOLEAN -> Nat]]
<1>1. c[t] \in [BOOLEAN -> Nat] /\ c[t][b] \in Nat
  OBVIOUS
<1>2. /\ c[t][b] + 1 \in Nat
      /\ c[t][b] > 0 => c[t][b] - 1 \in Nat
  BY <1>1
<1>3. ASSUME NEW n \in Nat
      PROVE  [c EXCEPT ![t] = [c[t] EXCEPT ![b] = n]] \in [Tables -> [BOOLEAN -> Nat]]
  BY <1>1, Zenon
<1> QED
  BY <1>2, <1>3

(* Every step keeps the types. *)
LEMMA TypeStep ==
  ASSUME Inv, [Next]_vars
  PROVE  TypeOK'
<1> USE ControllerAssumption DEF Inv
<1>1. ASSUME NEW t \in Tables, Commit(t) PROVE TypeOK'
  <2>1. checks' \in [Tables -> [BOOLEAN -> Nat]]
    <3>1. checks \in [Tables -> [BOOLEAN -> Nat]]
      BY DEF TypeOK
    <3>2. [checks EXCEPT ![t][FALSE] = @ + 1] \in [Tables -> [BOOLEAN -> Nat]]
      BY <3>1, Counted
    <3> QED
      BY <1>1, <3>1, <3>2, Zenon DEF Commit
  <2>2. commits' \in [Tables -> 0 .. CommitInterval - 1]
    <3>1. /\ commits \in [Tables -> 0 .. CommitInterval - 1]
          /\ CommitInterval \in Nat \ {0}
      BY DEF TypeOK
    <3>2. commits[t] + 1 < CommitInterval => commits[t] + 1 \in 0 .. CommitInterval - 1
      BY <3>1
    <3>3. 0 \in 0 .. CommitInterval - 1
      BY <3>1
    <3> QED
      BY <1>1, <3>1, <3>2, <3>3, Zenon DEF Commit, BelowInterval
  <2>3. idleTimer' \in BOOLEAN
    BY <1>1, Zenon DEF Commit
  <2> QED
    <3>1. /\ made < MaxCommits /\ made' = made + 1 /\ deltas' = deltas \cup {t}
          /\ ripe' \in {ripe, ripe \cup {t}} /\ idlePending' = idlePending \ {t}
          /\ owed' = [owed EXCEPT ![t] = "no"] /\ idleTables' = idleTables \cup {t}
          /\ UNCHANGED <<stopped, run, folded, cancelled, requested, backoff, timers,
                         quietFailures, yields, seen, table, drain, failed, asked>>
      BY <1>1, Zenon DEF Commit
    <3> QED
      BY <2>1, <2>2, <2>3, <3>1 DEF TypeOK
<1>2. ASSUME NEW t \in Tables, Fold(t) PROVE TypeOK'
  BY <1>2 DEF TypeOK, Fold, idleVars
<1>3. ASSUME NEW t \in Tables, RunEnds(t) PROVE TypeOK'
  <2>1. /\ timers' \in [Tables -> Nat]
        /\ backoff' \in [Tables ->
              [kind : {"none", "declined", "failed"}, timer : BOOLEAN]]
    BY <1>3, BackOffEffect, ClearBackoffEffect DEF TypeOK, RunEnds
  <2>2. /\ idlePending' \subseteq Tables
        /\ owed' \in [Tables -> {"no", "asked", "missed"}]
        /\ quietFailures' \in [Tables -> 0 .. FailureLimit - 1]
    <3>1. /\ idlePending' \in {idlePending, idlePending \ {t}}
          /\ owed' \in {owed, [owed EXCEPT ![t] = "no"]}
          /\ quietFailures' \in {quietFailures, [quietFailures EXCEPT ![t] = 0]}
      BY <1>3, Zenon DEF RunEnds, Answered
    <3>2. 0 \in 0 .. FailureLimit - 1
      OBVIOUS
    <3>3. /\ idlePending \subseteq Tables
          /\ owed \in [Tables -> {"no", "asked", "missed"}]
          /\ quietFailures \in [Tables -> 0 .. FailureLimit - 1]
      BY DEF TypeOK
    <3> QED
      BY <3>1, <3>2, <3>3, Zenon
  <2>3. /\ run' \in [Tables -> {"none", "plain", "quiet"}]
        /\ folded' \subseteq Tables /\ cancelled' \subseteq Tables
        /\ requested' \subseteq Tables /\ yields' \in [Tables -> Nat]
    BY <1>3 DEF TypeOK, RunEnds, Leave
  <2> QED
    BY <1>3, <2>1, <2>2, <2>3 DEF TypeOK, RunEnds, idleVars, workVars
<1>4. ASSUME NEW t \in Tables, Continue(t) PROVE TypeOK'
  <2>1. checks' \in [Tables -> [BOOLEAN -> Nat]]
    <3>1. checks \in [Tables -> [BOOLEAN -> Nat]]
      BY DEF TypeOK
    <3>2. [checks EXCEPT ![t][t \in idlePending] = @ + 1]
            \in [Tables -> [BOOLEAN -> Nat]]
      BY <3>1, Counted, (t \in idlePending) \in BOOLEAN, Zenon
    <3> QED
      BY <1>4, <3>1, <3>2, Zenon DEF Continue
  <2> QED
    BY <1>4, <2>1 DEF TypeOK, Continue, idleVars, workVars
<1>5. ASSUME NEW t \in Tables, RetryFires(t) PROVE TypeOK'
  <2>1. checks' \in [Tables -> [BOOLEAN -> Nat]]
    <3>1. checks \in [Tables -> [BOOLEAN -> Nat]]
      BY DEF TypeOK
    <3>2. [checks EXCEPT ![t][t \in idlePending] = @ + 1]
            \in [Tables -> [BOOLEAN -> Nat]]
      BY <3>1, Counted, (t \in idlePending) \in BOOLEAN, Zenon
    <3> QED
      BY <1>5, <3>1, <3>2, Zenon DEF RetryFires
  <2>2. /\ timers' \in [Tables -> Nat]
        /\ backoff' \in [Tables ->
              [kind : {"none", "declined", "failed"}, timer : BOOLEAN]]
    <3>1. /\ timers' = [timers EXCEPT ![t] = @ - 1] /\ timers[t] > 0
          /\ backoff' = [backoff EXCEPT ![t].timer = FALSE]
      BY <1>5, Zenon DEF RetryFires
    <3>2. timers' \in [Tables -> Nat]
      BY <3>1 DEF TypeOK
    <3>3. [backoff[t] EXCEPT !.timer = FALSE]
            \in [kind : {"none", "declined", "failed"}, timer : BOOLEAN]
      BY ZenonT(30) DEF TypeOK
    <3>4. backoff' \in [Tables ->
              [kind : {"none", "declined", "failed"}, timer : BOOLEAN]]
      BY <3>1, <3>3, Zenon DEF TypeOK
    <3> QED
      BY <3>2, <3>4
  <2> QED
    BY <1>5, <2>1, <2>2 DEF TypeOK, RetryFires, idleVars, workVars
<1>6. ASSUME NEW t \in Tables, DropBegins(t) \/ DropFails(t) PROVE TypeOK'
  BY <1>6 DEF TypeOK, DropBegins, DropFails, idleVars, workVars
<1>7. ASSUME NEW t \in Tables, Forget(t) PROVE TypeOK'
  <2>1. checks' \in [Tables -> [BOOLEAN -> Nat]]
    BY <1>7, Counted DEF TypeOK, Forget
  <2>2. idleTimer' \in BOOLEAN
    BY <1>7, Zenon DEF Forget
  <2>3. /\ timers' \in [Tables -> Nat]
        /\ backoff' \in [Tables ->
              [kind : {"none", "declined", "failed"}, timer : BOOLEAN]]
    BY <1>7, ClearBackoffEffect DEF Forget
  <2> QED
    <3>1. /\ table' = [table EXCEPT ![t] = "gone"]
          /\ quietFailures' = [quietFailures EXCEPT ![t] = 0]
          /\ commits' = [commits EXCEPT ![t] = 0]
          /\ owed' = [owed EXCEPT ![t] = "no"]
          /\ cancelled' \in {cancelled, cancelled \cup {t}}
          /\ idleTables' = idleTables \ {t} /\ requested' = requested \ {t}
          /\ idlePending' = idlePending \ {t}
          /\ UNCHANGED <<stopped, run, folded, yields, seen, drain, failed, workVars>>
      BY <1>7, Zenon DEF Forget
    <3> QED
      BY <2>1, <2>2, <2>3, <3>1 DEF TypeOK, workVars
<1>8. ASSUME NEW t \in Tables, NEW idle \in BOOLEAN,
             CheckReads(t, idle) \/ CheckFails(t, idle)
      PROVE  TypeOK'
  <2>1. /\ checks' \in [Tables -> [BOOLEAN -> Nat]]
        /\ seen' \in [Tables -> [BOOLEAN -> Nat]]
    <3>1. /\ checks \in [Tables -> [BOOLEAN -> Nat]]
          /\ seen \in [Tables -> [BOOLEAN -> Nat]]
      BY DEF TypeOK
    <3>2. /\ [seen EXCEPT ![t][idle] = @ + 1] \in [Tables -> [BOOLEAN -> Nat]]
          /\ seen[t][idle] > 0 =>
               [seen EXCEPT ![t][idle] = @ - 1] \in [Tables -> [BOOLEAN -> Nat]]
          /\ checks[t][idle] > 0 =>
               [checks EXCEPT ![t][idle] = @ - 1] \in [Tables -> [BOOLEAN -> Nat]]
      BY <3>1, Counted, Zenon
    <3> QED
      BY <1>8, <3>1, <3>2, Zenon DEF CheckReads, CheckFails
  <2>2. failed' \in BOOLEAN
    BY <1>8, Zenon DEF TypeOK, CheckReads, CheckFails
  <2> QED
    BY <1>8, <2>1, <2>2 DEF TypeOK, CheckReads, CheckFails, idleVars, workVars
<1>9. ASSUME NEW t \in Tables, NEW idle \in BOOLEAN, NEW grown \in BOOLEAN,
             CheckEnds(t, idle, grown)
      PROVE  TypeOK'
  BY <1>9, ScheduleEffect DEF TypeOK, CheckEnds, idleVars, workVars
<1>10. ASSUME NEW t \in Tables, NEW grown \in BOOLEAN, Scan(t, grown)
       PROVE  TypeOK'
  BY <1>10, ScheduleEffect DEF TypeOK, Scan, idleVars, workVars
<1>11. ASSUME NEW t \in Tables, NEW quietly \in BOOLEAN, RunFails(t, quietly)
       PROVE  TypeOK'
  BY <1>11, BackOffEffect
  DEF TypeOK, RunFails, Leave, QuietCount, idleVars, workVars
<1>12. ASSUME NEW t \in Tables, NEW outcome \in {"declined", "failed"},
              WriterBacksOff(t, outcome)
       PROVE  TypeOK'
  BY <1>12, BackOffEffect DEF TypeOK, WriterBacksOff, idleVars
<1>13. CASE IdleFires
  <2>1. checks' \in [Tables -> [BOOLEAN -> Nat]]
    <3>1. ASSUME NEW t \in Tables
          PROVE  [checks[t] EXCEPT ![TRUE] = @ + 1] \in [BOOLEAN -> Nat]
      <4>1. checks[t] \in [BOOLEAN -> Nat]
        BY DEF TypeOK
      <4>2. checks[t][TRUE] \in Nat
        BY <4>1, Zenon
      <4>3. \A n \in Nat : n + 1 \in Nat
        OBVIOUS
      <4> QED
        BY <4>1, <4>2, <4>3, Zenon
    <3> QED
      BY <1>13, <3>1 DEF TypeOK, IdleFires
  <2>2. commits' \in [Tables -> 0 .. CommitInterval - 1]
    BY <1>13 DEF TypeOK, IdleFires
  <2>3. idleTimer' \in BOOLEAN
    BY <1>13, Zenon DEF IdleFires
  <2> QED
    BY <1>13, <2>1, <2>2, <2>3 DEF TypeOK, IdleFires, workVars
<1>14. CASE Stop
  <2>1. stopped' \in BOOLEAN /\ idleTimer' \in BOOLEAN
    BY <1>14, Zenon DEF Stop
  <2>2. /\ timers' \in [Tables -> Nat]
        /\ backoff' \in [Tables ->
              [kind : {"none", "declined", "failed"}, timer : BOOLEAN]]
    BY <1>14 DEF TypeOK, TimersHeld, Stop, NoBackoff, TimersWithout
  <2> QED
    BY <1>14, <2>1, <2>2 DEF TypeOK, Stop, workVars
<1>15. CASE DrainRuns \/ DrainContinuations
  BY <1>15 DEF TypeOK, DrainRuns, DrainContinuations, idleVars, workVars
<1>16. CASE UNCHANGED vars
  BY <1>16 DEF TypeOK, vars, idleVars, workVars
<1> QED
  BY <1>1, <1>2, <1>3, <1>4, <1>5, <1>6, <1>7, <1>8, <1>9, <1>10, <1>11, <1>12,
     <1>13, <1>14, <1>15, <1>16, Zenon DEF Next

(* A request keeps its fold, and a quiet check its place in #idlePending.   *)
LEMMA AsksStep ==
  ASSUME Inv, [Next]_vars
  PROVE  AsksKept'
<1> USE DEF Inv
<1>1. ASSUME NEW t \in Tables, Commit(t) PROVE AsksKept'
  BY <1>1 DEF TypeOK, AsksKept, Commit
<1>2. ASSUME NEW t \in Tables, RunEnds(t) PROVE AsksKept'
  <2>1. /\ run' = [run EXCEPT ![t] = "none"] /\ requested' = requested \ {t}
        /\ \/ UNCHANGED <<idlePending, owed>>
           \/ run[t] # "quiet" /\ UNCHANGED <<idlePending, owed>>
           \/ /\ run[t] = "quiet" /\ idlePending' = idlePending \ {t}
              /\ owed' = IF owed[t] = "asked" THEN [owed EXCEPT ![t] = "no"] ELSE owed
    BY <1>2, Zenon DEF RunEnds, Leave, Answered
  <2> QED
    BY <2>1 DEF TypeOK, AsksKept
<1>3. ASSUME NEW t \in Tables, NEW quietly \in BOOLEAN, RunFails(t, quietly)
      PROVE  AsksKept'
  <2>1. /\ run' = [run EXCEPT ![t] = "none"] /\ requested' = requested \ {t}
        /\ UNCHANGED <<idlePending, owed>>
    BY <1>3, Zenon DEF RunFails, Leave
  <2> QED
    BY <2>1 DEF TypeOK, AsksKept
<1>4. ASSUME NEW t \in Tables, Forget(t) PROVE AsksKept'
  <2>1. /\ requested' = requested \ {t} /\ idlePending' = idlePending \ {t}
        /\ owed' = [owed EXCEPT ![t] = "no"] /\ run' = run
    BY <1>4, Zenon DEF Forget
  <2> QED
    BY <2>1 DEF TypeOK, AsksKept
<1>5. ASSUME NEW t \in Tables, NEW idle \in BOOLEAN, NEW grown \in BOOLEAN,
             CheckEnds(t, idle, grown)
      PROVE  AsksKept'
  <2>1. Schedule(t, idle, grown) \/ UNCHANGED <<run, requested, idlePending, owed>>
    BY <1>5, Zenon DEF CheckEnds
  <2> QED
    BY <2>1, ScheduleEffect DEF AsksKept
<1>6. ASSUME NEW t \in Tables, NEW grown \in BOOLEAN, Scan(t, grown)
      PROVE  AsksKept'
  BY <1>6, ScheduleEffect DEF Scan
<1>7. CASE Stop
  BY <1>7 DEF AsksKept, Stop
<1>8. ASSUME UNCHANGED <<run, requested, idlePending, owed>> PROVE AsksKept'
  BY <1>8 DEF AsksKept
<1>9. ASSUME NEW t \in Tables,
             \/ Fold(t) \/ Continue(t) \/ RetryFires(t) \/ DropBegins(t) \/ DropFails(t)
             \/ \E idle \in BOOLEAN : CheckReads(t, idle) \/ CheckFails(t, idle)
             \/ \E outcome \in {"declined", "failed"} : WriterBacksOff(t, outcome)
      PROVE  AsksKept'
  BY <1>8, <1>9, Zenon
  DEF Fold, Continue, RetryFires, DropBegins, DropFails, CheckReads, CheckFails,
      WriterBacksOff
<1>10. CASE IdleFires \/ DrainRuns \/ DrainContinuations \/ UNCHANGED vars
  BY <1>8, <1>10, Zenon DEF IdleFires, DrainRuns, DrainContinuations, vars
<1> QED
  BY <1>1, <1>2, <1>3, <1>4, <1>5, <1>6, <1>7, <1>9, <1>10, Zenon DEF Next

(* The retry timers stay those of the backoffs, one each. *)
LEMMA TimersStep ==
  ASSUME Inv, [Next]_vars
  PROVE  TimersHeld'
<1> USE DEF Inv
<1>1. ASSUME UNCHANGED <<timers, backoff>> PROVE TimersHeld'
  BY <1>1 DEF TimersHeld
<1>2. ASSUME NEW t \in Tables, RunEnds(t) PROVE TimersHeld'
  <2>1. \/ UNCHANGED <<timers, backoff>> \/ ClearBackoff(t) \/ BackOff(t, "declined")
    BY <1>2, Zenon DEF RunEnds
  <2> QED
    BY <1>1, <2>1, BackOffEffect, ClearBackoffEffect
<1>3. ASSUME NEW t \in Tables, NEW quietly \in BOOLEAN, RunFails(t, quietly)
      PROVE  TimersHeld'
  <2>1. UNCHANGED <<timers, backoff>> \/ BackOff(t, "failed")
    BY <1>3, Zenon DEF RunFails
  <2> QED
    BY <1>1, <2>1, BackOffEffect
<1>4. ASSUME NEW t \in Tables, NEW outcome \in {"declined", "failed"},
             WriterBacksOff(t, outcome)
      PROVE  TimersHeld'
  BY <1>4, BackOffEffect DEF WriterBacksOff
<1>5. ASSUME NEW t \in Tables, Forget(t) PROVE TimersHeld'
  BY <1>5, ClearBackoffEffect DEF Forget
<1>6. ASSUME NEW t \in Tables, RetryFires(t) PROVE TimersHeld'
  <2>1. /\ timers[t] > 0 /\ timers' = [timers EXCEPT ![t] = @ - 1]
        /\ backoff' = [backoff EXCEPT ![t].timer = FALSE]
    BY <1>6, Zenon DEF RetryFires
  <2>2. timers'[t] = 0 /\ ~backoff'[t].timer
    BY <2>1 DEF TypeOK, TimersHeld
  <2>3. \A u \in Tables \ {t} : timers'[u] = timers[u] /\ backoff'[u] = backoff[u]
    BY <2>1 DEF TypeOK
  <2> QED
    BY <2>2, <2>3 DEF TimersHeld
<1>7. CASE Stop
  BY <1>7 DEF TypeOK, TimersHeld, Stop, TimersWithout, NoBackoff
<1>8. ASSUME NEW t \in Tables,
             \/ Commit(t) \/ Fold(t) \/ Continue(t) \/ DropBegins(t) \/ DropFails(t)
             \/ \E idle \in BOOLEAN : CheckReads(t, idle) \/ CheckFails(t, idle)
             \/ \E idle, grown \in BOOLEAN : CheckEnds(t, idle, grown)
             \/ \E grown \in BOOLEAN : Scan(t, grown)
      PROVE  TimersHeld'
  BY <1>1, <1>8, Zenon
  DEF Commit, Fold, Continue, DropBegins, DropFails, CheckReads, CheckFails, CheckEnds,
      Scan
<1>9. CASE IdleFires \/ DrainRuns \/ DrainContinuations \/ UNCHANGED vars
  BY <1>1, <1>9, Zenon DEF IdleFires, DrainRuns, DrainContinuations, vars
<1> QED
  BY <1>2, <1>3, <1>4, <1>5, <1>6, <1>7, <1>8, <1>9, Zenon DEF Next

(* What a step other than those of close() must not do once the controller  *)
(* has stopped: arm a timer, start a fold, or add to the work that drain()  *)
(* waits for.                                                               *)
StartsNothing ==
    /\ stopped' = stopped /\ drain' = drain
    /\ stopped =>
        /\ idleTimer' => idleTimer
        /\ \A t \in Tables :
            /\ backoff'[t].timer => backoff[t].timer
            /\ run[t] = "none" => run'[t] = "none"
            /\ yields[t] = 0 => yields'[t] = 0
            /\ \A idle \in BOOLEAN :
                /\ checks[t][idle] = 0 => checks'[t][idle] = 0
                /\ seen[t][idle] = 0 => seen'[t][idle] = 0

(* Every step but those of close() starts nothing once it was called. *)
LEMMA NothingStarted ==
  ASSUME Inv, [Next]_vars, ~Stop, ~DrainRuns, ~DrainContinuations
  PROVE  StartsNothing
<1> USE DEF Inv
<1>1. ASSUME NEW t \in Tables,
             \/ Commit(t) \/ Fold(t) \/ DropBegins(t)
             \/ \E grown \in BOOLEAN : Scan(t, grown)
      PROVE  StartsNothing
  BY <1>1, Zenon DEF Commit, Fold, DropBegins, Scan, StartsNothing
<1>2. ASSUME NEW t \in Tables, RunEnds(t) PROVE StartsNothing
  <2>1. /\ UNCHANGED <<stopped, drain, checks, seen, idleTimer>>
        /\ run' = [run EXCEPT ![t] = "none"]
        /\ stopped => yields' = yields
    BY <1>2, Zenon DEF RunEnds, Leave, idleVars
  <2>2. \/ UNCHANGED <<timers, backoff>> \/ ClearBackoff(t) \/ BackOff(t, "declined")
    BY <1>2, Zenon DEF RunEnds
  <2>3. stopped => \A u \in Tables : backoff'[u].timer => backoff[u].timer
    BY <2>2, BackOffEffect, ClearBackoffEffect
  <2> QED
    BY <2>1, <2>3 DEF StartsNothing, TypeOK
<1>3. ASSUME NEW t \in Tables, NEW quietly \in BOOLEAN, RunFails(t, quietly)
      PROVE  StartsNothing
  <2>1. /\ UNCHANGED <<stopped, drain, checks, seen, idleTimer>>
        /\ run' = [run EXCEPT ![t] = "none"]
        /\ stopped => yields' = yields
    BY <1>3, Zenon DEF RunFails, Leave, idleVars
  <2>2. UNCHANGED <<timers, backoff>> \/ BackOff(t, "failed")
    BY <1>3, Zenon DEF RunFails
  <2>3. stopped => backoff' = backoff
    BY <2>2, BackOffEffect
  <2> QED
    BY <2>1, <2>3 DEF StartsNothing, TypeOK
<1>4. ASSUME NEW t \in Tables, Continue(t) PROVE StartsNothing
  <2>1. /\ yields[t] > 0 /\ yields' = [yields EXCEPT ![t] = @ - 1]
        /\ UNCHANGED <<stopped, drain, run, backoff, seen, idleTimer>>
        /\ stopped => checks' = checks
    BY <1>4, Zenon DEF Continue, idleVars
  <2> QED
    BY <2>1 DEF StartsNothing, TypeOK
<1>5. ASSUME NEW t \in Tables, RetryFires(t) PROVE StartsNothing
  <2>1. timers[t] > 0 /\ stopped' = stopped /\ drain' = drain
    BY <1>5, Zenon DEF RetryFires
  <2>2. ~stopped
    BY <2>1 DEF TimersHeld, Closing
  <2> QED
    BY <2>1, <2>2, Zenon DEF StartsNothing
<1>6. ASSUME NEW t \in Tables, DropFails(t) PROVE StartsNothing
  BY <1>6, Zenon DEF DropFails, StartsNothing, idleVars
<1>7. ASSUME NEW t \in Tables, Forget(t) PROVE StartsNothing
  <2>1. /\ stopped => checks' = checks /\ ~idleTimer'
        /\ ClearBackoff(t)
        /\ UNCHANGED <<stopped, run, yields, seen, drain>>
    BY <1>7, Zenon DEF Forget
  <2>2. \A u \in Tables : backoff'[u].timer => backoff[u].timer
    BY <2>1, ClearBackoffEffect
  <2> QED
    BY <2>1, <2>2, Zenon DEF StartsNothing
<1>8. ASSUME NEW t \in Tables, NEW idle \in BOOLEAN, CheckReads(t, idle)
      PROVE  StartsNothing
  <2>1. /\ checks[t][idle] > 0 /\ checks' = [checks EXCEPT ![t][idle] = @ - 1]
        /\ stopped => seen' = seen
        /\ UNCHANGED <<stopped, run, backoff, yields, idleTimer, drain>>
    BY <1>8, Zenon DEF CheckReads, idleVars
  <2>2. \A u \in Tables, b \in BOOLEAN : checks[u][b] = 0 => checks'[u][b] = 0
    BY <2>1 DEF TypeOK
  <2> QED
    BY <2>1, <2>2, Zenon DEF StartsNothing
<1>9. ASSUME NEW t \in Tables, NEW idle \in BOOLEAN, CheckFails(t, idle)
      PROVE  StartsNothing
  <2>1. /\ seen[t][idle] > 0 /\ seen' = [seen EXCEPT ![t][idle] = @ - 1]
        /\ UNCHANGED <<stopped, run, backoff, yields, checks, idleTimer, drain>>
    BY <1>9, Zenon DEF CheckFails, idleVars
  <2>2. \A u \in Tables, b \in BOOLEAN : seen[u][b] = 0 => seen'[u][b] = 0
    BY <2>1 DEF TypeOK
  <2> QED
    BY <2>1, <2>2, Zenon DEF StartsNothing
<1>10. ASSUME NEW t \in Tables, NEW idle \in BOOLEAN, NEW grown \in BOOLEAN,
              CheckEnds(t, idle, grown)
       PROVE  StartsNothing
  <2>1. /\ seen[t][idle] > 0 /\ seen' = [seen EXCEPT ![t][idle] = @ - 1]
        /\ Schedule(t, idle, grown) \/ run' = run
        /\ UNCHANGED <<stopped, backoff, yields, checks, idleTimer, drain>>
    BY <1>10, Zenon DEF CheckEnds, idleVars
  <2>2. \A u \in Tables, b \in BOOLEAN : seen[u][b] = 0 => seen'[u][b] = 0
    BY <2>1 DEF TypeOK
  <2>3. stopped => run' = run
    BY <2>1, ScheduleEffect
  <2> QED
    BY <2>1, <2>2, <2>3, Zenon DEF StartsNothing
<1>11. ASSUME NEW t \in Tables, NEW outcome \in {"declined", "failed"},
              WriterBacksOff(t, outcome)
       PROVE  StartsNothing
  <2>1. stopped => backoff' = backoff
    BY <1>11, BackOffEffect DEF WriterBacksOff
  <2> QED
    BY <1>11, <2>1, Zenon DEF WriterBacksOff, StartsNothing, idleVars
<1>12. CASE IdleFires
  BY <1>12, Zenon DEF IdleFires, Closing, StartsNothing
<1>13. CASE UNCHANGED vars
  BY <1>13, Zenon DEF vars, idleVars, StartsNothing
<1> QED
  BY <1>1, <1>2, <1>3, <1>4, <1>5, <1>6, <1>7, <1>8, <1>9, <1>10, <1>11, <1>12,
     <1>13, Zenon DEF Next

(* close() is passed through in its order, and nothing it has seen ended    *)
(* starts again.                                                            *)
LEMMA ClosingStep ==
  ASSUME Inv, [Next]_vars
  PROVE  Closing'
<1> USE DEF Inv
<1>1. CASE Stop
  BY <1>1 DEF Closing, Stop, NoBackoff
<1>2. CASE DrainRuns
  BY <1>2, Zenon DEF Closing, DrainRuns, idleVars
<1>3. CASE DrainContinuations
  <2>1. \A t \in Tables, idle \in BOOLEAN : checks[t][idle] \in Nat /\ seen[t][idle] \in Nat
    BY DEF TypeOK
  <2>2. \A t \in Tables, idle \in BOOLEAN : checks[t][idle] + seen[t][idle] = 0
    BY <1>3, Zenon DEF DrainContinuations
  <2>3. \A t \in Tables, idle \in BOOLEAN : checks[t][idle] = 0 /\ seen[t][idle] = 0
    BY <2>1, <2>2
  <2> QED
    BY <1>3, <2>3, Zenon DEF Closing, DrainContinuations, idleVars
<1>4. CASE ~Stop /\ ~DrainRuns /\ ~DrainContinuations
  <2>1. StartsNothing
    BY <1>4, NothingStarted
  <2> QED
    BY <2>1, Zenon DEF StartsNothing, Closing
<1> QED
  BY <1>1, <1>2, <1>3, <1>4

(* The invariant holds in every reachable state. *)
THEOREM Invariance == Spec => []Inv
<1>1. Inv /\ [Next]_vars => Inv'
  BY TypeStep, AsksStep, TimersStep, ClosingStep DEF Inv
<1> QED
  BY InitInv, <1>1, PTL DEF Spec

(* The controller's state always has its type. *)
THEOREM TypeCorrect == Spec => []TypeOK
<1>1. Inv => TypeOK
  BY DEF Inv
<1> QED
  BY Invariance, <1>1, PTL

(* schedule() drops no request: one that found a fold running has a fold to *)
(* take it over, and a quiet check that asked for a run is remembered.      *)
THEOREM RequestsKept == Spec => []AsksKept
<1>1. Inv => AsksKept
  BY DEF Inv
<1> QED
  BY Invariance, <1>1, PTL

(* Once drain() resolves, no fold, check, continuation or timer is left. *)
THEOREM Quiescence == Spec => []DrainedIsQuiet
<1>1. Inv => DrainedIsQuiet
  <2> SUFFICES ASSUME Inv, drain = "done" PROVE DrainedIsQuiet
    BY DEF DrainedIsQuiet
  <2>1. stopped /\ ~idleTimer
    BY DEF Inv, Closing
  <2>2. \A t \in Tables : run[t] = "none" /\ timers[t] = 0 /\ yields[t] = 0
    BY <2>1 DEF Inv, Closing, TimersHeld
  <2>3. \A t \in Tables : \A idle \in BOOLEAN : checks[t][idle] + seen[t][idle] = 0
    BY DEF Inv, Closing
  <2> QED
    BY <2>1, <2>2, <2>3 DEF DrainedIsQuiet
<1> QED
  BY Invariance, <1>1, PTL
===============================================================================
