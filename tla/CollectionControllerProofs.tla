----------------------- MODULE CollectionControllerProofs -----------------------
(***************************************************************************)
(* Proofs about CollectionController for any debt limit, commit interval,  *)
(* set of writers and bounds, with automatic collection on or off.         *)
(***************************************************************************)
EXTENDS CollectionController, FiniteSetTheorems, TLAPS

(* The types of the flags, and of everything that is counted. *)
Flags ==
    /\ enabled \in BOOLEAN
    /\ stopped \in BOOLEAN /\ running \in BOOLEAN /\ requested \in BOOLEAN
    /\ initialized \in BOOLEAN /\ started \in BOOLEAN
    /\ retry \in BOOLEAN /\ idle \in BOOLEAN /\ cont \in BOOLEAN
    /\ leftover \in BOOLEAN

Counts ==
    /\ debt \in Nat /\ commits \in Nat
    /\ older \in 0 .. MaxYields
    /\ writer \in [Writers -> {"out", "reading", "awaiting", "resumed", "passed"}]
    /\ captured \in [Writers -> Nat]
    /\ drain \in {"none", "task", "continuation", "done"}
    /\ made \in 0 .. MaxCommits /\ passes \in 0 .. MaxPasses
    /\ unassisted \in Nat

(* What close() adds: a stopped controller arms no timer, any request it    *)
(* still holds belongs to the run that drain joins or to the continuation   *)
(* that run installs, and drain has passed each wait only once it is over.  *)
Closing ==
    /\ stopped <=> drain # "none"
    /\ stopped => ~retry /\ ~idle /\ (requested => running \/ cont)
    /\ drain \in {"continuation", "done"} => ~running
    /\ drain = "done" => ~cont

(* With automatic collection off schedule() never starts anything. *)
Disabled == enabled \/ (~running /\ ~requested /\ ~cont /\ ~retry /\ ~idle)

(* The ownership half of the inductive invariant. *)
Owned == Flags /\ RequestHasOwner /\ LeftoverShows /\ Closing /\ Disabled

(* The two halves of the type invariant. *)
LEMMA TypeParts == TypeOK <=> Flags /\ Counts
  BY Zenon DEF TypeOK, Flags, Counts

(* The constructor and start() establish the invariant. *)
LEMMA InitInv == Init => Owned /\ Counts
<1> SUFFICES ASSUME Init PROVE Owned /\ Counts
  OBVIOUS
<1>1. Flags
  BY CollectionAssumption, Zenon DEF Init, Flags
<1>2. Counts
  BY CollectionAssumption DEF Init, Counts
<1>3. RequestHasOwner /\ LeftoverShows
  BY Zenon DEF Init, RequestHasOwner, LeftoverShows
<1>4. Closing /\ Disabled
  BY Zenon DEF Init, Closing, Disabled
<1> QED
  BY <1>1, <1>2, <1>3, <1>4 DEF Owned

(* Every step keeps the flags, the owner of a request, the visibility of    *)
(* what a run left, and the order of close().                               *)
LEMMA OwnedStep ==
  ASSUME Owned, Counts, [Next]_vars
  PROVE  Owned'
<1> USE CollectionAssumption
<1>1. ASSUME NEW w \in Writers, NEW late \in BOOLEAN, Commit(w, late) PROVE Owned'
  BY <1>1, Zenon
  DEF Owned, Flags, RequestHasOwner, LeftoverShows, Closing, Disabled, Commit,
      Committed, Schedule, ArmIdle
<1>2. ASSUME NEW w \in Writers, GiveUp(w) PROVE Owned'
  BY <1>2, Zenon
  DEF Owned, Flags, RequestHasOwner, LeftoverShows, Closing, Disabled, GiveUp,
      runVars, timeVars, countVars
<1>3. ASSUME NEW late \in BOOLEAN, CommitUnassisted(late) PROVE Owned'
  BY <1>3, Zenon
  DEF Owned, Flags, RequestHasOwner, LeftoverShows, Closing, Disabled,
      CommitUnassisted, Committed, Schedule, ArmIdle, writerVars
<1>4. CASE FoldFinished
  BY <1>4, Zenon
  DEF Owned, Flags, RequestHasOwner, LeftoverShows, Closing, Disabled, FoldFinished,
      Schedule, timeVars, writerVars, countVars
<1>5. CASE CollectedManually
  BY <1>5, Zenon
  DEF Owned, Flags, RequestHasOwner, LeftoverShows, Closing, Disabled,
      CollectedManually, timeVars, writerVars
<1>6. ASSUME NEW w \in Writers, AssistReads(w) PROVE Owned'
  BY <1>6, Zenon
  DEF Owned, Flags, RequestHasOwner, LeftoverShows, Closing, Disabled, AssistReads,
      runVars, timeVars, countVars
<1>7. ASSUME NEW w \in Writers, AssistInitializes(w) PROVE Owned'
  BY <1>7, Zenon
  DEF Owned, Flags, RequestHasOwner, LeftoverShows, Closing, Disabled,
      AssistInitializes, Judge, Schedule, runVars, timeVars, countVars
<1>8. ASSUME NEW w \in Writers, AssistReadFails(w) PROVE Owned'
  BY <1>8, Zenon
  DEF Owned, Flags, RequestHasOwner, LeftoverShows, Closing, Disabled,
      AssistReadFails, runVars, timeVars, countVars
<1>9. ASSUME NEW w \in Writers, Assist(w) PROVE Owned'
  BY <1>9, Zenon
  DEF Owned, Flags, RequestHasOwner, LeftoverShows, Closing, Disabled, Assist, Judge,
      Schedule, runVars, timeVars, countVars
<1>10. ASSUME NEW w \in Writers, AssistResumes(w) PROVE Owned'
  BY <1>10, Zenon
  DEF Owned, Flags, RequestHasOwner, LeftoverShows, Closing, Disabled, AssistResumes,
      runVars, timeVars, countVars
<1>11. ASSUME NEW moreWork \in BOOLEAN, NEW reclaimed \in BOOLEAN, RunEnds(moreWork, reclaimed)
       PROVE  Owned'
  BY <1>11, Zenon
  DEF Owned, Flags, RequestHasOwner, LeftoverShows, Closing, Disabled, RunEnds, Leave,
      countVars
<1>12. CASE RunConflicts
  BY <1>12, Zenon
  DEF Owned, Flags, RequestHasOwner, LeftoverShows, Closing, Disabled, RunConflicts,
      Leave, countVars
<1>13. CASE RunFails
  BY <1>13, Zenon
  DEF Owned, Flags, RequestHasOwner, LeftoverShows, Closing, Disabled, RunFails,
      Leave, countVars
<1>14. CASE RunRefused
  BY <1>14, Zenon
  DEF Owned, Flags, RequestHasOwner, LeftoverShows, Closing, Disabled, RunRefused,
      Leave, countVars
<1>15. CASE Continue
  <2>1. cont' = FALSE /\ UNCHANGED <<enabled, stopped, drain, idle, initialized>>
    BY <1>15, Zenon DEF Continue
  <2>2. CASE stopped
    <3>1. requested' = FALSE /\ UNCHANGED <<running, started, retry, leftover>>
      BY <1>15, <2>2, Zenon DEF Continue, ContinueBody
    <3> QED
      BY <2>1, <2>2, <3>1, Zenon
      DEF Owned, Flags, RequestHasOwner, LeftoverShows, Closing, Disabled
  <2>3. CASE ~stopped /\ running
    <3>1. UNCHANGED <<running, requested, started, retry, leftover>>
      BY <1>15, <2>3, Zenon DEF Continue, ContinueBody, runVars
    <3> QED
      BY <2>1, <2>3, <3>1, Zenon
      DEF Owned, Flags, RequestHasOwner, LeftoverShows, Closing, Disabled
  <2>4. CASE ~stopped /\ ~running
    <3>1. Schedule(FALSE, commits)
      BY <1>15, <2>4, Zenon DEF Continue, ContinueBody
    <3>2. CASE retry \/ ~enabled
      <4>1. requested' = requested /\ UNCHANGED <<running, started, retry, leftover>>
        BY <2>4, <3>1, <3>2, Zenon DEF Schedule, Owned, Flags
      <4> QED
        BY <2>1, <2>4, <3>2, <4>1, Zenon
        DEF Owned, Flags, RequestHasOwner, LeftoverShows, Closing, Disabled
    <3>3. CASE ~retry /\ enabled
      <4>1. /\ running' = TRUE /\ requested' = FALSE /\ retry' = FALSE
            /\ started' = TRUE /\ leftover' = FALSE
        BY <2>4, <3>1, <3>3, Zenon DEF Schedule
      <4> QED
        BY <2>1, <2>4, <3>3, <4>1, Zenon
        DEF Owned, Flags, RequestHasOwner, LeftoverShows, Closing, Disabled
    <3> QED
      BY <3>2, <3>3, Zenon DEF Owned, Flags
  <2> QED
    BY <2>2, <2>3, <2>4, Zenon
<1>16. CASE ContinueOlder
  <2>1. cont' = cont /\ UNCHANGED <<enabled, stopped, drain, idle, initialized>>
    BY <1>16, Zenon DEF ContinueOlder
  <2>2. CASE stopped
    <3>1. requested' = FALSE /\ UNCHANGED <<running, started, retry, leftover>>
      BY <1>16, <2>2, Zenon DEF ContinueOlder, ContinueBody
    <3> QED
      BY <2>1, <2>2, <3>1, Zenon
      DEF Owned, Flags, RequestHasOwner, LeftoverShows, Closing, Disabled
  <2>3. CASE ~stopped /\ running
    <3>1. UNCHANGED <<running, requested, started, retry, leftover>>
      BY <1>16, <2>3, Zenon DEF ContinueOlder, ContinueBody, runVars
    <3> QED
      BY <2>1, <2>3, <3>1, Zenon
      DEF Owned, Flags, RequestHasOwner, LeftoverShows, Closing, Disabled
  <2>4. CASE ~stopped /\ ~running
    <3>1. Schedule(FALSE, commits)
      BY <1>16, <2>4, Zenon DEF ContinueOlder, ContinueBody
    <3>2. CASE retry \/ ~enabled
      <4>1. requested' = requested /\ UNCHANGED <<running, started, retry, leftover>>
        BY <2>4, <3>1, <3>2, Zenon DEF Schedule, Owned, Flags
      <4> QED
        BY <2>1, <2>4, <3>2, <4>1, Zenon
        DEF Owned, Flags, RequestHasOwner, LeftoverShows, Closing, Disabled
    <3>3. CASE ~retry /\ enabled
      <4>1. /\ running' = TRUE /\ requested' = FALSE /\ retry' = FALSE
            /\ started' = TRUE /\ leftover' = FALSE
        BY <2>4, <3>1, <3>3, Zenon DEF Schedule
      <4> QED
        BY <2>1, <2>4, <3>3, <4>1, Zenon
        DEF Owned, Flags, RequestHasOwner, LeftoverShows, Closing, Disabled
    <3> QED
      BY <3>2, <3>3, Zenon DEF Owned, Flags
  <2> QED
    BY <2>2, <2>3, <2>4, Zenon
<1>17. CASE RetryFires
  BY <1>17, Zenon
  DEF Owned, Flags, RequestHasOwner, LeftoverShows, Closing, Disabled, RetryFires,
      Schedule, timeVars, writerVars, countVars
<1>18. CASE IdleFires
  BY <1>18, Zenon
  DEF Owned, Flags, RequestHasOwner, LeftoverShows, Closing, Disabled, IdleFires,
      Schedule, writerVars, countVars
<1>19. CASE Stop
  BY <1>19, Zenon
  DEF Owned, Flags, RequestHasOwner, LeftoverShows, Closing, Disabled, Stop,
      writerVars, countVars
<1>20. CASE DrainTask
  BY <1>20, Zenon
  DEF Owned, Flags, RequestHasOwner, LeftoverShows, Closing, Disabled, DrainTask,
      runVars, timeVars, writerVars, countVars
<1>21. CASE DrainContinuation
  BY <1>21, Zenon
  DEF Owned, Flags, RequestHasOwner, LeftoverShows, Closing, Disabled,
      DrainContinuation, runVars, timeVars, writerVars, countVars
<1>22. CASE UNCHANGED vars
  BY <1>22, Zenon
  DEF Owned, Flags, RequestHasOwner, LeftoverShows, Closing, Disabled, vars, runVars,
      timeVars, writerVars, countVars
<1> QED
  BY <1>1, <1>2, <1>3, <1>4, <1>5, <1>6, <1>7, <1>8, <1>9, <1>10, <1>11, <1>12, <1>13,
     <1>14, <1>15, <1>16, <1>17, <1>18, <1>19, <1>20, <1>21, <1>22, Zenon
  DEF Next, RunNext

(* Every step keeps the types of the counters. *)
LEMMA CountsStep ==
  ASSUME Owned, Counts, [Next]_vars
  PROVE  Counts'
<1> USE CollectionAssumption
<1>1. ASSUME NEW w \in Writers, NEW late \in BOOLEAN, Commit(w, late) PROVE Counts'
  BY <1>1 DEF Counts, Commit, Committed, Schedule, ArmIdle
<1>2. ASSUME NEW w \in Writers, GiveUp(w) PROVE Counts'
  BY <1>2 DEF Counts, GiveUp, runVars, timeVars, countVars
<1>3. ASSUME NEW late \in BOOLEAN, CommitUnassisted(late) PROVE Counts'
  BY <1>3 DEF Counts, CommitUnassisted, Committed, Schedule, ArmIdle, writerVars
<1>4. CASE FoldFinished
  BY <1>4 DEF Counts, FoldFinished, Schedule, timeVars, writerVars, countVars
<1>5. CASE CollectedManually
  BY <1>5 DEF Counts, CollectedManually, timeVars, writerVars
<1>6. ASSUME NEW w \in Writers, AssistReads(w) PROVE Counts'
  BY <1>6 DEF Counts, AssistReads, runVars, timeVars, countVars
<1>7. ASSUME NEW w \in Writers, AssistInitializes(w) PROVE Counts'
  BY <1>7 DEF Counts, AssistInitializes, Judge, Schedule, runVars, timeVars, countVars
<1>8. ASSUME NEW w \in Writers, AssistReadFails(w) PROVE Counts'
  BY <1>8 DEF Counts, AssistReadFails, runVars, timeVars, countVars
<1>9. ASSUME NEW w \in Writers, Assist(w) PROVE Counts'
  BY <1>9 DEF Counts, Assist, Judge, Schedule, runVars, timeVars, countVars
<1>10. ASSUME NEW w \in Writers, AssistResumes(w) PROVE Counts'
  BY <1>10 DEF Counts, AssistResumes, runVars, timeVars, countVars
<1>11. ASSUME NEW moreWork \in BOOLEAN, NEW reclaimed \in BOOLEAN, RunEnds(moreWork, reclaimed)
       PROVE  Counts'
  BY <1>11 DEF Counts, RunEnds, Leave, countVars
<1>12. CASE RunConflicts
  BY <1>12 DEF Counts, RunConflicts, Leave, countVars
<1>13. CASE RunFails
  BY <1>13 DEF Counts, RunFails, Leave, countVars
<1>14. CASE RunRefused
  BY <1>14 DEF Counts, RunRefused, Leave, countVars
<1>15. CASE Continue
  BY <1>15 DEF Counts, Continue, ContinueBody, Schedule, runVars, writerVars, countVars
<1>16. CASE ContinueOlder
  BY <1>16
  DEF Counts, ContinueOlder, ContinueBody, Schedule, runVars, writerVars, countVars
<1>17. CASE RetryFires
  <2>1. commits' = commits \/ commits' = 0
    BY <1>17, Zenon DEF RetryFires, Schedule
  <2>2. UNCHANGED <<debt, drain, older, writer, captured, made, passes, unassisted>>
    BY <1>17, Zenon DEF RetryFires, timeVars, writerVars, countVars
  <2> QED
    BY <2>1, <2>2 DEF Counts
<1>18. CASE IdleFires
  BY <1>18 DEF Counts, IdleFires, Schedule, writerVars, countVars
<1>19. CASE Stop
  BY <1>19 DEF Counts, Stop, writerVars, countVars
<1>20. CASE DrainTask
  BY <1>20 DEF Counts, DrainTask, runVars, timeVars, writerVars, countVars
<1>21. CASE DrainContinuation
  BY <1>21 DEF Counts, DrainContinuation, runVars, timeVars, writerVars, countVars
<1>22. CASE UNCHANGED vars
  BY <1>22 DEF Counts, vars, runVars, timeVars, writerVars, countVars
<1> QED
  BY <1>1, <1>2, <1>3, <1>4, <1>5, <1>6, <1>7, <1>8, <1>9, <1>10, <1>11, <1>12, <1>13,
     <1>14, <1>15, <1>16, <1>17, <1>18, <1>19, <1>20, <1>21, <1>22, Zenon
  DEF Next, RunNext

(* The invariant holds throughout every behaviour. *)
LEMMA Invariance == Spec => [](Owned /\ Counts)
<1>1. (Owned /\ Counts) /\ [Next]_vars => (Owned /\ Counts)'
  BY OwnedStep, CountsStep
<1> QED
  BY InitInv, <1>1, PTL DEF Spec

(* Type correctness: the debt and the counters of collection-controller.ts  *)
(* never leave the naturals.                                                *)
THEOREM TypeCorrect == Spec => []TypeOK
<1>1. Owned /\ Counts => TypeOK
  BY TypeParts DEF Owned
<1> QED
  BY Invariance, <1>1, PTL

(* The flag collectionRequested always has a run, a continuation or a retry *)
(* that will take it up, in whatever order commits, folds, writers, timers  *)
(* and settling runs schedule, cancel and overtake one another.             *)
THEOREM RequestsOwned == Spec => []RequestHasOwner
<1>1. Owned /\ Counts => RequestHasOwner
  BY DEF Owned
<1> QED
  BY Invariance, <1>1, PTL

(* maintenanceStatus never shows an idle collector while the last run left  *)
(* work behind or failed.                                                   *)
THEOREM NoFalseIdle == Spec => []LeftoverShows
<1>1. Owned /\ Counts => LeftoverShows
  BY DEF Owned
<1> QED
  BY Invariance, <1>1, PTL

(* When drain() resolves, close() may dispose of the store: no run is under *)
(* way and neither a request, a retry nor the idle timer can start one.     *)
THEOREM DrainQuiet == Spec => []DrainedIsQuiet
<1>1. Owned /\ Counts => DrainedIsQuiet
  BY Zenon DEF Owned, Closing, DrainedIsQuiet
<1> QED
  BY Invariance, <1>1, PTL

-------------------------------------------------------------------------------
(* The writers that assist() has let through and that have not committed. *)
Passed == {w \in Writers : writer[w] = "passed"}

(* In manual mode nobody passes before the first writer has initialized the *)
(* debt, and until then only unassisted commits have raised it.  That is    *)
(* why a value that a writer read before its await can only be that small.  *)
Before ==
    \/ enabled \/ initialized
    \/ debt <= unassisted /\ \A w \in Writers : writer[w] \in {"out", "reading"}
Reading == \A w \in Writers : writer[w] = "reading" => captured[w] <= unassisted

(* The inductive form of DebtBounded. *)
DebtInv == DebtBounded /\ Before /\ Reading

(* Cardinalities of sets of writers. *)
LEMMA WriterSets ==
  ASSUME NEW S \in SUBSET Writers
  PROVE  /\ IsFiniteSet(S) /\ Cardinality(S) \in Nat
         /\ Cardinality(Writers) \in Nat
         /\ Cardinality(S) <= Cardinality(Writers)
         /\ \A w \in S : Cardinality(S \ {w}) = Cardinality(S) - 1
         /\ \A w \in Writers \ S : Cardinality(S) <= Cardinality(Writers) - 1
<1>1. IsFiniteSet(S) /\ Cardinality(S) <= Cardinality(Writers)
  BY FS_Subset, CollectionAssumption
<1>2. Cardinality(S) \in Nat /\ Cardinality(Writers) \in Nat
  BY <1>1, FS_CardinalityType, CollectionAssumption
<1>3. ASSUME NEW w \in S PROVE Cardinality(S \ {w}) = Cardinality(S) - 1
  BY <1>1, FS_RemoveElement
<1>4. ASSUME NEW w \in Writers \ S PROVE Cardinality(S) <= Cardinality(Writers) - 1
  <2>1. S \subseteq Writers \ {w}
    OBVIOUS
  <2>2. IsFiniteSet(Writers \ {w}) /\ Cardinality(Writers \ {w}) = Cardinality(Writers) - 1
    BY FS_RemoveElement, CollectionAssumption
  <2> QED
    BY <2>1, <2>2, FS_Subset
<1> QED
  BY <1>1, <1>2, <1>3, <1>4

(* A step that lets nobody through, and whose commits are all unassisted,   *)
(* keeps the bound: it raises the debt by as much as it raises unassisted.  *)
LEMMA NobodyPasses ==
  ASSUME Counts, Counts', DebtInv,
         Passed' \subseteq Passed,
         \/ debt' = 0
         \/ debt' = debt /\ unassisted' = unassisted
         \/ debt' = debt + 1 /\ unassisted' = unassisted + 1,
         unassisted <= unassisted'
  PROVE  DebtBounded'
<1>1. Passed \in SUBSET Writers /\ Passed' \in SUBSET Writers
  BY DEF Passed
<1>2. Cardinality(Passed') <= Cardinality(Passed)
  BY <1>1, WriterSets, FS_Subset
<1>3. /\ Cardinality(Passed) \in Nat /\ Cardinality(Passed') \in Nat
      /\ Cardinality(Writers) \in Nat /\ Cardinality(Passed') <= Cardinality(Writers)
  BY <1>1, WriterSets
<1>4. debt + Cardinality(Passed) <= DebtLimit + Cardinality(Writers) - 1 + unassisted
  BY DEF DebtInv, DebtBounded, Passed
<1>5. debt' + Cardinality(Passed') <= DebtLimit + Cardinality(Writers) - 1 + unassisted'
  BY <1>2, <1>3, <1>4, CollectionAssumption DEF Counts
<1> QED
  BY <1>5 DEF DebtBounded, Passed

(* A writer that commits leaves the writers that were let through. *)
LEMMA OneCommits ==
  ASSUME Counts, Counts', DebtInv, NEW w \in Passed,
         Passed' = Passed \ {w},
         debt' = debt + 1, unassisted' = unassisted
  PROVE  DebtBounded'
<1>1. Passed \in SUBSET Writers
  BY DEF Passed
<1>2. Cardinality(Passed') = Cardinality(Passed) - 1
  BY <1>1, WriterSets
<1>3. Cardinality(Passed) \in Nat /\ Cardinality(Writers) \in Nat
  BY <1>1, WriterSets
<1>4. debt + Cardinality(Passed) <= DebtLimit + Cardinality(Writers) - 1 + unassisted
  BY DEF DebtInv, DebtBounded, Passed
<1>5. debt' + Cardinality(Passed') <= DebtLimit + Cardinality(Writers) - 1 + unassisted'
  BY <1>2, <1>3, <1>4, CollectionAssumption DEF Counts
<1> QED
  BY <1>5 DEF DebtBounded, Passed

(* The sum a refused writer's step needs. *)
LEMMA Sums ==
  ASSUME NEW d \in Nat, NEW p \in Nat, NEW l \in Nat, NEW n \in Nat, NEW u \in Nat,
         d <= l + u, p <= n - 1
  PROVE  d + p <= l + n - 1 + u
  OBVIOUS

(* A writer that passes does so below the limit, and one that does not is   *)
(* missing from the writers that were let through.                          *)
LEMMA Judged ==
  ASSUME Counts, Counts', NEW w \in Writers,
         \/ debt' < DebtLimit
         \/ debt' <= DebtLimit + unassisted' /\ w \notin Passed'
  PROVE  DebtBounded'
<1>1. Passed' \in SUBSET Writers
  BY DEF Passed
<1>2. /\ Cardinality(Passed') \in Nat /\ Cardinality(Writers) \in Nat
      /\ Cardinality(Passed') <= Cardinality(Writers)
      /\ w \notin Passed' => Cardinality(Passed') <= Cardinality(Writers) - 1
  BY <1>1, WriterSets
<1>3. debt' \in Nat /\ unassisted' \in Nat /\ DebtLimit \in Nat
  BY CollectionAssumption DEF Counts
<1>4. debt' + Cardinality(Passed') <= DebtLimit + Cardinality(Writers) - 1 + unassisted'
  <2>1. CASE debt' < DebtLimit
    BY <1>2, <1>3, <2>1
  <2>2. CASE debt' <= DebtLimit + unassisted' /\ w \notin Passed'
    <3>1. Cardinality(Passed') <= Cardinality(Writers) - 1
      BY <1>2, <2>2, Zenon
    <3>2. debt' <= DebtLimit + unassisted'
      BY <2>2, Zenon
    <3>3. Cardinality(Passed') \in Nat /\ Cardinality(Writers) \in Nat
      BY <1>2, Zenon
    <3> QED
      BY <1>3, <3>1, <3>2, <3>3, Sums
  <2> QED
    BY <2>1, <2>2
<1> QED
  BY <1>4 DEF DebtBounded, Passed

(* Every step keeps the bound on the debt. *)
LEMMA DebtStep ==
  ASSUME Counts, Counts', DebtInv, [Next]_vars
  PROVE  DebtInv'
<1> USE CollectionAssumption
<1>1. ASSUME NEW w \in Writers, NEW late \in BOOLEAN, Commit(w, late)
      PROVE  DebtInv'
  <2>1. /\ w \in Passed /\ Passed' = Passed \ {w}
        /\ debt' = debt + 1 /\ UNCHANGED <<unassisted, captured, initialized, enabled>>
        /\ \A v \in Writers : writer'[v] = "reading" => writer[v] = "reading"
        /\ writer[w] = "passed"
    BY <1>1 DEF Commit, Committed, Passed, Counts
  <2>2. Reading'
    BY <2>1 DEF DebtInv, Reading
  <2>3. Before'
    BY <2>1 DEF DebtInv, Before
  <2> QED
    BY <2>1, <2>2, <2>3, OneCommits DEF DebtInv
<1>2. ASSUME NEW w \in Writers, GiveUp(w)
      PROVE  DebtInv'
  <2>1. /\ Passed' \subseteq Passed
        /\ UNCHANGED <<debt, unassisted, captured, initialized, enabled>>
        /\ \A v \in Writers : writer'[v] = "reading" => writer[v] = "reading"
        /\ writer[w] = "passed"
    BY <1>2 DEF GiveUp, Passed, Counts, countVars
  <2>2. Before' /\ Reading'
    BY <2>1 DEF DebtInv, Before, Reading
  <2> QED
    BY <2>1, <2>2, NobodyPasses DEF DebtInv, Counts
<1>3. ASSUME NEW late \in BOOLEAN, CommitUnassisted(late)
      PROVE  DebtInv'
  <2>1. /\ debt' = debt + 1 /\ unassisted' = unassisted + 1
        /\ UNCHANGED <<writer, captured, initialized, enabled>>
    BY <1>3 DEF CommitUnassisted, Committed, writerVars
  <2>2. Before' /\ Reading' /\ Passed' = Passed
    BY <2>1 DEF DebtInv, Before, Reading, Passed, Counts
  <2> QED
    BY <2>1, <2>2, NobodyPasses DEF DebtInv, Counts
<1>4. ASSUME UNCHANGED <<debt, unassisted, writer, captured, initialized, enabled>>
      PROVE  DebtInv'
  <2>1. Before' /\ Reading' /\ Passed' = Passed
    BY <1>4 DEF DebtInv, Before, Reading, Passed
  <2> QED
    BY <1>4, <2>1, NobodyPasses DEF DebtInv, Counts
<1>5. CASE CollectedManually
  <2>1. debt' = 0 /\ initialized' = TRUE /\ UNCHANGED <<unassisted, writer, captured>>
    BY <1>5 DEF CollectedManually, writerVars
  <2>2. Reading' /\ Passed' = Passed
    BY <2>1 DEF DebtInv, Reading, Passed
  <2>3. Before'
    BY <2>1, Zenon DEF Before
  <2> QED
    BY <2>1, <2>2, <2>3, NobodyPasses DEF DebtInv, Counts
<1>6. ASSUME NEW w \in Writers, AssistReads(w)
      PROVE  DebtInv'
  <2>1. /\ UNCHANGED <<debt, unassisted, initialized, enabled>>
        /\ writer' = [writer EXCEPT ![w] = "reading"]
        /\ captured' = [captured EXCEPT ![w] = debt]
    BY <1>6 DEF AssistReads, countVars
  <2>2. debt <= unassisted /\ \A v \in Writers : writer[v] \in {"out", "reading"}
    BY <1>6, Zenon DEF AssistReads, DebtInv, Before
  <2>3. Passed' \subseteq Passed
    BY <2>1 DEF Passed, Counts
  <2>4. Reading'
    BY <2>1, <2>2 DEF DebtInv, Reading, Counts
  <2>5. Before'
    BY <2>1, <2>2 DEF Before, Counts
  <2> QED
    BY <2>1, <2>3, <2>4, <2>5, NobodyPasses DEF DebtInv, Counts
<1>7. ASSUME NEW w \in Writers, AssistInitializes(w)
      PROVE  DebtInv'
  <2>1. PICK durable \in 0 .. DebtLimit :
          /\ debt' = IF captured[w] > durable THEN captured[w] ELSE durable
          /\ Judge(w, IF captured[w] > durable THEN captured[w] ELSE durable)
    BY <1>7 DEF AssistInitializes
  <2>2. /\ initialized' = TRUE /\ unassisted' = unassisted
        /\ captured' = [captured EXCEPT ![w] = 0]
        /\ writer[w] = "reading"
    BY <1>7 DEF AssistInitializes, countVars
  <2>3. debt' <= DebtLimit + unassisted'
    BY <2>1, <2>2 DEF DebtInv, Reading, Counts
  <2>4. /\ \E x \in {"out", "awaiting", "resumed", "passed"} :
              writer' = [writer EXCEPT ![w] = x]
        /\ debt' < DebtLimit \/ writer' = [writer EXCEPT ![w] = "out"]
           \/ writer' = [writer EXCEPT ![w] = "awaiting"]
           \/ writer' = [writer EXCEPT ![w] = "resumed"]
    BY <2>1 DEF Judge
  <2>5. debt' < DebtLimit \/ w \notin Passed'
    BY <2>4 DEF Passed, Counts
  <2>6. Reading'
    BY <2>2, <2>4 DEF DebtInv, Reading, Counts
  <2>7. Before'
    BY <2>2, Zenon DEF Before
  <2> QED
    BY <2>3, <2>5, <2>6, <2>7, Judged DEF DebtInv
<1>8. ASSUME NEW w \in Writers, AssistReadFails(w)
      PROVE  DebtInv'
  <2>1. /\ Passed' \subseteq Passed
        /\ UNCHANGED <<debt, unassisted, initialized, enabled>>
        /\ captured' = [captured EXCEPT ![w] = 0]
        /\ \A v \in Writers : writer'[v] \in {writer[v], "out"}
    BY <1>8 DEF AssistReadFails, Passed, Counts, countVars
  <2>2. Before' /\ Reading'
    BY <2>1 DEF DebtInv, Before, Reading, Counts
  <2> QED
    BY <2>1, <2>2, NobodyPasses DEF DebtInv, Counts
<1>9. ASSUME NEW w \in Writers, NEW x \in {"out", "awaiting", "resumed", "passed"},
             writer[w] \in {"out", "resumed"},
             writer' = [writer EXCEPT ![w] = x],
             x = "passed" => debt < DebtLimit,
             x # "out" => enabled \/ initialized,
             UNCHANGED <<debt, unassisted, captured, initialized, enabled>>
      PROVE  DebtInv'
  <2>1. Reading'
    BY <1>9 DEF DebtInv, Reading, Counts
  <2>2. CASE x = "passed"
    <3>1. Before'
      BY <1>9, <2>2, Zenon DEF Before
    <3> QED
      BY <1>9, <2>1, <2>2, <3>1, Judged DEF DebtInv
  <2>3. CASE x # "passed"
    <3>1. Passed' \subseteq Passed
      BY <1>9, <2>3 DEF Passed, Counts
    <3>2. Before'
      <4>1. CASE enabled \/ initialized
        BY <1>9, <4>1, Zenon DEF Before
      <4>2. CASE ~enabled /\ ~initialized
        <5>1. debt <= unassisted /\ \A v \in Writers : writer[v] \in {"out", "reading"}
          BY <4>2, Zenon DEF DebtInv, Before
        <5>2. x = "out"
          BY <1>9, <2>3, <4>2, <5>1
        <5> QED
          BY <1>9, <5>1, <5>2 DEF Before, Counts
      <4> QED
        BY <4>1, <4>2, Zenon
    <3> QED
      BY <1>9, <2>1, <3>1, <3>2, NobodyPasses DEF DebtInv, Counts
  <2> QED
    BY <2>2, <2>3
<1>10. ASSUME NEW w \in Writers, Assist(w)
       PROVE  DebtInv'
  <2>1. /\ writer[w] = "out" /\ (enabled \/ initialized)
        /\ UNCHANGED <<debt, unassisted, captured, initialized, enabled>>
    BY <1>10, Zenon DEF Assist, countVars
  <2>2. PICK x \in {"out", "awaiting", "resumed", "passed"} :
          /\ writer' = [writer EXCEPT ![w] = x]
          /\ x = "passed" => debt < DebtLimit
    BY <1>10 DEF Assist, Judge
  <2> QED
    BY <1>9, <2>1, <2>2
<1>11. ASSUME NEW w \in Writers, AssistResumes(w)
       PROVE  DebtInv'
  <2>1. /\ writer[w] = "resumed"
        /\ UNCHANGED <<debt, unassisted, captured, initialized, enabled>>
    BY <1>11, Zenon DEF AssistResumes, countVars
  <2>2. PICK x \in {"out", "passed"} :
          /\ writer' = [writer EXCEPT ![w] = x]
          /\ x = "passed" => debt < DebtLimit
    BY <1>11 DEF AssistResumes
  <2>3. enabled \/ initialized
    BY <2>1 DEF DebtInv, Before
  <2> QED
    BY <1>9, <2>1, <2>2, <2>3
<1>12. ASSUME NEW ask, Leave(ask), debt' = debt \/ debt' = 0,
              UNCHANGED <<unassisted, captured, initialized, enabled>>
       PROVE  DebtInv'
  <2>1. \A v \in Writers : writer'[v] = IF writer[v] = "awaiting" THEN "resumed" ELSE writer[v]
    BY <1>12 DEF Leave
  <2>2. Passed' = Passed
    BY <2>1 DEF Passed
  <2>3. Reading'
    BY <1>12, <2>1 DEF DebtInv, Reading
  <2>4. Before'
    BY <1>12, <2>1 DEF DebtInv, Before, Counts
  <2> QED
    BY <1>12, <2>2, <2>3, <2>4, NobodyPasses DEF DebtInv, Counts
<1>13. CASE RunNext
  BY <1>12, <1>13, Zenon DEF RunNext, RunEnds, RunConflicts, RunFails, RunRefused, countVars
<1>14. CASE FoldFinished \/ Continue \/ ContinueOlder \/ RetryFires \/ IdleFires
  BY <1>4, <1>14, Zenon
  DEF FoldFinished, Continue, ContinueOlder, RetryFires, IdleFires, writerVars, countVars
<1>15. CASE Stop \/ DrainTask \/ DrainContinuation \/ UNCHANGED vars
  BY <1>4, <1>15, Zenon
  DEF Stop, DrainTask, DrainContinuation, vars, writerVars, countVars
<1> QED
  BY <1>1, <1>2, <1>3, <1>5, <1>6, <1>7, <1>8, <1>10, <1>11, <1>13, <1>14, <1>15, Zenon
  DEF Next

(* The debt passes its limit by at most the writers that assist() let       *)
(* through together and the commits that do not assist: backpressure works  *)
(* although it is applied before the writer's turn.                         *)
THEOREM Backpressure == Spec => []DebtBounded
<1>1. Init => DebtInv
  <2> SUFFICES ASSUME Init PROVE DebtInv
    OBVIOUS
  <2>1. Before /\ Reading
    BY DEF Init, Before, Reading
  <2>2. Passed = {}
    BY DEF Init, Passed
  <2>3. /\ Cardinality({}) = 0 /\ Cardinality(Writers) \in Nat
        /\ debt = 0 /\ unassisted = 0 /\ DebtLimit \in Nat \ {0}
    BY FS_EmptySet, FS_CardinalityType, CollectionAssumption DEF Init
  <2>4. debt + Cardinality(Passed) <= DebtLimit + Cardinality(Writers) - 1 + unassisted
    BY <2>2, <2>3
  <2> QED
    BY <2>1, <2>4 DEF DebtInv, DebtBounded, Passed
<1>2. (Owned /\ Counts) /\ (Owned /\ Counts)' /\ DebtInv /\ [Next]_vars => DebtInv'
  BY DebtStep
<1>3. DebtInv => DebtBounded
  BY DEF DebtInv
<1> QED
  BY Invariance, <1>1, <1>2, <1>3, PTL DEF Spec
===============================================================================
