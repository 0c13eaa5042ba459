--------------------------- MODULE WriterAdmissions ---------------------------
(***************************************************************************)
(* One connection's side of writer admission                               *)
(* (packages/core/src/engine/writer-admissions.ts): the turns its own      *)
(* writers and compactions wait for, publications that a writer runs       *)
(* inside the turn it already holds, the lending loop of a writer that     *)
(* steps a table while a background step is ahead of it, reads that wait   *)
(* for the gap between turns, and the drain of close().                    *)
(*                                                                         *)
(* The turn itself is WriterTurn's: free, held by a task of this           *)
(* connection, or held by somebody else for as long as they please.        *)
(* Table steps form the promise chain of #serializedCompactionStep         *)
(* (engine/database.ts), here for one table.                               *)
(***************************************************************************)
EXTENDS Naturals, Sequences, FiniteSets, SequencesExt

CONSTANTS Writes,    \* writes of this connection
          Folds,     \* background compaction steps of the table
          Readers,   \* background reads that wait for outsideTurns
          Other,     \* a writer of another connection or tab
          Nobody

ASSUME AdmissionsAssumption ==
    /\ Writes \cap Folds = {}
    /\ Other \notin Writes \cup Folds
    /\ Nobody \notin Writes \cup Folds \cup {Other}

Tasks == Writes \cup Folds

VARIABLES
    turn,         \* who holds the database's turn
    admission,    \* admission[x] : where the call of admit for x stands
    pc,           \* pc[w] : what writer w is doing inside its turn
    helping,      \* helping[w] : the claim writer w awaits
    fold,         \* fold[f] : where compaction step f is
    claim,        \* claim[f] : the claim of f's publication
    pending,      \* #pendingCompactionPublications, in insertion order
    runner,       \* runner[f] : whose turn f's attempt runs in
    attempts,     \* history: attempts[f] counts the starts of f's attempt
    armed,        \* armed[w] : the #pendingPublicationSignal lender w awaits
    lastStep,     \* the end of the table's step chain
    previous,     \* previous[x] : the step x is chained to
    stepped,      \* tasks whose step of the table has settled
    running,      \* #running
    reader,       \* reader[r] : idle, waiting on #turnsEnded, or clear
    shutdown,     \* the connection's shutdown signal
    stopped,      \* #maintenanceQueue has aborted
    grace,        \* the close grace timer
    closing,      \* open, draining or closed
    joined        \* the admissions that drain() awaits

turnVars == <<turn, admission, running, reader>>
claimVars == <<claim, pending, runner, attempts, armed>>
stepVars == <<fold, lastStep, previous, stepped>>
writerVars == <<pc, helping>>
closeVars == <<shutdown, stopped, grace, closing, joined>>
admissionsVars == <<turnVars, claimVars, stepVars, writerVars, closeVars>>

(* idle: not called; waiting: for its turn; turn: in it; aside: its wait    *)
(* was cancelled because the attempt already runs; refused: the wait was    *)
(* rejected and the handler has not run; over: settled.                     *)
AdmissionStates == {"idle", "waiting", "turn", "aside", "refused", "over"}

(* The program points of a writer's callback at which it awaits. *)
WriterStates == {"out", "assist", "decide", "lend", "lendAssist", "lendWait",
                 "step", "work"}

AdmissionsTypeOK ==
    /\ turn \in Tasks \cup {Other, Nobody}
    /\ admission \in [Tasks -> AdmissionStates]
    /\ pc \in [Writes -> WriterStates]
    /\ helping \in [Writes -> Folds \cup {Nobody}]
    /\ fold \in [Folds -> {"idle", "chained", "computing", "publishing", "done"}]
    /\ claim \in [Folds -> {"none", "pending", "running", "settled", "refused"}]
    /\ pending \in Seq(Folds)
    /\ runner \in [Folds -> Tasks \cup {Nobody}]
    /\ attempts \in [Folds -> Nat]
    /\ armed \in [Writes -> {"off", "armed", "fired"}]
    /\ lastStep \in Tasks \cup {Nobody}
    /\ previous \in [Tasks -> Tasks \cup {Nobody}]
    /\ stepped \subseteq Tasks
    /\ running \in Nat
    /\ reader \in [Readers -> {"idle", "waiting", "clear"}]
    /\ shutdown \in BOOLEAN /\ stopped \in BOOLEAN
    /\ grace \in {"off", "set"}
    /\ closing \in {"open", "draining", "closed"}
    /\ joined \subseteq Tasks

AdmissionsInit ==
    /\ turn = Nobody
    /\ admission = [x \in Tasks |-> "idle"]
    /\ pc = [w \in Writes |-> "out"]
    /\ helping = [w \in Writes |-> Nobody]
    /\ fold = [f \in Folds |-> "idle"]
    /\ claim = [f \in Folds |-> "none"]
    /\ pending = <<>>
    /\ runner = [f \in Folds |-> Nobody]
    /\ attempts = [f \in Folds |-> 0]
    /\ armed = [w \in Writes |-> "off"]
    /\ lastStep = Nobody
    /\ previous = [x \in Tasks |-> Nobody]
    /\ stepped = {}
    /\ running = 0
    /\ reader = [r \in Readers |-> "idle"]
    /\ shutdown = FALSE /\ stopped = FALSE
    /\ grace = "off"
    /\ closing = "open"
    /\ joined = {}
-------------------------------------------------------------------------------
(* Turns of somebody else. *)
OtherTakes ==
    /\ turn = Nobody
    /\ turn' = Other
    /\ UNCHANGED <<admission, running, reader, claimVars, stepVars, writerVars,
                   closeVars>>

OtherLeaves ==
    /\ turn = Other
    /\ turn' = Nobody
    /\ UNCHANGED <<admission, running, reader, claimVars, stepVars, writerVars,
                   closeVars>>

(* admit, for a write: refused outright once the connection shut down. *)
Write(w) ==
    /\ admission[w] = "idle"
    /\ admission' = [admission EXCEPT ![w] = IF shutdown THEN "over" ELSE "waiting"]
    /\ UNCHANGED <<turn, running, reader, claimVars, stepVars, writerVars,
                   closeVars>>

(* The attempts that start when r calls every claim of S: a claim starts    *)
(* its attempt once and cancels the wait it no longer needs; a claim        *)
(* already running is only awaited.                                         *)
Started(S) == {f \in S : claim[f] = "pending"}

Claim(S, r) ==
    /\ claim' = [f \in Folds |-> IF f \in Started(S) THEN "running" ELSE claim[f]]
    /\ runner' = [f \in Folds |-> IF f \in Started(S) THEN r ELSE runner[f]]
    /\ attempts' = [f \in Folds |->
                      IF f \in Started(S) THEN attempts[f] + 1 ELSE attempts[f]]

(* The wait for a turn of its own that a started attempt no longer needs. *)
CancelUnused(S) ==
    [x \in Tasks |-> IF x \in Started(S) /\ admission[x] = "waiting"
                     THEN "aside" ELSE admission[x]]

(* assist: the first pending publication, if any. *)
FirstPending == IF pending = <<>> THEN {} ELSE {Head(pending)}

Await(w, S) ==
    helping' = [helping EXCEPT ![w] = IF S = {} THEN Nobody ELSE CHOOSE f \in S : TRUE]

(* A writer's turn starts, and assists before anything else. *)
StartWrite(w) ==
    /\ admission[w] = "waiting" /\ turn = Nobody
    /\ turn' = w
    /\ running' = running + 1
    /\ Claim(FirstPending, w)
    /\ admission' = [CancelUnused(FirstPending) EXCEPT ![w] = "turn"]
    /\ Await(w, FirstPending)
    /\ pc' = [pc EXCEPT ![w] = "assist"]
    /\ UNCHANGED <<reader, pending, armed, stepVars, closeVars>>

(* The claim a writer awaits has settled; a claim never throws. *)
Helped(w) == helping[w] # Nobody => claim[helping[w]] = "settled"

AssistDone(w) ==
    /\ pc[w] = "assist" /\ Helped(w)
    /\ pc' = [pc EXCEPT ![w] = "decide"]
    /\ helping' = [helping EXCEPT ![w] = Nobody]
    /\ UNCHANGED <<turnVars, claimVars, stepVars, closeVars>>

(* The write goes straight to its statement... *)
SkipStep(w) ==
    /\ pc[w] = "decide"
    /\ pc' = [pc EXCEPT ![w] = "work"]
    /\ UNCHANGED <<helping, turnVars, claimVars, stepVars, closeVars>>

(* ...or, at the backpressure limit, steps the table first: it chains its   *)
(* step and lends its turn to whatever is ahead.                            *)
StepTable(w) ==
    /\ pc[w] = "decide"
    /\ pc' = [pc EXCEPT ![w] = "lend"]
    /\ previous' = [previous EXCEPT ![w] = lastStep]
    /\ lastStep' = w
    /\ UNCHANGED <<helping, fold, stepped, turnVars, claimVars, closeVars>>

PreviousSettled(x) == previous[x] = Nobody \/ previous[x] \in stepped

(* lend: leave the loop once the step ahead has settled. *)
LendDone(w) ==
    /\ pc[w] = "lend" /\ PreviousSettled(w)
    /\ pc' = [pc EXCEPT ![w] = "step"]
    /\ armed' = [armed EXCEPT ![w] = "off"]
    /\ UNCHANGED <<helping, turnVars, claim, pending, runner, attempts,
                   stepVars, closeVars>>

(* Mutant: the loop assists without arming the wake-up. *)
LendAssistUnarmed(w) ==
    /\ pc[w] = "lend" /\ ~PreviousSettled(w)
    /\ Claim(FirstPending, w)
    /\ admission' = CancelUnused(FirstPending)
    /\ Await(w, FirstPending)
    /\ pc' = [pc EXCEPT ![w] = "lendAssist"]
    /\ UNCHANGED <<turn, running, reader, pending, armed, stepVars, closeVars>>

(* lend: arm the wake-up, then assist. *)
LendAssist(w) ==
    /\ pc[w] = "lend" /\ ~PreviousSettled(w)
    /\ armed' = [armed EXCEPT ![w] = "armed"]
    /\ Claim(FirstPending, w)
    /\ admission' = CancelUnused(FirstPending)
    /\ Await(w, FirstPending)
    /\ pc' = [pc EXCEPT ![w] = "lendAssist"]
    /\ UNCHANGED <<turn, running, reader, pending, stepVars, closeVars>>

(* lend: after the assist, go round again while anything is pending or the  *)
(* step has settled, and otherwise wait for the step or a registration.     *)
LendAssisted(w) ==
    /\ pc[w] = "lendAssist" /\ Helped(w)
    /\ pc' = [pc EXCEPT ![w] =
                IF PreviousSettled(w) \/ pending # <<>> THEN "lend" ELSE "lendWait"]
    /\ helping' = [helping EXCEPT ![w] = Nobody]
    /\ UNCHANGED <<turnVars, claimVars, stepVars, closeVars>>

LendWake(w) ==
    /\ pc[w] = "lendWait" /\ (PreviousSettled(w) \/ armed[w] = "fired")
    /\ pc' = [pc EXCEPT ![w] = "lend"]
    /\ UNCHANGED <<helping, turnVars, claimVars, stepVars, closeVars>>

(* The writer's own step settles, published inside the turn it holds. *)
StepDone(w) ==
    /\ pc[w] = "step"
    /\ pc' = [pc EXCEPT ![w] = "work"]
    /\ stepped' = stepped \cup {w}
    /\ UNCHANGED <<helping, fold, lastStep, previous, turnVars, claimVars,
                   closeVars>>

(* #runTurn's finally: the last turn to end wakes the reads. *)
EndTurn(x) ==
    /\ turn' = Nobody
    /\ admission' = [admission EXCEPT ![x] = "over"]
    /\ running' = running - 1
    /\ reader' = [r \in Readers |->
                    IF running = 1 /\ reader[r] = "waiting" THEN "clear" ELSE reader[r]]

EndWrite(w) ==
    /\ pc[w] = "work"
    /\ pc' = [pc EXCEPT ![w] = "out"]
    /\ EndTurn(w)
    /\ UNCHANGED <<helping, claimVars, stepVars, closeVars>>
-------------------------------------------------------------------------------
(* A background step chains itself to the table... *)
BeginFold(f) ==
    /\ fold[f] = "idle" /\ ~shutdown
    /\ fold' = [fold EXCEPT ![f] = "chained"]
    /\ previous' = [previous EXCEPT ![f] = lastStep]
    /\ lastStep' = f
    /\ UNCHANGED <<stepped, turnVars, claimVars, writerVars, closeVars>>

(* ...and runs once the step ahead of it has settled. *)
RunFold(f) ==
    /\ fold[f] = "chained" /\ PreviousSettled(f)
    /\ fold' = [fold EXCEPT ![f] = "computing"]
    /\ UNCHANGED <<lastStep, previous, stepped, turnVars, claimVars, writerVars,
                   closeVars>>

(* A step may settle without publishing. *)
SkipPublish(f) ==
    /\ fold[f] = "computing"
    /\ fold' = [fold EXCEPT ![f] = "done"]
    /\ stepped' = stepped \cup {f}
    /\ UNCHANGED <<lastStep, previous, turnVars, claimVars, writerVars, closeVars>>

(* publish: register the claim, fire the wake-up of every lender that armed *)
(* it, and ask for a turn on the maintenance signal.                        *)
Publish(f) ==
    /\ fold[f] = "computing"
    /\ fold' = [fold EXCEPT ![f] = "publishing"]
    /\ claim' = [claim EXCEPT ![f] = "pending"]
    /\ pending' = Append(pending, f)
    /\ armed' = [w \in Writes |-> IF armed[w] = "armed" THEN "fired" ELSE armed[w]]
    /\ admission' = [admission EXCEPT ![f] = IF stopped THEN "refused" ELSE "waiting"]
    /\ UNCHANGED <<turn, running, reader, runner, attempts, lastStep, previous,
                   stepped, writerVars, closeVars>>

(* The publication's own turn comes first: it calls its claim there. *)
StartPublish(f) ==
    /\ admission[f] = "waiting" /\ turn = Nobody
    /\ turn' = f
    /\ running' = running + 1
    /\ Claim({f}, f)
    /\ admission' = [admission EXCEPT ![f] = "turn"]
    /\ UNCHANGED <<reader, pending, armed, stepVars, writerVars, closeVars>>

(* The attempt resolves or rejects; either way its claim is forgotten. *)
FinishAttempt(f) ==
    /\ claim[f] = "running"
    /\ claim' = [claim EXCEPT ![f] = "settled"]
    /\ pending' = RemoveFirst(pending, f)
    /\ UNCHANGED <<runner, attempts, armed, turnVars, stepVars, writerVars,
                   closeVars>>

EndPublish(f) ==
    /\ admission[f] = "turn" /\ claim[f] = "settled"
    /\ EndTurn(f)
    /\ UNCHANGED <<claimVars, stepVars, writerVars, closeVars>>

(* Mutant: a refused turn withdraws the claim even if a writer started it. *)
HandleRefusalAlways(f) ==
    /\ admission[f] = "refused"
    /\ admission' = [admission EXCEPT ![f] = "over"]
    /\ claim' = [claim EXCEPT ![f] = "refused"]
    /\ pending' = RemoveFirst(pending, f)
    /\ UNCHANGED <<turn, running, reader, runner, attempts, armed, stepVars,
                   writerVars, closeVars>>

(* The rejection handler of a refused turn: a claim nobody started is       *)
(* withdrawn, one that a writer started keeps its outcome.                  *)
HandleRefusal(f) ==
    /\ admission[f] = "refused"
    /\ admission' = [admission EXCEPT ![f] = "over"]
    /\ IF claim[f] = "pending"
       THEN /\ claim' = [claim EXCEPT ![f] = "refused"]
            /\ pending' = RemoveFirst(pending, f)
       ELSE UNCHANGED <<claim, pending>>
    /\ UNCHANGED <<turn, running, reader, runner, attempts, armed, stepVars,
                   writerVars, closeVars>>

(* The step settles with its publication. *)
FoldDone(f) ==
    /\ fold[f] = "publishing" /\ claim[f] \in {"settled", "refused"}
    /\ fold' = [fold EXCEPT ![f] = "done"]
    /\ stepped' = stepped \cup {f}
    /\ UNCHANGED <<lastStep, previous, turnVars, claimVars, writerVars, closeVars>>
-------------------------------------------------------------------------------
(* Mutant: a read that asks after shutdown waits for a turn to end. *)
OutsideTurnsLate(r) ==
    /\ reader[r] = "idle"
    /\ reader' = [reader EXCEPT ![r] = IF running = 0 THEN "clear" ELSE "waiting"]
    /\ UNCHANGED <<turn, admission, running, claimVars, stepVars, writerVars,
                   closeVars>>

(* outsideTurns: at once between turns or after shutdown, else when woken. *)
OutsideTurns(r) ==
    /\ reader[r] = "idle"
    /\ reader' = [reader EXCEPT ![r] =
                    IF running = 0 \/ shutdown THEN "clear" ELSE "waiting"]
    /\ UNCHANGED <<turn, admission, running, claimVars, stepVars, writerVars,
                   closeVars>>

Unsettled(x) == admission[x] \in {"waiting", "turn", "refused"}

(* close: shutdown refuses the writes that wait and wakes the reads, the    *)
(* grace timer starts, and drain takes its snapshot of the admissions.      *)
Close ==
    /\ closing = "open"
    /\ closing' = "draining"
    /\ shutdown' = TRUE
    /\ grace' = "set"
    /\ joined' = {x \in Tasks : Unsettled(x)}
    /\ admission' = [x \in Tasks |-> IF x \in Writes /\ admission[x] = "waiting"
                                     THEN "over" ELSE admission[x]]
    /\ reader' = [r \in Readers |-> IF reader[r] = "waiting" THEN "clear" ELSE reader[r]]
    /\ UNCHANGED <<turn, running, stopped, claimVars, stepVars, writerVars>>

(* Mutant: the signal is set and nobody's wait hears it. *)
StopUnheard ==
    /\ stopped' = TRUE
    /\ UNCHANGED admission

(* Maintenance that still waits when the grace is over is refused. *)
StopMaintenance ==
    /\ stopped' = TRUE
    /\ admission' = [x \in Tasks |-> IF x \in Folds /\ admission[x] = "waiting"
                                     THEN "refused" ELSE admission[x]]

GraceOver ==
    /\ grace = "set"
    /\ grace' = "off"
    /\ StopMaintenance
    /\ UNCHANGED <<turn, running, reader, claimVars, stepVars, writerVars,
                   shutdown, closing, joined>>

(* Mutant: close joins the compactions and not the writers. *)
DrainFoldsOnly == \A f \in Folds : fold[f] \in {"idle", "done"}

(* drain() and the controllers' own drains: nothing this connection began   *)
(* is left.                                                                 *)
DrainDone ==
    /\ \A x \in joined : ~Unsettled(x)
    /\ \A f \in Folds : fold[f] \in {"idle", "done"}

FinishDrain ==
    /\ closing = "draining" /\ DrainDone
    /\ closing' = "closed"
    /\ grace' = "off"
    /\ StopMaintenance
    /\ UNCHANGED <<turn, running, reader, claimVars, stepVars, writerVars,
                   shutdown, joined>>
-------------------------------------------------------------------------------
WriterNext(w) ==
    \/ AssistDone(w) \/ SkipStep(w) \/ StepTable(w)
    \/ LendDone(w) \/ LendAssist(w) \/ LendAssisted(w) \/ LendWake(w)
    \/ StepDone(w) \/ EndWrite(w)

FoldNext(f) ==
    \/ RunFold(f) \/ SkipPublish(f) \/ Publish(f)
    \/ FinishAttempt(f) \/ EndPublish(f) \/ HandleRefusal(f) \/ FoldDone(f)

AdmissionsNext ==
    \/ OtherTakes \/ OtherLeaves
    \/ \E w \in Writes : Write(w) \/ StartWrite(w) \/ WriterNext(w)
    \/ \E f \in Folds : BeginFold(f) \/ StartPublish(f) \/ FoldNext(f)
    \/ \E r \in Readers : OutsideTurns(r)
    \/ Close \/ GraceOver \/ FinishDrain

AdmissionsSpec == AdmissionsInit /\ [][AdmissionsNext]_admissionsVars

(* Promise reactions run, attempts and statements end, the grace timer      *)
(* fires.  Nothing is assumed of whoever else holds the turn, nor that a    *)
(* write or a fold is ever asked for.                                       *)
AdmissionsFairness ==
    /\ \A w \in Writes : WF_admissionsVars(WriterNext(w))
    /\ \A f \in Folds :
        /\ WF_admissionsVars(RunFold(f))
        /\ WF_admissionsVars(SkipPublish(f) \/ Publish(f))
        /\ WF_admissionsVars(FinishAttempt(f))
        /\ WF_admissionsVars(EndPublish(f))
        /\ WF_admissionsVars(HandleRefusal(f))
        /\ WF_admissionsVars(FoldDone(f))
    /\ WF_admissionsVars(GraceOver)
    /\ WF_admissionsVars(FinishDrain)

AdmissionsFairSpec == AdmissionsSpec /\ AdmissionsFairness
-------------------------------------------------------------------------------
(* However often a claim is called, by its own turn and by every writer     *)
(* that assists, its attempt starts at most once, never after close told    *)
(* the step that it would not publish, and runs only inside a turn of this  *)
(* connection, its own or the one lent, which outlasts it.                  *)
AttemptOnceInsideTurn ==
    \A f \in Folds :
        /\ claim[f] = "running" => turn = runner[f] /\ admission[runner[f]] = "turn"
        /\ attempts[f] <= 1
        /\ claim[f] = "refused" => attempts[f] = 0

(* No read is left waiting for a gap between turns that it is already in. *)
ReadersNotStranded ==
    running = 0 \/ shutdown => \A r \in Readers : reader[r] # "waiting"

(* Once close has resolved this connection awaits no turn, runs no          *)
(* publication, and holds a turn only while one that has settled is let go. *)
ClosedIsQuiet ==
    closing = "closed" =>
        /\ \A w \in Writes : admission[w] \notin {"waiting", "turn"}
        /\ \A f \in Folds : admission[f] # "waiting" /\ claim[f] # "running"

(* lend "would deadlock" if it waited outright: a lender always gets to its *)
(* own step, also when the step ahead registers between drain and wait.     *)
LendEnds == \A w \in Writes : pc[w] = "lend" ~> pc[w] = "step"

(* close() "must not depend on another tab's callback": it completes even   *)
(* if somebody else keeps the turn for ever.                                *)
CloseCompletes == closing = "draining" ~> closing = "closed"
===============================================================================
