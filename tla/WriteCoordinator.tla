--------------------------- MODULE WriteCoordinator ---------------------------
(***************************************************************************)
(* Writer admission: one logical writer per database among cooperating     *)
(* connections (packages/core/src/engine/write-coordinator.ts).            *)
(*                                                                         *)
(* A turn has two stages.  Every JavaScript context keeps a local FIFO for *)
(* the database: a chain of promises whose last link is `tail`.  Only the  *)
(* head of that chain requests the Web Lock that the contexts share.  A    *)
(* call of admitWriter is one element of Writers; the module follows it    *)
(* through the chain, the lock and its turn, while its caller's promise    *)
(* (the race with the abort signal) is followed separately in `outcome`.   *)
(*                                                                         *)
(* The Web Lock manager is the browser's and is modelled from its use:     *)
(* requests are granted in arrival order, an aborted request is withdrawn  *)
(* before its callback runs, an ifAvailable request is granted only when   *)
(* nothing is held or requested, and unloading a context frees what it has.*)
(***************************************************************************)
EXTENDS Naturals, FiniteSets

CONSTANTS Contexts,      \* JavaScript contexts that opened the database
          Connections,   \* engines; each lives in one context
          Writers,       \* calls of admitWriter; each made by one connection
          ContextOf,     \* [Connections -> Contexts]
          ConnectionOf,  \* [Writers -> Connections]
          Maintenance,   \* writers admitted without a crossContextSignal
          Abortable,     \* writers whose own signal may abort
          Disposing,     \* connections a worker may dispose of
          Unloadable,    \* contexts that may be unloaded or discarded
          Stopped,       \* contexts whose callbacks need not end
          WebLocks,      \* the contexts that have navigator.locks
          None           \* no queue, no writer

ASSUME CoordinatorAssumption ==
    /\ ContextOf \in [Connections -> Contexts]
    /\ ConnectionOf \in [Writers -> Connections]
    /\ Maintenance \subseteq Writers
    /\ Abortable \subseteq Writers
    /\ Disposing \subseteq Connections
    /\ Unloadable \subseteq Contexts
    /\ Stopped \subseteq Contexts
    /\ WebLocks \subseteq Contexts
    /\ None \notin Writers
    /\ IsFiniteSet(Writers)

(* A LocalQueue object is named after the call that created it. *)
Queues == Writers

VARIABLES
    queues,     \* queues[c] : the queue registered for the database in c
    tail,       \* tail[q] : the writer whose settled promise ends the chain
    waiting,    \* waiting[q] : writers chained and not yet entered
    holder,     \* holder[q] : the writer holding the turn, if local
    owned,      \* owned[w] : the queue object w captured
    preceding,  \* preceding[w] : the tail w chained itself to
    stage,      \* stage[w] : how far w's operation has got
    outcome,    \* outcome[w] : what w's caller has been told
    aborted,    \* writers whose signal has aborted
    cancelled,  \* connections whose crossContextSignal has aborted
    lock,       \* the writer whose request holds the Web Lock
    requests,   \* writers whose lock request is waiting for a grant
    inFront,    \* inFront[w] : the requests waiting when w made its own
    unloaded,   \* contexts that are gone
    ahead       \* history: the writers that joined w's queue before w

localVars == <<queues, tail, waiting, holder, owned, preceding, ahead>>
lockVars == <<lock, requests, inFront>>
callVars == <<stage, outcome, aborted, cancelled, unloaded>>
vars == <<localVars, lockVars, callVars>>

(* new: not called; queued: chained behind its predecessor; locking: its    *)
(* lock request waits; trying: its ifAvailable request is out; holding: its *)
(* callback runs; settled: its operation settled; swept: the settlement     *)
(* handler ran as well; gone: unloaded with its context.                    *)
Stages == {"new", "queued", "locking", "trying", "holding",
           "settled", "swept", "gone"}
Outcomes == {"pending", "answered", "refused"}

ContextOfWriter(w) == ContextOf[ConnectionOf[w]]
Alive(w) == ContextOfWriter(w) \notin unloaded
Entered == {"locking", "trying", "holding", "settled", "swept"}
Finished == {"settled", "swept"}

TypeOK ==
    /\ queues \in [Contexts -> Queues \cup {None}]
    /\ tail \in [Queues -> Writers \cup {None}]
    /\ waiting \in [Queues -> Nat]
    /\ holder \in [Queues -> Writers \cup {None}]
    /\ owned \in [Writers -> Queues \cup {None}]
    /\ preceding \in [Writers -> Writers \cup {None}]
    /\ ahead \in [Writers -> SUBSET Writers]
    /\ stage \in [Writers -> Stages]
    /\ outcome \in [Writers -> Outcomes]
    /\ aborted \subseteq Writers
    /\ cancelled \subseteq Connections
    /\ lock \in Writers \cup {None}
    /\ requests \subseteq Writers
    /\ inFront \in [Writers -> SUBSET Writers]
    /\ unloaded \subseteq Contexts

Init ==
    /\ queues = [c \in Contexts |-> None]
    /\ tail = [q \in Queues |-> None]
    /\ waiting = [q \in Queues |-> 0]
    /\ holder = [q \in Queues |-> None]
    /\ owned = [w \in Writers |-> None]
    /\ preceding = [w \in Writers |-> None]
    /\ ahead = [w \in Writers |-> {}]
    /\ stage = [w \in Writers |-> "new"]
    /\ outcome = [w \in Writers |-> "pending"]
    /\ aborted = {}
    /\ cancelled = {}
    /\ lock = None
    /\ requests = {}
    /\ inFront = [w \in Writers |-> {}]
    /\ unloaded = {}
-------------------------------------------------------------------------------
(* The queue admitWriter finds or creates. *)
OwnedQueue(w) ==
    LET registered == queues[ContextOfWriter(w)]
    IN  IF registered = None THEN w ELSE registered

(* admitWriter up to its race: take the registered queue or create one,     *)
(* count in, and chain onto the tail.                                       *)
Admit(w) ==
    /\ stage[w] = "new" /\ Alive(w) /\ w \notin aborted
    /\ LET q == OwnedQueue(w) IN
        /\ queues' = [queues EXCEPT ![ContextOfWriter(w)] = q]
        /\ owned' = [owned EXCEPT ![w] = q]
        /\ waiting' = [waiting EXCEPT ![q] = @ + 1]
        /\ preceding' = [preceding EXCEPT ![w] = tail[q]]
        /\ tail' = [tail EXCEPT ![q] = w]
        /\ ahead' = [ahead EXCEPT ![w] = {v \in Writers : owned[v] = q}]
    /\ stage' = [stage EXCEPT ![w] = "queued"]
    /\ UNCHANGED <<holder, outcome, aborted, cancelled, unloaded, lockVars>>

(* A signal that aborted before the call refuses it outright. *)
AdmitAborted(w) ==
    /\ stage[w] = "new" /\ Alive(w) /\ w \in aborted
    /\ stage' = [stage EXCEPT ![w] = "swept"]
    /\ outcome' = [outcome EXCEPT ![w] = "refused"]
    /\ UNCHANGED <<localVars, lockVars, aborted, cancelled, unloaded>>

(* Mutants: a writer that does not await the tail it chained to, and a      *)
(* chain whose next link runs only after a fulfilled turn.                  *)
PrecedingIgnored(w) == TRUE

PrecedingFulfilled(w) ==
    preceding[w] # None =>
        stage[preceding[w]] = "swept" /\ outcome[preceding[w]] = "answered"

(* The predecessor's settlement handler, registered first, has run. *)
PrecedingSettled(w) ==
    preceding[w] # None => stage[preceding[w]] = "swept"

(* What every branch of enter does first: its turn in the chain has come,   *)
(* and it counts itself out of the waiting writers.                         *)
EnterCommon(w) ==
    /\ stage[w] = "queued" /\ Alive(w) /\ PrecedingSettled(w)
    /\ waiting' = [waiting EXCEPT ![owned[w]] = @ - 1]
    /\ UNCHANGED <<queues, tail, owned, preceding, ahead, aborted, cancelled,
                   unloaded>>

(* The caller's promise settles with the operation unless the race was lost. *)
Tell(w, result) ==
    outcome' = [outcome EXCEPT ![w] = IF @ = "pending" THEN result ELSE @]

(* enter: the signal aborted while w was queued; it steps aside. *)
EnterAborted(w) ==
    /\ EnterCommon(w) /\ w \in aborted
    /\ stage' = [stage EXCEPT ![w] = "settled"]
    /\ Tell(w, "refused")
    /\ UNCHANGED <<holder, lockVars>>

(* hold: w becomes the holder of its queue and its callback starts. *)
Hold(w) ==
    /\ stage' = [stage EXCEPT ![w] = "holding"]
    /\ holder' = [holder EXCEPT ![owned[w]] = w]

(* enter, without Web Locks: the local turn is the turn. *)
EnterLocal(w) ==
    /\ EnterCommon(w) /\ w \notin aborted /\ ContextOfWriter(w) \notin WebLocks
    /\ Hold(w)
    /\ UNCHANGED <<outcome, lockVars>>

(* Mutant: the signal is only listened to, never read on entry. *)
CrossContextUnread(w) == FALSE

(* The crossContextSignal, which maintenance is admitted without. *)
CrossContextAborted(w) ==
    w \notin Maintenance /\ ConnectionOf[w] \in cancelled

(* enter, with Web Locks: an ifAvailable request once waits are cancelled,  *)
(* a signalled request otherwise.                                           *)
EnterTrying(w) ==
    /\ EnterCommon(w) /\ w \notin aborted /\ ContextOfWriter(w) \in WebLocks
    /\ CrossContextAborted(w)
    /\ stage' = [stage EXCEPT ![w] = "trying"]
    /\ UNCHANGED <<holder, outcome, lockVars>>

EnterLocking(w) ==
    /\ EnterCommon(w) /\ w \notin aborted /\ ContextOfWriter(w) \in WebLocks
    /\ ~CrossContextAborted(w)
    /\ stage' = [stage EXCEPT ![w] = "locking"]
    /\ requests' = requests \cup {w}
    /\ inFront' = [inFront EXCEPT ![w] = requests]
    /\ UNCHANGED <<holder, outcome, lock>>

Enter(w) ==
    EnterAborted(w) \/ EnterLocal(w) \/ EnterTrying(w) \/ EnterLocking(w)
-------------------------------------------------------------------------------
(* The lock manager grants the request that arrived first and runs hold. *)
Grant(w) ==
    /\ stage[w] = "locking" /\ Alive(w) /\ lock = None
    /\ w \in requests /\ inFront[w] \cap requests = {}
    /\ lock' = w
    /\ requests' = requests \ {w}
    /\ Hold(w)
    /\ UNCHANGED <<queues, tail, waiting, owned, preceding, ahead, inFront,
                   outcome, aborted, cancelled, unloaded>>

(* Mutant: the callback holds whatever lock it was handed, null included. *)
TryGrantNull(w) ==
    /\ stage[w] = "trying" /\ Alive(w)
    /\ lock' = w
    /\ Hold(w)
    /\ UNCHANGED <<queues, tail, waiting, owned, preceding, ahead, requests,
                   inFront, outcome, aborted, cancelled, unloaded>>

(* The ifAvailable request carries no signal: when nothing is held or       *)
(* requested its callback holds, and otherwise the writer is refused.       *)
TryGrant(w) ==
    /\ stage[w] = "trying" /\ Alive(w) /\ lock = None /\ requests = {}
    /\ lock' = w
    /\ Hold(w)
    /\ UNCHANGED <<queues, tail, waiting, owned, preceding, ahead, requests,
                   inFront, outcome, aborted, cancelled, unloaded>>

TryRefuse(w) ==
    /\ stage[w] = "trying" /\ Alive(w) /\ (lock # None \/ requests # {})
    /\ stage' = [stage EXCEPT ![w] = "settled"]
    /\ Tell(w, "refused")
    /\ UNCHANGED <<localVars, lockVars, aborted, cancelled, unloaded>>

(* The callback resolves or rejects, and either way hold's finally clears   *)
(* the holder, the lock is released with the callback's promise, and the    *)
(* operation settles and passes its result to the caller.                   *)
Finish(w) ==
    /\ stage[w] = "holding" /\ Alive(w)
    /\ stage' = [stage EXCEPT ![w] = "settled"]
    /\ holder' = [holder EXCEPT ![owned[w]] = IF @ = w THEN None ELSE @]
    /\ lock' = IF lock = w THEN None ELSE lock
    /\ Tell(w, "answered")
    /\ UNCHANGED <<queues, tail, waiting, owned, preceding, ahead, requests,
                   inFront, aborted, cancelled, unloaded>>

(* Mutant: the writers still chained behind w are forgotten. *)
DrainedOfHolder(w) == holder[owned[w]] = None

(* The queue w settled in has nobody left in it. *)
Drained(w) ==
    LET q == owned[w] IN tail[q] = w /\ waiting[q] = 0 /\ holder[q] = None

(* The settlement handler drops a drained queue from the registry. *)
Sweep(w) ==
    /\ stage[w] = "settled" /\ Alive(w)
    /\ stage' = [stage EXCEPT ![w] = "swept"]
    /\ queues' = [queues EXCEPT ![ContextOfWriter(w)] =
                    IF Drained(w) /\ @ = owned[w] THEN None ELSE @]
    /\ UNCHANGED <<tail, waiting, holder, owned, preceding, ahead, lockVars,
                   outcome, aborted, cancelled, unloaded>>
-------------------------------------------------------------------------------
(* Mutant: the abort is not passed on to the lock request. *)
WithdrawNothing(S) == UNCHANGED <<stage, requests>>

(* Writers whose waiting lock request goes when the signals of S abort. *)
Withdraw(S) ==
    LET W == {w \in S : stage[w] = "locking"} IN
    /\ stage' = [w \in Writers |-> IF w \in W THEN "settled" ELSE stage[w]]
    /\ requests' = requests \ W

(* The wait signal aborts: closing, or the scope's own signal.  Unless the  *)
(* writer is already admitted its caller is told at once.                   *)
Abort(w) ==
    /\ w \in Abortable \ aborted /\ Alive(w)
    /\ aborted' = aborted \cup {w}
    /\ Withdraw({w})
    /\ outcome' = [outcome EXCEPT ![w] =
            IF stage[w] \in {"queued", "locking", "trying"} /\ @ = "pending"
            THEN "refused" ELSE @]
    /\ UNCHANGED <<localVars, lock, inFront, cancelled, unloaded>>

(* cancelCrossContextWaits: a disposing connection gives up waiting for     *)
(* another context's lock, never its place in the local queue.              *)
CancelCrossContextWaits(k) ==
    /\ k \in Disposing \ cancelled /\ ContextOf[k] \notin unloaded
    /\ cancelled' = cancelled \cup {k}
    /\ LET S == {w \in Writers \ Maintenance : ConnectionOf[w] = k} IN
        /\ Withdraw(S)
        /\ outcome' = [w \in Writers |->
              IF w \in S /\ stage[w] = "locking" /\ outcome[w] = "pending"
              THEN "refused" ELSE outcome[w]]
    /\ UNCHANGED <<localVars, lock, inFront, aborted, unloaded>>

(* A context is unloaded: the browser drops its requests and its lock. *)
Unload(c) ==
    /\ c \in Unloadable \ unloaded
    /\ unloaded' = unloaded \cup {c}
    /\ LET W == {w \in Writers : ContextOfWriter(w) = c} IN
        /\ stage' = [w \in Writers |-> IF w \in W THEN "gone" ELSE stage[w]]
        /\ requests' = requests \ W
        /\ lock' = IF lock \in W THEN None ELSE lock
    /\ UNCHANGED <<localVars, inFront, outcome, aborted, cancelled>>

Next ==
    \/ \E w \in Writers :
        \/ Admit(w) \/ AdmitAborted(w)
        \/ Enter(w)
        \/ Grant(w) \/ TryGrant(w) \/ TryRefuse(w)
        \/ Finish(w)
        \/ Sweep(w)
        \/ Abort(w)
    \/ \E k \in Connections : CancelCrossContextWaits(k)
    \/ \E c \in Contexts : Unload(c)

Spec == Init /\ [][Next]_vars

(* The event loop runs settled promises' reactions, the lock manager serves *)
(* its queue, and a callback ends unless its tab has stopped.               *)
Fairness ==
    \A w \in Writers :
        /\ WF_vars(Enter(w))
        /\ WF_vars(Grant(w))
        /\ WF_vars(TryGrant(w) \/ TryRefuse(w))
        /\ WF_vars(Sweep(w))
        /\ ContextOfWriter(w) \notin Stopped =>
              WF_vars(Finish(w))

FairSpec == Spec /\ Fairness
-------------------------------------------------------------------------------
(* Writers that must never run together: those of the contexts that share   *)
(* Web Locks, and otherwise those of one context.                           *)
GroupOf ==
    [w \in Writers |-> IF ContextOfWriter(w) \in WebLocks THEN WebLocks ELSE {ContextOfWriter(w)}]

(* admitWriter runs its callback "as the database's one logical writer":    *)
(* never two callbacks of a group at once, whatever is aborted, cancelled   *)
(* or unloaded, and although queues are dropped and created again.          *)
OneWriter ==
    \A v, w \in Writers :
        v # w /\ GroupOf[v] = GroupOf[w] =>
            ~(stage[v] = "holding" /\ stage[w] = "holding")

(* Only the head of the local queue reaches the lock, so a context never    *)
(* has two writers between entering and settling (comment at line 255).     *)
OneRequestPerContext ==
    \A v, w \in Writers :
        v # w /\ ContextOfWriter(v) = ContextOfWriter(w) =>
            ~({stage[v], stage[w]} \subseteq {"locking", "trying", "holding"})

(* A context's queue is never split in two: dropping a drained queue leaves *)
(* no writer chained to a queue object that newcomers will not find.        *)
QueueNeverSplit ==
    \A w \in Writers :
        stage[w] \in {"queued", "locking", "trying", "holding"} =>
            queues[ContextOfWriter(w)] = owned[w]

(* The local queue is first come, first served: a writer leaves the chain   *)
(* only after everyone who joined its queue before it has settled.          *)
LocalFifo ==
    \A w \in Writers : stage[w] \in Entered =>
        \A v \in ahead[w] : stage[v] \in Finished

(* A writer whose caller was refused does not run afterwards, as long as    *)
(* its connection is not being disposed of.                                 *)
RefusedNeverRunsUndisposed ==
    \A w \in Writers :
        outcome[w] = "refused" /\ ConnectionOf[w] \notin cancelled =>
            stage[w] # "holding"

(* A queued writer gets its turn unless it is aborted, gives up on other    *)
(* contexts or goes with its own, or a stopped tab comes to hold the lock:  *)
(* nobody is overtaken or forgotten forever.                                *)
TurnComes ==
    \A w \in Writers :
        stage[w] = "queued" ~>
            \/ stage[w] = "holding"
            \/ w \in aborted
            \/ ConnectionOf[w] \in cancelled
            \/ ~Alive(w)
            \/ \E v \in Writers :
                    ContextOfWriter(v) \in Stopped /\ stage[v] = "holding"

(* A disposing connection "never waits for a tab that stopped" (line 67):   *)
(* its queued writers are answered or admitted even if another context      *)
(* never lets the lock go.                                                  *)
DisposingAnswered ==
    \A w \in Writers \ Maintenance :
        stage[w] = "queued" /\ ConnectionOf[w] \in cancelled ~>
            \/ stage[w] = "holding"
            \/ outcome[w] # "pending"
            \/ ~Alive(w)

(* Admission implements the abstract turn: the chain, the lock, refusals    *)
(* and unloading are all steps of WriterTurn or leave it alone.             *)
TurnOf(w) ==
    CASE stage[w] = "new" -> "idle"
      [] stage[w] \in {"queued", "locking", "trying"} -> "waiting"
      [] stage[w] = "holding" -> "running"
      [] OTHER -> "done"

Turn == INSTANCE WriterTurn WITH turn <- [w \in Writers |-> TurnOf(w)]

ImplementsTurn == Turn!Spec
===============================================================================
