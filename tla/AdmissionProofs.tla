---------------------------- MODULE AdmissionProofs ----------------------------
(***************************************************************************)
(* Proofs about the two halves of writer admission.                        *)
(*                                                                         *)
(* WriteCoordinator, for any number of contexts, connections and writers.  *)
(* OneWriter is not inductive: that the head of a chain may enter rests on *)
(* everyone ahead of it having settled, which rests on how the chain was   *)
(* built and on no context ever having two live queues.                    *)
(*                                                                         *)
(* WriterAdmissions, for any sets of writers, background folds and reads:  *)
(* the second part of the module.                                          *)
(***************************************************************************)
EXTENDS WriteCoordinator, WriterAdmissions, FiniteSetTheorems,
        WellFoundedInduction, SequenceTheorems, TLAPS

(* A writer that has joined a queue. *)
Joined(w) == owned[w] # None

(* Unsettled, in a queue. *)
Live == {"queued", "locking", "trying", "holding", "settled"}

(* Exactly the writers of an unloaded context are gone. *)
GoneInv == \A w \in Writers : stage[w] = "gone" <=> ~Alive(w)

(* A writer joins a queue when it is admitted and never before. *)
JoinInv ==
    \A w \in Writers :
        /\ stage[w] = "new" => owned[w] = None
        /\ stage[w] \in Live => Joined(w)
        /\ ~Joined(w) => ahead[w] = {} /\ preceding[w] = None

(* A queue object belongs to one context, and its creator is in it. *)
QueueInv ==
    /\ \A w \in Writers : Joined(w) =>
         /\ owned[owned[w]] = owned[w]
         /\ ContextOfWriter(owned[w]) = ContextOfWriter(w)
    /\ \A c \in Contexts : queues[c] # None =>
         owned[queues[c]] = queues[c] /\ ContextOfWriter(queues[c]) = c

(* The chain is a total order whose last link is the tail. *)
ChainInv ==
    /\ \A v, w \in Writers : v \in ahead[w] => Joined(w) /\ owned[v] = owned[w]
    /\ \A v, w \in Writers :
         v # w /\ Joined(v) /\ owned[v] = owned[w] => v \in ahead[w] \/ w \in ahead[v]
    /\ \A w \in Writers :
         IF preceding[w] = None
         THEN ahead[w] = {}
         ELSE ahead[w] \subseteq ahead[preceding[w]] \cup {preceding[w]}
    /\ \A q \in Queues : tail[q] # None => owned[tail[q]] = q
    /\ \A w \in Writers : Joined(w) =>
         /\ tail[owned[w]] # None
         /\ w = tail[owned[w]] \/ w \in ahead[tail[owned[w]]]

(* The waiting counter of a live queue counts its queued writers. *)
QueuedIn(q) == {w \in Writers : owned[w] = q /\ stage[w] = "queued"}
WaitingInv ==
    \A q \in Queues : Alive(q) => waiting[q] = Cardinality(QueuedIn(q))

(* Whoever runs holds the Web Lock. *)
LockInv ==
    \A w \in Writers : ContextOfWriter(w) \in WebLocks /\ stage[w] = "holding" => lock = w

IInv ==
    /\ TypeOK
    /\ GoneInv
    /\ JoinInv
    /\ QueueInv
    /\ ChainInv
    /\ WaitingInv
    /\ LocalFifo
    /\ LockInv
    /\ QueueNeverSplit
-------------------------------------------------------------------------------
(* None is no writer. *)
LEMMA NoneNotWriter == None \notin Writers
BY CoordinatorAssumption

(* A writer belongs to a context. *)
LEMMA ContextType == \A w \in Writers : ContextOfWriter(w) \in Contexts
BY CoordinatorAssumption DEF ContextOfWriter

(* The invariant holds at first. *)
LEMMA InitIInv == Init => IInv
<1> SUFFICES ASSUME Init PROVE IInv
  OBVIOUS
<1> USE DEF Init, Queues
<1>1. TypeOK
  BY NoneNotWriter DEF TypeOK, Stages, Outcomes
<1>2. GoneInv
  BY ContextType DEF GoneInv, Alive
<1>3. JoinInv
  BY DEF JoinInv, Joined, Live
<1>4. QueueInv /\ ChainInv
  BY DEF QueueInv, ChainInv, Joined
<1>5. WaitingInv
  <2> SUFFICES ASSUME NEW q \in Queues PROVE waiting[q] = Cardinality(QueuedIn(q))
    BY DEF WaitingInv
  <2>1. QueuedIn(q) = {}
    BY DEF QueuedIn
  <2> QED
    BY <2>1, FS_EmptySet
<1>6. LocalFifo /\ LockInv /\ QueueNeverSplit
  BY DEF LocalFifo, LockInv, QueueNeverSplit, Entered
<1> QED
  BY <1>1, <1>2, <1>3, <1>4, <1>5, <1>6 DEF IInv

(* What a queue counts is finite. *)
LEMMA QueuedFinite == \A q \in Writers : IsFiniteSet(QueuedIn(q))
BY CoordinatorAssumption, FS_Subset DEF QueuedIn

(* Joining a queue counts one more writer in. *)
LEMMA CountIn ==
  ASSUME IInv, NEW w \in Writers, Admit(w)
  PROVE  WaitingInv'
<1> USE NoneNotWriter DEF IInv, Admit, Queues
<1> DEFINE q == OwnedQueue(w)
<1> SUFFICES ASSUME NEW p \in Writers, Alive(p)
             PROVE  waiting'[p] = Cardinality(QueuedIn(p)')
  BY DEF WaitingInv, Alive
<1>1. q \in Writers
  BY ContextType DEF OwnedQueue, TypeOK
<1>2. CASE p # q
  <2>1. QueuedIn(p)' = QueuedIn(p) /\ waiting'[p] = waiting[p]
    BY <1>1, <1>2 DEF QueuedIn, TypeOK, JoinInv, Joined
  <2> QED
    BY <2>1 DEF WaitingInv
<1>3. CASE p = q
  <2>1. QueuedIn(p)' = QueuedIn(p) \cup {w} /\ w \notin QueuedIn(p)
    BY <1>1, <1>3 DEF QueuedIn, TypeOK
  <2>2. waiting'[p] = waiting[p] + 1
    BY <1>1, <1>3 DEF TypeOK
  <2> QED
    BY <2>1, <2>2, QueuedFinite, FS_AddElement, ZenonT(30) DEF WaitingInv
<1> QED
  BY <1>2, <1>3

(* Entering counts the writer out again, and never below zero. *)
LEMMA CountOut ==
  ASSUME IInv, NEW w \in Writers, EnterCommon(w),
         NEW t \in Stages \ {"queued"}, stage' = [stage EXCEPT ![w] = t]
  PROVE  WaitingInv' /\ waiting' \in [Writers -> Nat]
<1> USE NoneNotWriter DEF IInv, EnterCommon, Queues
<1> DEFINE q == owned[w]
<1>1. q \in Writers /\ Alive(q)
  BY DEF TypeOK, JoinInv, QueueInv, Joined, Live, Alive
<1>2. QueuedIn(q)' = QueuedIn(q) \ {w} /\ w \in QueuedIn(q)
  BY DEF QueuedIn, TypeOK
<1>3. /\ Cardinality(QueuedIn(q)) \in Nat
      /\ Cardinality(QueuedIn(q)') = Cardinality(QueuedIn(q)) - 1
      /\ Cardinality(QueuedIn(q)') \in Nat
  <2>1. IsFiniteSet(QueuedIn(q)) /\ IsFiniteSet(QueuedIn(q) \ {w})
    BY <1>1, QueuedFinite, FS_RemoveElement
  <2> QED
    BY <1>2, <2>1, FS_RemoveElement, FS_CardinalityType
<1>4. waiting[q] = Cardinality(QueuedIn(q))
  BY <1>1 DEF WaitingInv
<1>5. waiting'[q] = Cardinality(QueuedIn(q)')
  BY <1>1, <1>3, <1>4 DEF TypeOK
<1>6. ASSUME NEW p \in Writers, p # q
      PROVE  waiting'[p] = waiting[p] /\ QueuedIn(p)' = QueuedIn(p)
  BY <1>6 DEF TypeOK, QueuedIn
<1>7. WaitingInv'
  BY <1>5, <1>6 DEF WaitingInv, Alive
<1>8. waiting' \in [Writers -> Nat]
  BY <1>1, <1>3, <1>5, <1>6 DEF TypeOK
<1> QED
  BY <1>7, <1>8

(* Every operation keeps the invariant. *)
LEMMA StepIInv == IInv /\ [Next]_vars => IInv'
<1> SUFFICES ASSUME IInv, [Next]_vars PROVE IInv'
  OBVIOUS
<1> USE NoneNotWriter, ContextType DEF IInv, Queues, Joined, Live, Entered,
        Finished, localVars, lockVars, Alive
<1>1. ASSUME NEW w \in Writers, Admit(w) PROVE IInv'
  <2> USE <1>1 DEF Admit, OwnedQueue
  <2>1. TypeOK'
    BY DEF TypeOK, Stages, Outcomes
  <2>2. WaitingInv'
    BY CountIn
  <2>3. GoneInv' /\ JoinInv'
    BY <2>1 DEF TypeOK, GoneInv, JoinInv, QueueInv, ChainInv
  <2>4. QueueInv'
    BY <2>1 DEF TypeOK, GoneInv, JoinInv, QueueInv, ChainInv
  <2>5. ChainInv'
    BY <2>1 DEF TypeOK, GoneInv, JoinInv, QueueInv, ChainInv
  <2>6. LocalFifo'
    BY DEF TypeOK, LocalFifo, ChainInv, JoinInv
  <2>7. LockInv'
    BY DEF TypeOK, LockInv
  <2>8. QueueNeverSplit'
    BY DEF TypeOK, QueueNeverSplit, JoinInv, QueueInv, ChainInv, LocalFifo
  <2> QED
    BY <2>1, <2>2, <2>3, <2>4, <2>5, <2>6, <2>7, <2>8
<1>2. ASSUME NEW w \in Writers, AdmitAborted(w) PROVE IInv'
  <2> USE <1>2 DEF AdmitAborted
  <2>1. TypeOK'
    BY DEF TypeOK, Stages, Outcomes
  <2>2. WaitingInv'
    <3>1. \A q \in Writers : QueuedIn(q)' = QueuedIn(q)
      BY DEF QueuedIn, TypeOK
    <3> QED
      BY <3>1 DEF WaitingInv
  <2>3. GoneInv' /\ JoinInv'
    BY DEF TypeOK, GoneInv, JoinInv
  <2>4. QueueInv' /\ ChainInv'
    BY DEF QueueInv, ChainInv
  <2>6. LocalFifo'
    BY DEF TypeOK, LocalFifo, ChainInv, JoinInv
  <2>7. LockInv'
    BY DEF TypeOK, LockInv
  <2>8. QueueNeverSplit'
    BY DEF TypeOK, QueueNeverSplit, JoinInv, QueueInv, ChainInv, LocalFifo
  <2> QED
    BY <2>1, <2>2, <2>3, <2>4, <2>6, <2>7, <2>8
<1>3. ASSUME NEW w \in Writers, EnterAborted(w) PROVE IInv'
  <2> USE <1>3 DEF EnterAborted, EnterCommon, PrecedingSettled, Tell
  <2>1. WaitingInv' /\ waiting' \in [Writers -> Nat]
    <3>1. EnterCommon(w) /\ stage' = [stage EXCEPT ![w] = "settled"]
      OBVIOUS
    <3>2. "settled" \in Stages \ {"queued"}
      BY DEF Stages
    <3> HIDE <1>3 DEF EnterAborted, EnterCommon, PrecedingSettled, Tell, IInv
    <3> QED
      BY <3>1, <3>2, CountOut DEF IInv
  <2>2. TypeOK'
    BY <2>1 DEF TypeOK, Stages, Outcomes
  <2>3. GoneInv' /\ JoinInv'
    BY DEF TypeOK, GoneInv, JoinInv
  <2>4. QueueInv' /\ ChainInv'
    BY DEF QueueInv, ChainInv
  <2>6. LocalFifo'
    BY DEF TypeOK, LocalFifo, ChainInv, JoinInv
  <2>7. LockInv'
    BY DEF TypeOK, LockInv
  <2>8. QueueNeverSplit'
    BY DEF TypeOK, QueueNeverSplit, JoinInv, QueueInv, ChainInv, LocalFifo
  <2> QED
    BY <2>1, <2>2, <2>3, <2>4, <2>6, <2>7, <2>8
<1>4. ASSUME NEW w \in Writers, EnterLocal(w) PROVE IInv'
  <2> USE <1>4 DEF EnterLocal, EnterCommon, PrecedingSettled, Hold
  <2>1. WaitingInv' /\ waiting' \in [Writers -> Nat]
    <3>1. EnterCommon(w) /\ stage' = [stage EXCEPT ![w] = "holding"]
      OBVIOUS
    <3>2. "holding" \in Stages \ {"queued"}
      BY DEF Stages
    <3> HIDE <1>4 DEF EnterLocal, EnterCommon, PrecedingSettled, Hold, IInv
    <3> QED
      BY <3>1, <3>2, CountOut DEF IInv
  <2>2. TypeOK'
    BY <2>1 DEF TypeOK, Stages, Outcomes
  <2>3. GoneInv' /\ JoinInv'
    BY DEF TypeOK, GoneInv, JoinInv
  <2>4. QueueInv' /\ ChainInv'
    BY DEF QueueInv, ChainInv
  <2>6. LocalFifo'
    BY DEF TypeOK, LocalFifo, ChainInv, JoinInv
  <2>7. LockInv'
    BY DEF TypeOK, LockInv
  <2>8. QueueNeverSplit'
    BY DEF TypeOK, QueueNeverSplit, JoinInv, QueueInv, ChainInv, LocalFifo
  <2> QED
    BY <2>1, <2>2, <2>3, <2>4, <2>6, <2>7, <2>8
<1>5. ASSUME NEW w \in Writers, EnterTrying(w) PROVE IInv'
  <2> USE <1>5 DEF EnterTrying, EnterCommon, PrecedingSettled
  <2>1. WaitingInv' /\ waiting' \in [Writers -> Nat]
    <3>1. EnterCommon(w) /\ stage' = [stage EXCEPT ![w] = "trying"]
      OBVIOUS
    <3>2. "trying" \in Stages \ {"queued"}
      BY DEF Stages
    <3> HIDE <1>5 DEF EnterTrying, EnterCommon, PrecedingSettled, IInv
    <3> QED
      BY <3>1, <3>2, CountOut DEF IInv
  <2>2. TypeOK'
    BY <2>1 DEF TypeOK, Stages, Outcomes
  <2>3. GoneInv' /\ JoinInv'
    BY DEF TypeOK, GoneInv, JoinInv
  <2>4. QueueInv' /\ ChainInv'
    BY DEF QueueInv, ChainInv
  <2>6. LocalFifo'
    BY DEF TypeOK, LocalFifo, ChainInv, JoinInv
  <2>7. LockInv'
    BY DEF TypeOK, LockInv
  <2>8. QueueNeverSplit'
    BY DEF TypeOK, QueueNeverSplit, JoinInv, QueueInv, ChainInv, LocalFifo
  <2> QED
    BY <2>1, <2>2, <2>3, <2>4, <2>6, <2>7, <2>8
<1>6. ASSUME NEW w \in Writers, EnterLocking(w) PROVE IInv'
  <2> USE <1>6 DEF EnterLocking, EnterCommon, PrecedingSettled
  <2>1. WaitingInv' /\ waiting' \in [Writers -> Nat]
    <3>1. EnterCommon(w) /\ stage' = [stage EXCEPT ![w] = "locking"]
      OBVIOUS
    <3>2. "locking" \in Stages \ {"queued"}
      BY DEF Stages
    <3> HIDE <1>6 DEF EnterLocking, EnterCommon, PrecedingSettled, IInv
    <3> QED
      BY <3>1, <3>2, CountOut DEF IInv
  <2>2. TypeOK'
    BY <2>1 DEF TypeOK, Stages, Outcomes
  <2>3. GoneInv' /\ JoinInv'
    BY DEF TypeOK, GoneInv, JoinInv
  <2>4. QueueInv' /\ ChainInv'
    BY DEF QueueInv, ChainInv
  <2>6. LocalFifo'
    BY DEF TypeOK, LocalFifo, ChainInv, JoinInv
  <2>7. LockInv'
    BY DEF TypeOK, LockInv
  <2>8. QueueNeverSplit'
    BY DEF TypeOK, QueueNeverSplit, JoinInv, QueueInv, ChainInv, LocalFifo
  <2> QED
    BY <2>1, <2>2, <2>3, <2>4, <2>6, <2>7, <2>8
<1>7. ASSUME NEW w \in Writers, Grant(w) PROVE IInv'
  <2> USE <1>7 DEF Grant, Hold
  <2>1. TypeOK'
    BY DEF TypeOK, Stages, Outcomes
  <2>2. WaitingInv'
    <3>1. \A q \in Writers : QueuedIn(q)' = QueuedIn(q)
      BY DEF QueuedIn, TypeOK
    <3> QED
      BY <3>1 DEF WaitingInv
  <2>3. GoneInv' /\ JoinInv'
    BY DEF TypeOK, GoneInv, JoinInv
  <2>4. QueueInv' /\ ChainInv'
    BY DEF QueueInv, ChainInv
  <2>6. LocalFifo'
    BY DEF TypeOK, LocalFifo, ChainInv, JoinInv
  <2>7. LockInv'
    BY DEF TypeOK, LockInv
  <2>8. QueueNeverSplit'
    BY DEF TypeOK, QueueNeverSplit, JoinInv, QueueInv, ChainInv, LocalFifo
  <2> QED
    BY <2>1, <2>2, <2>3, <2>4, <2>6, <2>7, <2>8
<1>8. ASSUME NEW w \in Writers, TryGrant(w) PROVE IInv'
  <2> USE <1>8 DEF TryGrant, Hold
  <2>1. TypeOK'
    BY DEF TypeOK, Stages, Outcomes
  <2>2. WaitingInv'
    <3>1. \A q \in Writers : QueuedIn(q)' = QueuedIn(q)
      BY DEF QueuedIn, TypeOK
    <3> QED
      BY <3>1 DEF WaitingInv
  <2>3. GoneInv' /\ JoinInv'
    BY DEF TypeOK, GoneInv, JoinInv
  <2>4. QueueInv' /\ ChainInv'
    BY DEF QueueInv, ChainInv
  <2>6. LocalFifo'
    BY DEF TypeOK, LocalFifo, ChainInv, JoinInv
  <2>7. LockInv'
    BY DEF TypeOK, LockInv
  <2>8. QueueNeverSplit'
    BY DEF TypeOK, QueueNeverSplit, JoinInv, QueueInv, ChainInv, LocalFifo
  <2> QED
    BY <2>1, <2>2, <2>3, <2>4, <2>6, <2>7, <2>8
<1>9. ASSUME NEW w \in Writers, TryRefuse(w) PROVE IInv'
  <2> USE <1>9 DEF TryRefuse, Tell
  <2>1. TypeOK'
    BY DEF TypeOK, Stages, Outcomes
  <2>2. WaitingInv'
    <3>1. \A q \in Writers : QueuedIn(q)' = QueuedIn(q)
      BY DEF QueuedIn, TypeOK
    <3> QED
      BY <3>1 DEF WaitingInv
  <2>3. GoneInv' /\ JoinInv'
    BY DEF TypeOK, GoneInv, JoinInv
  <2>4. QueueInv' /\ ChainInv'
    BY DEF QueueInv, ChainInv
  <2>6. LocalFifo'
    BY DEF TypeOK, LocalFifo, ChainInv, JoinInv
  <2>7. LockInv'
    BY DEF TypeOK, LockInv
  <2>8. QueueNeverSplit'
    BY DEF TypeOK, QueueNeverSplit, JoinInv, QueueInv, ChainInv, LocalFifo
  <2> QED
    BY <2>1, <2>2, <2>3, <2>4, <2>6, <2>7, <2>8
<1>10. ASSUME NEW w \in Writers, Finish(w) PROVE IInv'
  <2> USE <1>10 DEF Finish, Tell
  <2>1. TypeOK'
    BY DEF TypeOK, Stages, Outcomes
  <2>2. WaitingInv'
    <3>1. \A q \in Writers : QueuedIn(q)' = QueuedIn(q)
      BY DEF QueuedIn, TypeOK
    <3> QED
      BY <3>1 DEF WaitingInv
  <2>3. GoneInv' /\ JoinInv'
    BY DEF TypeOK, GoneInv, JoinInv
  <2>4. QueueInv' /\ ChainInv'
    BY DEF QueueInv, ChainInv
  <2>6. LocalFifo'
    BY DEF TypeOK, LocalFifo, ChainInv, JoinInv
  <2>7. LockInv'
    BY DEF TypeOK, LockInv
  <2>8. QueueNeverSplit'
    BY DEF TypeOK, QueueNeverSplit, JoinInv, QueueInv, ChainInv, LocalFifo
  <2> QED
    BY <2>1, <2>2, <2>3, <2>4, <2>6, <2>7, <2>8
<1>11. ASSUME NEW w \in Writers, Sweep(w) PROVE IInv'
  <2> USE <1>11 DEF Sweep, Drained
  <2>1. TypeOK'
    BY DEF TypeOK, Stages, Outcomes
  <2>2. WaitingInv'
    <3>1. \A q \in Writers : QueuedIn(q)' = QueuedIn(q)
      BY DEF QueuedIn, TypeOK
    <3> QED
      BY <3>1 DEF WaitingInv
  <2>3. GoneInv' /\ JoinInv'
    BY DEF TypeOK, GoneInv, JoinInv
  <2>4. QueueInv'
    BY DEF TypeOK, QueueInv
  <2>5. ChainInv'
    BY DEF ChainInv
  <2>6. LocalFifo'
    BY DEF TypeOK, LocalFifo, ChainInv, JoinInv
  <2>7. LockInv'
    BY DEF TypeOK, LockInv
  <2>8. QueueNeverSplit'
    BY DEF TypeOK, QueueNeverSplit, JoinInv, QueueInv, ChainInv, LocalFifo
  <2> QED
    BY <2>1, <2>2, <2>3, <2>4, <2>5, <2>6, <2>7, <2>8
<1>12. ASSUME NEW w \in Writers, Abort(w) PROVE IInv'
  <2> USE <1>12 DEF Abort, Withdraw
  <2>1. TypeOK'
    BY DEF TypeOK, Stages, Outcomes
  <2>2. WaitingInv'
    <3>1. \A q \in Writers : QueuedIn(q)' = QueuedIn(q)
      BY DEF QueuedIn, TypeOK
    <3> QED
      BY <3>1 DEF WaitingInv
  <2>3. GoneInv' /\ JoinInv'
    BY DEF TypeOK, GoneInv, JoinInv
  <2>4. QueueInv' /\ ChainInv'
    BY DEF QueueInv, ChainInv
  <2>6. LocalFifo'
    BY DEF TypeOK, LocalFifo, ChainInv, JoinInv
  <2>7. LockInv'
    BY DEF TypeOK, LockInv
  <2>8. QueueNeverSplit'
    BY DEF TypeOK, QueueNeverSplit, JoinInv, QueueInv, ChainInv, LocalFifo
  <2> QED
    BY <2>1, <2>2, <2>3, <2>4, <2>6, <2>7, <2>8
<1>13. ASSUME NEW k \in Connections, CancelCrossContextWaits(k) PROVE IInv'
  <2> USE <1>13 DEF CancelCrossContextWaits, Withdraw
  <2>1. TypeOK'
    BY DEF TypeOK, Stages, Outcomes
  <2>2. WaitingInv'
    <3>1. \A q \in Writers : QueuedIn(q)' = QueuedIn(q)
      BY DEF QueuedIn, TypeOK
    <3> QED
      BY <3>1 DEF WaitingInv
  <2>3. GoneInv' /\ JoinInv'
    BY DEF TypeOK, GoneInv, JoinInv
  <2>4. QueueInv' /\ ChainInv'
    BY DEF QueueInv, ChainInv
  <2>6. LocalFifo'
    BY DEF TypeOK, LocalFifo, ChainInv, JoinInv
  <2>7. LockInv'
    BY DEF TypeOK, LockInv
  <2>8. QueueNeverSplit'
    BY DEF TypeOK, QueueNeverSplit, JoinInv, QueueInv, ChainInv, LocalFifo
  <2> QED
    BY <2>1, <2>2, <2>3, <2>4, <2>6, <2>7, <2>8
<1>14. ASSUME NEW c \in Contexts, Unload(c) PROVE IInv'
  <2> USE <1>14 DEF Unload
  <2>1. TypeOK'
    BY DEF TypeOK, Stages, Outcomes
  <2>2. WaitingInv'
    <3> SUFFICES ASSUME NEW q \in Writers, Alive(q)'
                 PROVE  waiting'[q] = Cardinality(QueuedIn(q)')
      BY DEF WaitingInv
    <3>1. QueuedIn(q)' = QueuedIn(q) /\ waiting'[q] = waiting[q] /\ Alive(q)
      BY DEF QueuedIn, TypeOK, QueueInv, ContextOfWriter
    <3> QED
      BY <3>1 DEF WaitingInv
  <2>3. GoneInv' /\ JoinInv'
    BY DEF TypeOK, GoneInv, JoinInv, ContextOfWriter
  <2>4. QueueInv' /\ ChainInv'
    BY DEF QueueInv, ChainInv
  <2>6. LocalFifo'
    BY DEF TypeOK, LocalFifo, ChainInv, JoinInv, QueueInv, ContextOfWriter
  <2>7. LockInv'
    BY DEF TypeOK, LockInv
  <2>8. QueueNeverSplit'
    BY DEF TypeOK, QueueNeverSplit, JoinInv, QueueInv, ChainInv, LocalFifo
  <2> QED
    BY <2>1, <2>2, <2>3, <2>4, <2>6, <2>7, <2>8
<1> QED
  <2>1. CASE UNCHANGED vars
    BY <2>1 DEF vars, callVars, TypeOK, GoneInv, JoinInv, QueueInv, ChainInv, WaitingInv, QueuedIn,
        LocalFifo, LockInv, QueueNeverSplit
  <2>2. CASE Next
    BY <2>2, <1>1, <1>2, <1>3, <1>4, <1>5, <1>6, <1>7, <1>8, <1>9, <1>10, <1>11,
       <1>12, <1>13, <1>14 DEF Next, Enter
  <2> QED
    BY <2>1, <2>2
-------------------------------------------------------------------------------
(* Two writers of a context are never both between entering and settling:   *)
(* they share a queue, one is ahead of the other, and it has settled.       *)
LEMMA IInvExcludes == IInv => OneRequestPerContext
BY NoneNotWriter
   DEF IInv, TypeOK, QueueNeverSplit, JoinInv, ChainInv, LocalFifo, Joined,
       Live, Entered, Finished, OneRequestPerContext, Queues

(* It excludes two writers of a group: one lock, or one queue. *)
LEMMA IInvOneWriter == IInv => OneWriter
<1> SUFFICES ASSUME IInv, NEW v \in Writers, NEW w \in Writers, v # w,
                    GroupOf[v] = GroupOf[w], stage[v] = "holding",
                    stage[w] = "holding"
             PROVE  FALSE
  BY DEF OneWriter
<1>1. CASE ContextOfWriter(v) \in WebLocks /\ ContextOfWriter(w) \in WebLocks
  BY <1>1 DEF IInv, LockInv
<1>2. CASE ~(ContextOfWriter(v) \in WebLocks /\ ContextOfWriter(w) \in WebLocks)
  <2>1. ContextOfWriter(v) = ContextOfWriter(w)
    BY <1>2 DEF GroupOf
  <2> QED
    BY <2>1, IInvExcludes DEF OneRequestPerContext
<1> QED
  BY <1>1, <1>2

(* The invariant holds of every reachable state, whatever the contexts,     *)
(* connections and writers are and whoever aborts or is unloaded.           *)
THEOREM Invariance == Spec => []IInv
<1>1. Init => IInv
  BY InitIInv
<1>2. IInv /\ [Next]_vars => IInv'
  BY StepIInv
<1> QED
  BY <1>1, <1>2, PTL DEF Spec

(* Every variable of admission keeps its type; in particular the waiting    *)
(* counter of a LocalQueue never goes negative.                             *)
THEOREM TypeCorrect == Spec => []TypeOK
BY Invariance, PTL DEF IInv

(* admitWriter runs one writer of a group at a time. *)
THEOREM Exclusion == Spec => []OneWriter
BY Invariance, IInvOneWriter, PTL

(* Only the head of a context's queue is between entering and settling. *)
THEOREM OneRequest == Spec => []OneRequestPerContext
BY Invariance, IInvExcludes, PTL

(* A context's writers enter in the order in which they were admitted. *)
THEOREM FirstComeFirstServed == Spec => []LocalFifo
BY Invariance, PTL DEF IInv

(* Dropping a drained queue never leaves an unsettled writer behind. *)
THEOREM NeverSplit == Spec => []QueueNeverSplit
BY Invariance, PTL DEF IInv
-------------------------------------------------------------------------------
(* A turn starts only when no writer of the group runs: the writer that     *)
(* entered its queue's head, or was granted the lock, would otherwise       *)
(* break OneWriter in the next state.                                       *)
LEMMA StartIsFree ==
  ASSUME OneWriter', NEW w \in Writers, stage[w] # "holding",
         stage \in [Writers -> Stages],
         stage' = [stage EXCEPT ![w] = "holding"]
  PROVE  Turn!Running(GroupOf[w]) = {}
<1> SUFFICES ASSUME NEW v \in Writers, GroupOf[v] = GroupOf[w], TurnOf(v) = "running"
             PROVE  FALSE
  BY DEF Turn!Running
<1>1. stage[v] = "holding"
  BY DEF TurnOf
<1>2. stage'[v] = "holding" /\ stage'[w] = "holding" /\ v # w
  BY <1>1
<1> QED
  BY <1>2 DEF OneWriter

(* Nobody has a turn at first. *)
LEMMA RefineInit == Init => Turn!Init
BY DEF Init, Turn!Init, TurnOf

(* Every step is one of the abstract turn, or none. *)
LEMMA RefineStep ==
  IInv /\ OneWriter' /\ [Next]_vars => [Turn!Next]_[w \in Writers |-> TurnOf(w)]
<1> SUFFICES ASSUME IInv, OneWriter', [Next]_vars
             PROVE  Turn!Next \/ UNCHANGED [w \in Writers |-> TurnOf(w)]
  OBVIOUS
<1>0. stage \in [Writers -> Stages]
  BY DEF IInv, TypeOK
<1> DEFINE turns == [w \in Writers |-> TurnOf(w)]
(* One writer starts to wait, leaves, or starts its turn. *)
<1>1. ASSUME NEW w \in Writers, NEW t \in Stages, stage' = [stage EXCEPT ![w] = t]
      PROVE  turns' = [turns EXCEPT ![w] = TurnOf(w)']
  BY <1>0, <1>1 DEF TurnOf
<1>2. ASSUME NEW w \in Writers, stage[w] = "new",
             stage' = [stage EXCEPT ![w] = "queued"]
      PROVE  Turn!Arrive(w)
  <2>1. turns' = [turns EXCEPT ![w] = TurnOf(w)']
    BY <1>1, <1>2 DEF Stages
  <2>2. TurnOf(w)' = "waiting" /\ turns[w] = "idle"
    BY <1>0, <1>2 DEF TurnOf
  <2> QED
    BY <2>1, <2>2 DEF Turn!Arrive
<1>3. ASSUME NEW w \in Writers, NEW t \in {"settled", "swept"},
             stage[w] \in Stages \ {"settled", "swept", "gone"},
             stage' = [stage EXCEPT ![w] = t]
      PROVE  Turn!Leave(w)
  <2>1. turns' = [turns EXCEPT ![w] = TurnOf(w)']
    BY <1>1, <1>3 DEF Stages
  <2>2. TurnOf(w)' = "done" /\ turns[w] # "done"
    BY <1>0, <1>3 DEF TurnOf, Stages
  <2> QED
    BY <2>1, <2>2 DEF Turn!Leave
<1>4. ASSUME NEW w \in Writers, stage[w] \in {"queued", "locking", "trying"},
             stage' = [stage EXCEPT ![w] = "holding"]
      PROVE  Turn!Start(w)
  <2>1. turns' = [turns EXCEPT ![w] = TurnOf(w)']
    BY <1>1, <1>4 DEF Stages
  <2>2. TurnOf(w)' = "running" /\ turns[w] = "waiting"
    BY <1>0, <1>4 DEF TurnOf
  <2>3. Turn!Running(GroupOf[w]) = {}
    BY <1>0, <1>4, StartIsFree
  <2> QED
    BY <2>1, <2>2, <2>3 DEF Turn!Start
<1>5. ASSUME NEW w \in Writers, stage[w] = "queued",
             NEW t \in {"locking", "trying"}, stage' = [stage EXCEPT ![w] = t]
      PROVE  UNCHANGED turns
  BY <1>0, <1>5 DEF TurnOf
(* Many writers leave together: withdrawn requests, or an unloaded tab. *)
<1>6. ASSUME NEW W \in SUBSET Writers, NEW t \in {"settled", "gone"},
             stage' = [w \in Writers |-> IF w \in W THEN t ELSE stage[w]]
      PROVE  Turn!Lose(W)
  BY <1>0, <1>6 DEF Turn!Lose, TurnOf
<1>7. ASSUME NEW w \in Writers,
             \/ Admit(w) \/ AdmitAborted(w) \/ Enter(w) \/ Grant(w)
             \/ TryGrant(w) \/ TryRefuse(w) \/ Finish(w)
      PROVE  Turn!Next \/ UNCHANGED turns
  <2>1. CASE Admit(w)
    BY <2>1, <1>2 DEF Admit, Turn!Next
  <2>2. CASE AdmitAborted(w)
    BY <2>2, <1>3 DEF AdmitAborted, Turn!Next, Stages
  <2>3. CASE EnterAborted(w)
    BY <2>3, <1>3 DEF EnterAborted, EnterCommon, Turn!Next, Stages
  <2>4. CASE EnterLocal(w)
    BY <2>4, <1>4 DEF EnterLocal, EnterCommon, Hold, Turn!Next
  <2>5. CASE EnterTrying(w) \/ EnterLocking(w)
    BY <2>5, <1>5 DEF EnterTrying, EnterLocking, EnterCommon
  <2>6. CASE Grant(w) \/ TryGrant(w)
    BY <2>6, <1>4 DEF Grant, TryGrant, Hold, Turn!Next
  <2>7. CASE TryRefuse(w) \/ Finish(w)
    BY <2>7, <1>3 DEF TryRefuse, Finish, Turn!Next, Stages
  <2> QED
    BY <1>7, <2>1, <2>2, <2>3, <2>4, <2>5, <2>6, <2>7 DEF Enter
<1>8. ASSUME NEW w \in Writers, Sweep(w)
      PROVE  UNCHANGED turns
  BY <1>0, <1>8 DEF Sweep, TurnOf
<1>9. ASSUME NEW w \in Writers, Abort(w)
      PROVE  Turn!Next
  <2> DEFINE W == {x \in {w} : stage[x] = "locking"}
  <2>1. W \in SUBSET Writers
    OBVIOUS
  <2>2. stage' = [x \in Writers |-> IF x \in W THEN "settled" ELSE stage[x]]
    BY <1>9 DEF Abort, Withdraw
  <2> QED
    BY <1>6, <2>1, <2>2 DEF Turn!Next
<1>10. ASSUME NEW k \in Connections, CancelCrossContextWaits(k)
       PROVE  Turn!Next
  <2> DEFINE S == {w \in Writers \ Maintenance : ConnectionOf[w] = k}
             W == {x \in S : stage[x] = "locking"}
  <2>1. W \in SUBSET Writers
    OBVIOUS
  <2>2. stage' = [x \in Writers |-> IF x \in W THEN "settled" ELSE stage[x]]
    BY <1>10 DEF CancelCrossContextWaits, Withdraw
  <2> HIDE DEF W
  <2> QED
    BY <1>6, <2>1, <2>2 DEF Turn!Next
<1>11. ASSUME NEW c \in Contexts, Unload(c)
       PROVE  Turn!Next
  <2> DEFINE W == {w \in Writers : ContextOfWriter(w) = c}
  <2>1. W \in SUBSET Writers
    OBVIOUS
  <2>2. stage' = [x \in Writers |-> IF x \in W THEN "gone" ELSE stage[x]]
    BY <1>11 DEF Unload
  <2> HIDE DEF W
  <2> QED
    BY <1>6, <2>1, <2>2 DEF Turn!Next
<1>12. CASE UNCHANGED vars
  BY <1>12 DEF vars, callVars, TurnOf
<1> QED
  BY <1>7, <1>8, <1>9, <1>10, <1>11, <1>12 DEF Next

(* Admission with its chains, lock, refusals, disposal and unloading        *)
(* implements the abstract turn.                                            *)
THEOREM Refinement == Spec => ImplementsTurn
<1>1. Spec => []OneWriter
  BY Exclusion
<1> QED
  BY <1>1, Invariance, RefineInit, RefineStep, PTL DEF Spec, ImplementsTurn, Turn!Spec
-------------------------------------------------------------------------------
(* A caller that was refused before its operation settled was aborted while *)
(* it queued, or belongs to a connection that gave up on other contexts:    *)
(* only such a connection makes an ifAvailable request.                     *)
Refusals ==
    \A w \in Writers :
        /\ stage[w] = "trying" => ConnectionOf[w] \in cancelled
        /\ stage[w] = "new" => outcome[w] = "pending"
        /\ outcome[w] = "refused" =>
              \/ stage[w] \in {"settled", "swept", "gone"}
              \/ stage[w] = "queued" /\ w \in aborted
              \/ stage[w] \in {"trying", "holding"} /\ ConnectionOf[w] \in cancelled

(* Every step keeps to that. *)
LEMMA RefusalsStep ==
  ASSUME TypeOK, Refusals, [Next]_vars
  PROVE  Refusals'
<1> USE DEF TypeOK, Refusals
<1>1. ASSUME NEW w \in Writers, Admit(w) \/ AdmitAborted(w)
      PROVE  Refusals'
  BY <1>1 DEF Admit, AdmitAborted
<1>2. ASSUME NEW w \in Writers, Enter(w)
      PROVE  Refusals'
  BY <1>2 DEF Enter, EnterAborted, EnterLocal, EnterTrying, EnterLocking, EnterCommon, Hold, Tell,
              CrossContextAborted
<1>3. ASSUME NEW w \in Writers, Grant(w) \/ TryGrant(w) \/ TryRefuse(w)
      PROVE  Refusals'
  BY <1>3 DEF Grant, TryGrant, TryRefuse, Hold, Tell
<1>4. ASSUME NEW w \in Writers, Finish(w) \/ Sweep(w)
      PROVE  Refusals'
  BY <1>4 DEF Finish, Sweep, Tell
<1>5. ASSUME NEW w \in Writers, Abort(w)
      PROVE  Refusals'
  BY <1>5 DEF Abort, Withdraw
<1>6. ASSUME NEW k \in Connections, CancelCrossContextWaits(k)
      PROVE  Refusals'
  BY <1>6 DEF CancelCrossContextWaits, Withdraw
<1>7. ASSUME NEW c \in Contexts, Unload(c)
      PROVE  Refusals'
  BY <1>7 DEF Unload
<1>8. CASE UNCHANGED vars
  BY <1>8 DEF vars, callVars
<1> QED
  BY <1>1, <1>2, <1>3, <1>4, <1>5, <1>6, <1>7, <1>8 DEF Next

(* A caller that admitWriter refused never finds its callback running       *)
(* afterwards, unless its connection is being disposed of.                  *)
THEOREM RefusedStaysOut == Spec => []RefusedNeverRunsUndisposed
<1>1. Init => Refusals
  BY DEF Init, Refusals
<1>2. TypeOK /\ Refusals /\ [Next]_vars => Refusals'
  BY RefusalsStep
<1>3. Refusals => RefusedNeverRunsUndisposed
  BY DEF Refusals, RefusedNeverRunsUndisposed
<1> QED
  BY <1>1, <1>2, <1>3, TypeCorrect, PTL DEF Spec
-------------------------------------------------------------------------------
(* The admissions of one connection: WriterAdmissions.                      *)

(* A nonempty set of naturals has a least element. *)
LEMMA Least ==
  ASSUME NEW I \in SUBSET Nat, I # {}
  PROVE  \E x \in I : \A y \in I : x <= y
<1>1. PICK x \in I : \A y \in I : <<y, x>> \notin OpToRel(<, Nat)
  BY WFMin, NatLessThanWellFounded, Zenon
<1>2. \A y \in I : ~(y < x)
  BY <1>1, Zenon DEF OpToRel
<1> QED
  BY <1>2

(* Removing a claim from the set of pending ones leaves claims. *)
LEMMA RemoveFirstType ==
  ASSUME NEW S, NEW s \in Seq(S), NEW e
  PROVE  RemoveFirst(s, e) \in Seq(S)
<1>1. CASE \A i \in 1 .. Len(s) : s[i] # e
  BY <1>1 DEF RemoveFirst
<1>2. CASE \E i \in 1 .. Len(s) : s[i] = e
  <2> DEFINE I == {i \in 1 .. Len(s) : s[i] = e}
             k == CHOOSE x \in I : \A y \in I : x <= y
  <2>1. I \in SUBSET Nat /\ I # {}
    BY <1>2
  <2>2. k \in I
    BY <2>1, Least, Zenon
  <2>3. RemoveFirst(s, e) = SubSeq(s, 1, k - 1) \o SubSeq(s, k + 1, Len(s))
    BY <1>2, <2>1 DEF RemoveFirst, RemoveAt, SelectInSeq, Min
  <2>4. k \in 1 .. Len(s) /\ Len(s) \in Nat
    BY <2>2
  <2>5. SubSeq(s, 1, k - 1) \in Seq(S)
    <3> HIDE DEF k
    <3> QED BY <2>4
  <2>6. SubSeq(s, k + 1, Len(s)) \in Seq(S)
    <3> HIDE DEF k
    <3> QED BY <2>4
  <2> QED
    BY <2>3, <2>5, <2>6, ConcatProperties
<1> QED
  BY <1>1, <1>2
-------------------------------------------------------------------------------
(* The turn this connection holds is the turn of the one admission that is  *)
(* inside it, #running counts it, and a writer is inside its callback       *)
(* exactly while it holds the turn.                                         *)
Turns ==
    /\ \A x \in Tasks : admission[x] = "turn" <=> turn = x
    /\ running = IF turn \in Tasks THEN 1 ELSE 0
    /\ \A w \in Writes : pc[w] # "out" <=> turn = w

(* An attempt runs in its own turn, or in that of a writer that awaits it.  *)
Attempts ==
    \A f \in Folds :
        /\ claim[f] = "running" =>
            /\ runner[f] \in Writes \cup {f} /\ turn = runner[f]
            /\ runner[f] \in Writes => /\ pc[runner[f]] \in {"assist", "lendAssist"}
                                       /\ helping[runner[f]] = f
        /\ attempts[f] <= 1
        /\ claim[f] \in {"none", "pending", "refused"} => attempts[f] = 0

(* A step has no claim before it publishes, and no open one once it ended.  *)
Steps ==
    \A f \in Folds :
        /\ fold[f] \in {"idle", "chained", "computing"} =>
                claim[f] = "none" /\ admission[f] = "idle"
        /\ fold[f] = "done" => claim[f] \in {"none", "settled", "refused"}

(* From close() on no write waits and every write inside its turn is one    *)
(* that drain() joins; once maintenance is stopped no fold waits; and drain *)
(* ends only after every step and every write.                              *)
Closing ==
    /\ shutdown <=> closing # "open"
    /\ shutdown => \A w \in Writes : /\ admission[w] # "waiting"
                                     /\ admission[w] = "turn" => w \in joined
    /\ stopped => \A f \in Folds : admission[f] # "waiting"
    /\ closing = "closed" =>
            /\ stopped
            /\ \A f \in Folds : fold[f] \in {"idle", "done"}
            /\ \A w \in Writes : admission[w] # "turn"

(* The inductive invariant. *)
AdmissionsInv == AdmissionsTypeOK /\ Turns /\ Attempts /\ Steps /\ ReadersNotStranded /\ Closing

(* A new connection satisfies the invariant. *)
LEMMA InitAdmissionsInv == AdmissionsInit => AdmissionsInv
<1> SUFFICES ASSUME AdmissionsInit PROVE AdmissionsInv
  OBVIOUS
<1>1. AdmissionsTypeOK
  <2>1. shutdown \in BOOLEAN /\ stopped \in BOOLEAN
    BY Zenon DEF AdmissionsInit
  <2> QED
    BY <2>1 DEF AdmissionsInit, AdmissionsTypeOK, AdmissionStates, WriterStates
<1>2. Turns
  BY AdmissionsAssumption DEF AdmissionsInit, Turns, Tasks
<1>3. Attempts /\ Steps /\ ReadersNotStranded /\ Closing
  BY DEF AdmissionsInit, Tasks, Attempts, Steps, ReadersNotStranded, Closing
<1> QED
  BY <1>1, <1>2, <1>3 DEF AdmissionsInv

(* What assist() does for writer w: it starts at most the attempt of the    *)
(* first pending claim, awaits that claim, and cancels only a wait.         *)
LEMMA AssistEffect ==
  ASSUME AdmissionsTypeOK, NEW w \in Writes, Claim(FirstPending, w), Await(w, FirstPending)
  PROVE  /\ helping' \in [Writes -> Folds \cup {Nobody}]
         /\ claim' \in [Folds -> {"none", "pending", "running", "settled", "refused"}]
         /\ runner' \in [Folds -> Tasks \cup {Nobody}]
         /\ attempts' \in [Folds -> Nat]
         /\ CancelUnused(FirstPending) \in [Tasks -> AdmissionStates]
         /\ \A v \in Writes \ {w} : helping'[v] = helping[v]
         /\ \A f \in Folds :
              \/ /\ claim[f] = "pending" /\ claim'[f] = "running" /\ runner'[f] = w
                 /\ attempts'[f] = attempts[f] + 1 /\ helping'[w] = f
              \/ claim'[f] = claim[f] /\ runner'[f] = runner[f] /\ attempts'[f] = attempts[f]
<1>1. FirstPending = {} \/ \E h \in Folds : FirstPending = {h}
  BY HeadTailProperties DEF FirstPending, AdmissionsTypeOK
<1>2. PICK h : h \in Folds \cup {Nobody} /\ helping' = [helping EXCEPT ![w] = h]
               /\ FirstPending \subseteq {h}
  BY <1>1 DEF Await
<1>3. w \in Tasks
  BY DEF Tasks
<1>4. helping' \in [Writes -> Folds \cup {Nobody}]
  BY <1>2 DEF AdmissionsTypeOK
<1>5. \A v \in Writes \ {w} : helping'[v] = helping[v]
  BY <1>2 DEF AdmissionsTypeOK
<1>6. CancelUnused(FirstPending) \in [Tasks -> AdmissionStates]
  BY DEF CancelUnused, AdmissionsTypeOK, AdmissionStates
<1>7. /\ claim' \in [Folds -> {"none", "pending", "running", "settled", "refused"}]
      /\ runner' \in [Folds -> Tasks \cup {Nobody}]
      /\ attempts' \in [Folds -> Nat]
  BY <1>3 DEF Claim, AdmissionsTypeOK
<1>8. ASSUME NEW f \in Folds
      PROVE  \/ /\ claim[f] = "pending" /\ claim'[f] = "running" /\ runner'[f] = w
                /\ attempts'[f] = attempts[f] + 1 /\ helping'[w] = f
             \/ claim'[f] = claim[f] /\ runner'[f] = runner[f] /\ attempts'[f] = attempts[f]
  BY <1>2 DEF Claim, Started, AdmissionsTypeOK
<1> QED
  BY <1>4, <1>5, <1>6, <1>7, <1>8

(* Assisting cancels the waits of started claims and nothing else. *)
LEMMA CancelEffect ==
  ASSUME AdmissionsTypeOK
  PROVE  \A x \in Tasks :
            \/ CancelUnused(FirstPending)[x] = admission[x]
            \/ admission[x] = "waiting" /\ CancelUnused(FirstPending)[x] = "aside"
  BY DEF CancelUnused

(* Every step keeps the types. *)
LEMMA TypeStep ==
  ASSUME AdmissionsInv, [AdmissionsNext]_admissionsVars
  PROVE  AdmissionsTypeOK'
<1> USE DEF AdmissionsInv
<1>0. Writes \subseteq Tasks /\ Folds \subseteq Tasks
  BY DEF Tasks
<1>1. CASE OtherTakes \/ OtherLeaves
  BY <1>1 DEF AdmissionsTypeOK, OtherTakes, OtherLeaves, claimVars, stepVars, writerVars, closeVars
<1>2. ASSUME NEW w \in Writes, Write(w) PROVE AdmissionsTypeOK'
  BY <1>0, <1>2 DEF AdmissionsTypeOK, AdmissionStates, Write, claimVars, stepVars, writerVars, closeVars
<1>3. ASSUME NEW w \in Writes, StartWrite(w) PROVE AdmissionsTypeOK'
  <2>1. /\ helping' \in [Writes -> Folds \cup {Nobody}]
        /\ claim' \in [Folds -> {"none", "pending", "running", "settled", "refused"}]
        /\ runner' \in [Folds -> Tasks \cup {Nobody}]
        /\ attempts' \in [Folds -> Nat]
        /\ CancelUnused(FirstPending) \in [Tasks -> AdmissionStates]
    BY <1>3, AssistEffect DEF StartWrite
  <2>2. /\ turn' = w /\ running' = running + 1 /\ pc' = [pc EXCEPT ![w] = "assist"]
        /\ admission' = [CancelUnused(FirstPending) EXCEPT ![w] = "turn"]
        /\ UNCHANGED <<reader, pending, armed, stepVars, closeVars>>
    BY <1>3, Zenon DEF StartWrite
  <2> QED
    BY <1>0, <2>1, <2>2 DEF AdmissionsTypeOK, AdmissionStates, WriterStates, stepVars, closeVars
<1>4. ASSUME NEW w \in Writes, LendAssist(w) PROVE AdmissionsTypeOK'
  <2>1. /\ helping' \in [Writes -> Folds \cup {Nobody}]
        /\ claim' \in [Folds -> {"none", "pending", "running", "settled", "refused"}]
        /\ runner' \in [Folds -> Tasks \cup {Nobody}]
        /\ attempts' \in [Folds -> Nat]
        /\ CancelUnused(FirstPending) \in [Tasks -> AdmissionStates]
    BY <1>4, AssistEffect DEF LendAssist
  <2>2. /\ pc' = [pc EXCEPT ![w] = "lendAssist"]
        /\ armed' = [armed EXCEPT ![w] = "armed"]
        /\ admission' = CancelUnused(FirstPending)
        /\ UNCHANGED <<turn, running, reader, pending, stepVars, closeVars>>
    BY <1>4, Zenon DEF LendAssist
  <2> QED
    BY <2>1, <2>2 DEF AdmissionsTypeOK, WriterStates, stepVars, closeVars
<1>5. ASSUME NEW w \in Writes,
             \/ AssistDone(w) \/ SkipStep(w) \/ StepTable(w) \/ LendDone(w)
             \/ LendAssisted(w) \/ LendWake(w) \/ StepDone(w)
      PROVE  AdmissionsTypeOK'
  <2> USE DEF WriterStates, turnVars, claimVars, stepVars, closeVars
  <2>1. CASE AssistDone(w) \/ LendAssisted(w)
    <3>1. /\ pc' \in [Writes -> WriterStates]
          /\ helping' = [helping EXCEPT ![w] = Nobody]
      BY <2>1 DEF AdmissionsTypeOK, AssistDone, LendAssisted
    <3> QED
      BY <2>1, <3>1 DEF AdmissionsTypeOK, AssistDone, LendAssisted
  <2>2. CASE SkipStep(w) \/ LendWake(w)
    BY <2>2, ZenonT(30) DEF AdmissionsTypeOK, SkipStep, LendWake
  <2>3. CASE StepTable(w)
    BY <1>0, <2>3 DEF AdmissionsTypeOK, StepTable
  <2>4. CASE LendDone(w)
    BY <2>4 DEF AdmissionsTypeOK, LendDone
  <2>5. CASE StepDone(w)
    BY <1>0, <2>5 DEF AdmissionsTypeOK, StepDone
  <2> QED
    BY <1>5, <2>1, <2>2, <2>3, <2>4, <2>5
<1>6. ASSUME NEW x \in Tasks, EndTurn(x), turn = x PROVE
             /\ turn' \in Tasks \cup {Other, Nobody}
             /\ admission' \in [Tasks -> AdmissionStates]
             /\ running' \in Nat
             /\ reader' \in [Readers -> {"idle", "waiting", "clear"}]
  BY <1>6 DEF AdmissionsTypeOK, Turns, EndTurn, AdmissionStates
<1>7. ASSUME NEW w \in Writes, EndWrite(w) PROVE AdmissionsTypeOK'
  <2>1. EndTurn(w) /\ turn = w /\ pc' = [pc EXCEPT ![w] = "out"]
    BY <1>7 DEF EndWrite, Turns
  <2> QED
    BY <1>0, <1>6, <1>7, <2>1
    DEF AdmissionsTypeOK, WriterStates, EndWrite, claimVars, stepVars, closeVars
<1>8. ASSUME NEW f \in Folds, BeginFold(f) \/ RunFold(f) \/ SkipPublish(f) \/ FoldDone(f)
      PROVE  AdmissionsTypeOK'
  <2> USE DEF turnVars, claimVars, writerVars, closeVars
  <2>1. CASE BeginFold(f)
    BY <1>0, <2>1 DEF AdmissionsTypeOK, BeginFold
  <2>2. CASE RunFold(f)
    BY <2>2 DEF AdmissionsTypeOK, RunFold
  <2>3. CASE SkipPublish(f) \/ FoldDone(f)
    BY <1>0, <2>3 DEF AdmissionsTypeOK, SkipPublish, FoldDone
  <2> QED
    BY <1>8, <2>1, <2>2, <2>3
<1>9. ASSUME NEW f \in Folds, Publish(f) PROVE AdmissionsTypeOK'
  BY <1>0, <1>9, AppendProperties
  DEF AdmissionsTypeOK, AdmissionStates, Publish, writerVars, closeVars
<1>10. ASSUME NEW f \in Folds, StartPublish(f) PROVE AdmissionsTypeOK'
  BY <1>0, <1>10
  DEF AdmissionsTypeOK, AdmissionStates, StartPublish, Claim, stepVars, writerVars, closeVars
<1>11. ASSUME NEW f \in Folds, FinishAttempt(f) \/ HandleRefusal(f) PROVE AdmissionsTypeOK'
  <2>1. pending' \in Seq(Folds)
    BY <1>11, RemoveFirstType DEF AdmissionsTypeOK, FinishAttempt, HandleRefusal
  <2>2. CASE FinishAttempt(f)
    BY <2>1, <2>2
    DEF AdmissionsTypeOK, FinishAttempt, turnVars, stepVars, writerVars, closeVars
  <2>3. CASE HandleRefusal(f)
    <3>1. claim' \in {claim, [claim EXCEPT ![f] = "refused"]}
      BY <2>3, Zenon DEF HandleRefusal
    <3> QED
      BY <1>0, <2>1, <2>3, <3>1
      DEF AdmissionsTypeOK, AdmissionStates, HandleRefusal, stepVars, writerVars, closeVars
  <2> QED
    BY <1>11, <2>2, <2>3
<1>12. ASSUME NEW f \in Folds, EndPublish(f) PROVE AdmissionsTypeOK'
  <2>1. EndTurn(f) /\ turn = f
    BY <1>0, <1>12 DEF EndPublish, Turns
  <2> QED
    BY <1>0, <1>6, <1>12, <2>1 DEF AdmissionsTypeOK, EndPublish, claimVars, stepVars, writerVars, closeVars
<1>13. ASSUME NEW r \in Readers, OutsideTurns(r) PROVE AdmissionsTypeOK'
  BY <1>13 DEF AdmissionsTypeOK, OutsideTurns, claimVars, stepVars, writerVars, closeVars
<1>14. CASE Close
  BY <1>14 DEF AdmissionsTypeOK, AdmissionStates, Close, claimVars, stepVars, writerVars
<1>15. CASE GraceOver \/ FinishDrain
  <2>1. stopped' \in BOOLEAN
    BY <1>15, Zenon DEF GraceOver, FinishDrain, StopMaintenance
  <2>2. admission' \in [Tasks -> AdmissionStates]
    BY <1>15 DEF AdmissionsTypeOK, AdmissionStates, GraceOver, FinishDrain, StopMaintenance
  <2> QED
    BY <1>15, <2>1, <2>2
    DEF AdmissionsTypeOK, GraceOver, FinishDrain, claimVars, stepVars, writerVars
<1>16. CASE UNCHANGED admissionsVars
  BY <1>16 DEF AdmissionsTypeOK, admissionsVars, turnVars, claimVars, stepVars, writerVars, closeVars
<1> QED
  BY <1>1, <1>2, <1>3, <1>4, <1>5, <1>7, <1>8, <1>9, <1>10, <1>11, <1>12, <1>13,
     <1>14, <1>15, <1>16, Zenon DEF AdmissionsNext, WriterNext, FoldNext

(* The turn, the admission inside it, the count and the writer's program    *)
(* point stay in step.                                                      *)
LEMMA TurnsStep ==
  ASSUME AdmissionsInv, [AdmissionsNext]_admissionsVars
  PROVE  Turns'
<1> USE AdmissionsAssumption DEF AdmissionsInv
<1>0. /\ Writes \subseteq Tasks /\ Folds \subseteq Tasks
      /\ Nobody \notin Tasks /\ Other \notin Tasks
  BY DEF Tasks
<1>1. CASE OtherTakes \/ OtherLeaves
  BY <1>0, <1>1 DEF Turns, OtherTakes, OtherLeaves, writerVars
<1>2. ASSUME NEW w \in Writes, Write(w) PROVE Turns'
  BY <1>0, <1>2 DEF Turns, AdmissionsTypeOK, Write, writerVars
<1>3. ASSUME NEW w \in Writes, StartWrite(w) PROVE Turns'
  <2>1. /\ turn = Nobody /\ turn' = w /\ running' = running + 1
        /\ pc' = [pc EXCEPT ![w] = "assist"]
        /\ admission' = [CancelUnused(FirstPending) EXCEPT ![w] = "turn"]
    BY <1>3, Zenon DEF StartWrite
  <2>2. running' = IF turn' \in Tasks THEN 1 ELSE 0
    BY <1>0, <2>1 DEF Turns
  <2>3. \A v \in Writes : pc'[v] # "out" <=> turn' = v
    BY <1>0, <2>1 DEF Turns, AdmissionsTypeOK
  <2>4. CancelUnused(FirstPending) \in [Tasks -> AdmissionStates]
    BY DEF CancelUnused, AdmissionsTypeOK, AdmissionStates
  <2>5. \A x \in Tasks : CancelUnused(FirstPending)[x] # "turn"
    BY <1>0, <2>1, CancelEffect DEF Turns
  <2>6. \A x \in Tasks : admission'[x] = "turn" <=> turn' = x
    BY <1>0, <2>1, <2>4, <2>5
  <2> QED
    BY <2>2, <2>3, <2>6 DEF Turns
<1>4. ASSUME NEW w \in Writes, LendAssist(w) PROVE Turns'
  <2>1. /\ pc[w] = "lend" /\ pc' = [pc EXCEPT ![w] = "lendAssist"]
        /\ admission' = CancelUnused(FirstPending)
        /\ UNCHANGED <<turn, running>>
    BY <1>4, Zenon DEF LendAssist
  <2>2. \A x \in Tasks : admission'[x] = "turn" <=> admission[x] = "turn"
    BY <2>1, CancelEffect
  <2> QED
    BY <2>1, <2>2 DEF Turns, AdmissionsTypeOK
<1>5. ASSUME NEW w \in Writes, NEW to \in WriterStates \ {"out"},
             pc[w] # "out", pc' = [pc EXCEPT ![w] = to], UNCHANGED turnVars
      PROVE  Turns'
  BY <1>5 DEF Turns, AdmissionsTypeOK, turnVars
<1>6. ASSUME NEW w \in Writes,
             \/ AssistDone(w) \/ SkipStep(w) \/ StepTable(w) \/ LendDone(w)
             \/ LendAssisted(w) \/ LendWake(w) \/ StepDone(w)
      PROVE  Turns'
  <2>1. pc[w] # "out" /\ UNCHANGED turnVars
    BY <1>6, Zenon
    DEF AssistDone, SkipStep, StepTable, LendDone, LendAssisted, LendWake, StepDone
  <2>2. \E to \in {"decide", "work", "lend", "step", "lendWait"} :
           pc' = [pc EXCEPT ![w] = to]
    BY <1>6, Zenon
    DEF AssistDone, SkipStep, StepTable, LendDone, LendAssisted, LendWake, StepDone
  <2> QED
    BY <1>5, <2>1, <2>2 DEF WriterStates
<1>7. ASSUME NEW x \in Tasks, EndTurn(x), turn = x,
             \A w \in Writes : pc'[w] = IF w = x THEN "out" ELSE pc[w]
      PROVE  Turns'
  BY <1>0, <1>7 DEF Turns, AdmissionsTypeOK, EndTurn
<1>8. ASSUME NEW w \in Writes, EndWrite(w) PROVE Turns'
  <2>1. EndTurn(w) /\ pc[w] = "work" /\ pc' = [pc EXCEPT ![w] = "out"]
    BY <1>8, Zenon DEF EndWrite
  <2> QED
    BY <1>0, <1>7, <2>1 DEF Turns, AdmissionsTypeOK
<1>9. ASSUME NEW f \in Folds, EndPublish(f) PROVE Turns'
  <2>1. EndTurn(f) /\ admission[f] = "turn" /\ pc' = pc
    BY <1>9, Zenon DEF EndPublish, writerVars
  <2>2. f \in Tasks /\ f \notin Writes
    BY <1>0
  <2> QED
    BY <1>7, <2>1, <2>2 DEF Turns
<1>10. ASSUME NEW f \in Folds, Publish(f) PROVE Turns'
  <2>1. /\ admission[f] # "turn"
        /\ \E to \in {"refused", "waiting"} : admission' = [admission EXCEPT ![f] = to]
        /\ UNCHANGED <<turn, running, pc>>
    <3>1. admission[f] # "turn"
      BY <1>10 DEF Publish, Steps
    <3> QED
      BY <1>10, <3>1, Zenon DEF Publish, writerVars
  <2> QED
    BY <1>0, <2>1 DEF Turns, AdmissionsTypeOK
<1>11. ASSUME NEW f \in Folds, StartPublish(f) PROVE Turns'
  <2>1. /\ turn = Nobody /\ turn' = f /\ running' = running + 1 /\ pc' = pc
        /\ admission' = [admission EXCEPT ![f] = "turn"]
    BY <1>11, Zenon DEF StartPublish, writerVars
  <2> QED
    BY <1>0, <2>1 DEF Turns, AdmissionsTypeOK
<1>12. ASSUME NEW f \in Folds, HandleRefusal(f) PROVE Turns'
  <2>1. /\ admission[f] = "refused" /\ admission' = [admission EXCEPT ![f] = "over"]
        /\ UNCHANGED <<turn, running, pc>>
    BY <1>12, Zenon DEF HandleRefusal, writerVars
  <2> QED
    BY <1>0, <2>1 DEF Turns, AdmissionsTypeOK
<1>13. ASSUME NEW f \in Folds,
              \/ BeginFold(f) \/ RunFold(f) \/ SkipPublish(f) \/ FinishAttempt(f)
              \/ FoldDone(f)
       PROVE  Turns'
  <2>1. UNCHANGED <<turn, admission, running, pc>>
    BY <1>13, Zenon
    DEF BeginFold, RunFold, SkipPublish, FinishAttempt, FoldDone, turnVars, writerVars
  <2> QED
    BY <2>1 DEF Turns
<1>14. CASE Close
  BY <1>14 DEF Turns, AdmissionsTypeOK, Close, writerVars
<1>15. CASE GraceOver \/ FinishDrain
  BY <1>15 DEF Turns, AdmissionsTypeOK, GraceOver, FinishDrain, StopMaintenance, writerVars
<1>16. CASE UNCHANGED admissionsVars \/ \E r \in Readers : OutsideTurns(r)
  <2>1. UNCHANGED <<turn, admission, running, pc>>
    BY <1>16, Zenon DEF admissionsVars, turnVars, writerVars, OutsideTurns
  <2> QED
    BY <2>1 DEF Turns
<1> QED
  BY <1>1, <1>2, <1>3, <1>4, <1>6, <1>8, <1>9, <1>10, <1>11, <1>12, <1>13, <1>14,
     <1>15, <1>16, Zenon DEF AdmissionsNext, WriterNext, FoldNext

(* A running attempt keeps its turn: the writer that lends it awaits the    *)
(* claim before it does anything else, and the claim's own turn ends after  *)
(* the claim has settled.  No attempt starts twice, or after a refusal.     *)
LEMMA AttemptsStep ==
  ASSUME AdmissionsInv, [AdmissionsNext]_admissionsVars
  PROVE  Attempts'
<1> USE AdmissionsAssumption DEF AdmissionsInv
<1>0. /\ Writes \subseteq Tasks /\ Folds \subseteq Tasks
      /\ Nobody \notin Tasks /\ Other \notin Tasks
  BY DEF Tasks
<1>1. ASSUME turn = Nobody \/ turn = Other
      PROVE  \A f \in Folds : claim[f] # "running"
  BY <1>0, <1>1 DEF Attempts
<1>2. ASSUME UNCHANGED <<claim, runner, attempts>>,
             \A f \in Folds : claim[f] # "running"
      PROVE  Attempts'
  BY <1>2 DEF Attempts
<1>3. ASSUME UNCHANGED <<claim, runner, attempts, turn, pc, helping>> PROVE Attempts'
  BY <1>3 DEF Attempts
<1>4. CASE OtherTakes \/ OtherLeaves
  <2>1. UNCHANGED <<claim, runner, attempts>> /\ (turn = Nobody \/ turn = Other)
    BY <1>4, Zenon DEF OtherTakes, OtherLeaves, claimVars
  <2> QED
    BY <1>1, <1>2, <2>1
<1>5. ASSUME NEW w \in Writes, NEW to \in {"assist", "lendAssist"}, turn' = w,
             Claim(FirstPending, w), Await(w, FirstPending),
             pc' = [pc EXCEPT ![w] = to],
             \A f \in Folds : claim[f] # "running"
      PROVE  Attempts'
  <2>1. ASSUME NEW f \in Folds
        PROVE  \/ /\ claim[f] = "pending" /\ claim'[f] = "running" /\ runner'[f] = w
                  /\ attempts'[f] = attempts[f] + 1 /\ helping'[w] = f
               \/ claim'[f] = claim[f] /\ runner'[f] = runner[f] /\ attempts'[f] = attempts[f]
    BY <1>5, AssistEffect
  <2>2. pc'[w] \in {"assist", "lendAssist"}
    BY <1>5 DEF AdmissionsTypeOK
  <2> QED
    BY <1>5, <2>1, <2>2 DEF Attempts
<1>6. ASSUME NEW w \in Writes, StartWrite(w) PROVE Attempts'
  BY <1>1, <1>5, <1>6 DEF StartWrite
<1>7. ASSUME NEW w \in Writes, pc[w] \notin {"assist", "lendAssist"}, turn = w
      PROVE  \A f \in Folds : claim[f] # "running"
  BY <1>0, <1>7 DEF Attempts
<1>8. ASSUME NEW w \in Writes, LendAssist(w) PROVE Attempts'
  <2>1. /\ turn = w /\ turn' = w /\ pc[w] = "lend" /\ pc' = [pc EXCEPT ![w] = "lendAssist"]
        /\ Claim(FirstPending, w) /\ Await(w, FirstPending)
    BY <1>8 DEF LendAssist, Turns
  <2> QED
    BY <1>5, <1>7, <2>1
<1>9. ASSUME NEW w \in Writes, AssistDone(w) \/ LendAssisted(w) PROVE Attempts'
  <2>1. /\ pc[w] \in {"assist", "lendAssist"} /\ Helped(w)
        /\ UNCHANGED <<claim, runner, attempts>>
    BY <1>9, Zenon DEF AssistDone, LendAssisted, claimVars
  <2>2. turn = w
    BY <2>1 DEF Turns
  <2>3. \A f \in Folds : claim[f] # "running"
    BY <1>0, <2>1, <2>2 DEF Attempts, Helped
  <2> QED
    BY <1>2, <2>1, <2>3
<1>10. ASSUME NEW w \in Writes,
             \/ SkipStep(w) \/ StepTable(w) \/ LendDone(w) \/ LendWake(w)
             \/ StepDone(w) \/ EndWrite(w)
      PROVE  Attempts'
  <2>1. /\ pc[w] \in {"decide", "lend", "lendWait", "step", "work"}
        /\ UNCHANGED <<claim, runner, attempts>>
    BY <1>10, Zenon
    DEF SkipStep, StepTable, LendDone, LendWake, StepDone, EndWrite, claimVars
  <2> QED
    BY <1>2, <1>7, <2>1 DEF Turns
<1>11. ASSUME NEW f \in Folds, Publish(f) PROVE Attempts'
  <2>1. /\ claim' = [claim EXCEPT ![f] = "pending"] /\ claim[f] = "none"
        /\ UNCHANGED <<runner, attempts, turn, pc, helping>>
    BY <1>11 DEF Publish, Steps, writerVars
  <2> QED
    BY <2>1 DEF Attempts, AdmissionsTypeOK
<1>12. ASSUME NEW f \in Folds, StartPublish(f) PROVE Attempts'
  <2>1. turn = Nobody /\ turn' = f /\ Claim({f}, f)
    BY <1>12, Zenon DEF StartPublish
  <2>2. \A g \in Folds : claim[g] # "running"
    BY <1>1, <2>1
  <2>3. ASSUME NEW g \in Folds
        PROVE  \/ /\ g = f /\ claim[g] = "pending" /\ claim'[g] = "running"
                  /\ runner'[g] = f /\ attempts'[g] = attempts[g] + 1
               \/ claim'[g] = claim[g] /\ runner'[g] = runner[g] /\ attempts'[g] = attempts[g]
    BY <2>1 DEF Claim, Started
  <2>4. f \notin Writes
    OBVIOUS
  <2> QED
    BY <2>1, <2>2, <2>3, <2>4 DEF Attempts
<1>13. ASSUME NEW f \in Folds, FinishAttempt(f) PROVE Attempts'
  <2>1. /\ claim' = [claim EXCEPT ![f] = "settled"]
        /\ UNCHANGED <<runner, attempts, turn, pc, helping>>
    BY <1>13, Zenon DEF FinishAttempt, turnVars, writerVars
  <2> QED
    BY <2>1 DEF Attempts, AdmissionsTypeOK
<1>14. ASSUME NEW f \in Folds, EndPublish(f) PROVE Attempts'
  <2>1. /\ admission[f] = "turn" /\ claim[f] = "settled"
        /\ UNCHANGED <<claim, runner, attempts>>
    BY <1>14, Zenon DEF EndPublish, claimVars
  <2>2. turn = f /\ f \notin Writes
    BY <1>0, <2>1 DEF Turns
  <2>3. \A g \in Folds : claim[g] # "running"
    BY <2>1, <2>2 DEF Attempts
  <2> QED
    BY <1>2, <2>1, <2>3
<1>15. ASSUME NEW f \in Folds, HandleRefusal(f) PROVE Attempts'
  <2>1. /\ \/ claim' = claim
           \/ claim[f] = "pending" /\ claim' = [claim EXCEPT ![f] = "refused"]
        /\ UNCHANGED <<runner, attempts, turn, pc, helping>>
    BY <1>15, Zenon DEF HandleRefusal, writerVars
  <2> QED
    BY <2>1 DEF Attempts, AdmissionsTypeOK
<1>16. ASSUME NEW f \in Folds,
             BeginFold(f) \/ RunFold(f) \/ SkipPublish(f) \/ FoldDone(f)
       PROVE  Attempts'
  BY <1>3, <1>16, Zenon
  DEF BeginFold, RunFold, SkipPublish, FoldDone, turnVars, claimVars, writerVars
<1>17. ASSUME NEW w \in Writes, Write(w) PROVE Attempts'
  BY <1>3, <1>17, Zenon DEF Write, claimVars, writerVars
<1>18. CASE \/ \E r \in Readers : OutsideTurns(r)
            \/ Close \/ GraceOver \/ FinishDrain \/ UNCHANGED admissionsVars
  BY <1>3, <1>18, Zenon
  DEF OutsideTurns, Close, GraceOver, FinishDrain, admissionsVars, turnVars, claimVars, writerVars
<1> QED
  BY <1>4, <1>6, <1>8, <1>9, <1>10, <1>11, <1>12, <1>13, <1>14, <1>15, <1>16, <1>17,
     <1>18, Zenon DEF AdmissionsNext, WriterNext, FoldNext

(* A step publishes once, and ends only when its claim has. *)
LEMMA StepsStep ==
  ASSUME AdmissionsInv, [AdmissionsNext]_admissionsVars
  PROVE  Steps'
<1> USE AdmissionsAssumption DEF AdmissionsInv
<1>0. Writes \subseteq Tasks /\ Folds \subseteq Tasks
  BY DEF Tasks
<1>1. ASSUME fold' = fold,
             \A f \in Folds :
                /\ admission[f] = "idle" => admission'[f] = "idle"
                /\ \/ claim'[f] = claim[f]
                   \/ claim[f] = "pending" /\ claim'[f] \in {"running", "refused"}
                   \/ claim[f] = "running" /\ claim'[f] = "settled"
      PROVE  Steps'
  BY <1>1 DEF Steps
<1>2. ASSUME UNCHANGED <<fold, claim, admission>> PROVE Steps'
  BY <1>1, <1>2
<1>3. ASSUME NEW w \in Writes, StartWrite(w) \/ LendAssist(w) PROVE Steps'
  <2>1. /\ Claim(FirstPending, w) /\ fold' = fold
        /\ \/ admission' = [CancelUnused(FirstPending) EXCEPT ![w] = "turn"]
           \/ admission' = CancelUnused(FirstPending)
    BY <1>3, Zenon DEF StartWrite, LendAssist, stepVars
  <2>2. \A f \in Folds : \/ claim'[f] = claim[f]
                         \/ claim[f] = "pending" /\ claim'[f] = "running"
    BY <2>1 DEF Claim, Started
  <2>3. CancelUnused(FirstPending) \in [Tasks -> AdmissionStates]
    BY DEF CancelUnused, AdmissionsTypeOK, AdmissionStates
  <2>4. \A f \in Folds : admission[f] = "idle" => admission'[f] = "idle"
    BY <1>0, <2>1, <2>3, CancelEffect
  <2> QED
    BY <1>1, <2>1, <2>2, <2>4
<1>4. ASSUME NEW w \in Writes, Write(w) \/ EndWrite(w) PROVE Steps'
  <2>1. /\ UNCHANGED <<fold, claim>>
        /\ \E to \in AdmissionStates : admission' = [admission EXCEPT ![w] = to]
    BY <1>4, Zenon DEF Write, EndWrite, EndTurn, claimVars, stepVars, AdmissionStates
  <2>2. \A f \in Folds : admission[f] = "idle" => admission'[f] = "idle"
    BY <1>0, <2>1 DEF AdmissionsTypeOK
  <2> QED
    BY <1>1, <2>1, <2>2
<1>5. ASSUME NEW w \in Writes,
             \/ AssistDone(w) \/ SkipStep(w) \/ StepTable(w) \/ LendDone(w)
             \/ LendAssisted(w) \/ LendWake(w) \/ StepDone(w)
      PROVE  Steps'
  BY <1>2, <1>5, Zenon
  DEF AssistDone, SkipStep, StepTable, LendDone, LendAssisted, LendWake, StepDone,
      turnVars, claimVars, stepVars
<1>6. ASSUME NEW f \in Folds, BeginFold(f) \/ RunFold(f) \/ SkipPublish(f) PROVE Steps'
  <2>1. /\ UNCHANGED <<claim, admission>> /\ fold[f] \in {"idle", "chained", "computing"}
        /\ \E to \in {"chained", "computing", "done"} : fold' = [fold EXCEPT ![f] = to]
    BY <1>6, Zenon DEF BeginFold, RunFold, SkipPublish, claimVars, turnVars
  <2> QED
    BY <2>1 DEF Steps, AdmissionsTypeOK
<1>7. ASSUME NEW f \in Folds, FoldDone(f) PROVE Steps'
  <2>1. /\ UNCHANGED <<claim, admission>> /\ claim[f] \in {"settled", "refused"}
        /\ fold' = [fold EXCEPT ![f] = "done"]
    BY <1>7, Zenon DEF FoldDone, claimVars, turnVars
  <2> QED
    BY <2>1 DEF Steps, AdmissionsTypeOK
<1>8. ASSUME NEW f \in Folds, Publish(f) PROVE Steps'
  <2>1. /\ fold' = [fold EXCEPT ![f] = "publishing"]
        /\ claim' = [claim EXCEPT ![f] = "pending"]
        /\ \E to \in {"refused", "waiting"} : admission' = [admission EXCEPT ![f] = to]
    BY <1>8, Zenon DEF Publish
  <2> QED
    BY <1>0, <2>1 DEF Steps, AdmissionsTypeOK
<1>9. ASSUME NEW f \in Folds, StartPublish(f) PROVE Steps'
  <2>1. /\ Claim({f}, f) /\ fold' = fold /\ admission[f] = "waiting"
        /\ admission' = [admission EXCEPT ![f] = "turn"]
    BY <1>9, Zenon DEF StartPublish, stepVars
  <2>2. \A g \in Folds : \/ claim'[g] = claim[g]
                         \/ claim[g] = "pending" /\ claim'[g] = "running"
    BY <2>1 DEF Claim, Started
  <2>3. \A g \in Folds : admission[g] = "idle" => admission'[g] = "idle"
    BY <1>0, <2>1 DEF AdmissionsTypeOK
  <2> QED
    BY <1>1, <2>1, <2>2, <2>3
<1>10. ASSUME NEW f \in Folds, FinishAttempt(f) PROVE Steps'
  <2>1. /\ claim[f] = "running" /\ claim' = [claim EXCEPT ![f] = "settled"]
        /\ UNCHANGED <<fold, admission>>
    BY <1>10, Zenon DEF FinishAttempt, turnVars, stepVars
  <2> QED
    BY <1>1, <2>1 DEF AdmissionsTypeOK
<1>11. ASSUME NEW f \in Folds, EndPublish(f) PROVE Steps'
  <2>1. /\ admission[f] = "turn" /\ admission' = [admission EXCEPT ![f] = "over"]
        /\ UNCHANGED <<fold, claim>>
    BY <1>11, Zenon DEF EndPublish, EndTurn, claimVars, stepVars
  <2> QED
    BY <1>0, <1>1, <2>1 DEF AdmissionsTypeOK
<1>12. ASSUME NEW f \in Folds, HandleRefusal(f) PROVE Steps'
  <2>1. /\ admission[f] = "refused" /\ admission' = [admission EXCEPT ![f] = "over"]
        /\ fold' = fold
        /\ \/ claim' = claim
           \/ claim[f] = "pending" /\ claim' = [claim EXCEPT ![f] = "refused"]
    BY <1>12, Zenon DEF HandleRefusal, stepVars
  <2> QED
    BY <1>0, <1>1, <2>1 DEF AdmissionsTypeOK
<1>13. CASE Close
  <2>1. UNCHANGED <<fold, claim>>
    BY <1>13, Zenon DEF Close, claimVars, stepVars
  <2>2. \A g \in Folds : admission[g] = "idle" => admission'[g] = "idle"
    BY <1>0, <1>13 DEF AdmissionsTypeOK, Close
  <2> QED
    BY <1>1, <2>1, <2>2
<1>14. CASE GraceOver \/ FinishDrain
  <2>1. UNCHANGED <<fold, claim>>
    BY <1>14, Zenon DEF GraceOver, FinishDrain, claimVars, stepVars
  <2>2. \A g \in Folds : admission[g] = "idle" => admission'[g] = "idle"
    BY <1>0, <1>14 DEF AdmissionsTypeOK, GraceOver, FinishDrain, StopMaintenance
  <2> QED
    BY <1>1, <2>1, <2>2
<1>15. CASE \/ OtherTakes \/ OtherLeaves \/ UNCHANGED admissionsVars
            \/ \E r \in Readers : OutsideTurns(r)
  BY <1>2, <1>15, Zenon
  DEF OtherTakes, OtherLeaves, OutsideTurns, admissionsVars, turnVars, claimVars, stepVars
<1> QED
  BY <1>3, <1>4, <1>5, <1>6, <1>7, <1>8, <1>9, <1>10, <1>11, <1>12, <1>13, <1>14,
     <1>15, Zenon DEF AdmissionsNext, WriterNext, FoldNext

(* The last turn to end, and shutdown, wake the reads that wait. *)
LEMMA ReadersStep ==
  ASSUME AdmissionsInv, [AdmissionsNext]_admissionsVars
  PROVE  ReadersNotStranded'
<1> USE DEF AdmissionsInv
<1>1. ASSUME reader' = reader, shutdown' = shutdown,
             running' = running \/ running' # 0
      PROVE  ReadersNotStranded'
  BY <1>1 DEF ReadersNotStranded
<1>2. ASSUME NEW x \in Tasks, turn = x, EndTurn(x) PROVE ReadersNotStranded'
  <2>1. running = 1
    BY <1>2 DEF Turns
  <2> QED
    BY <1>2, <2>1 DEF ReadersNotStranded, EndTurn
<1>3. ASSUME NEW w \in Writes, EndWrite(w) PROVE ReadersNotStranded'
  <2>1. EndTurn(w) /\ turn = w /\ w \in Tasks
    BY <1>3 DEF EndWrite, Turns, Tasks
  <2> QED
    BY <1>2, <2>1
<1>4. ASSUME NEW f \in Folds, EndPublish(f) PROVE ReadersNotStranded'
  <2>1. EndTurn(f) /\ turn = f /\ f \in Tasks
    BY <1>4 DEF EndPublish, Turns, Tasks
  <2> QED
    BY <1>2, <2>1
<1>5. ASSUME NEW r \in Readers, OutsideTurns(r) PROVE ReadersNotStranded'
  <2>1. /\ UNCHANGED <<running, shutdown>>
        /\ reader' = [reader EXCEPT ![r] =
                        IF running = 0 \/ shutdown THEN "clear" ELSE "waiting"]
    BY <1>5, Zenon DEF OutsideTurns, closeVars
  <2> QED
    BY <2>1 DEF ReadersNotStranded, AdmissionsTypeOK
<1>6. CASE Close
  BY <1>6 DEF ReadersNotStranded, Close
<1>7. ASSUME NEW w \in Writes, StartWrite(w) PROVE ReadersNotStranded'
  <2>1. running' = running + 1 /\ reader' = reader /\ shutdown' = shutdown
    BY <1>7, Zenon DEF StartWrite, closeVars
  <2> QED
    BY <1>1, <2>1 DEF AdmissionsTypeOK
<1>8. ASSUME NEW f \in Folds, StartPublish(f) PROVE ReadersNotStranded'
  <2>1. running' = running + 1 /\ reader' = reader /\ shutdown' = shutdown
    BY <1>8, Zenon DEF StartPublish, closeVars
  <2> QED
    BY <1>1, <2>1 DEF AdmissionsTypeOK
<1>9. ASSUME NEW w \in Writes,
             \/ Write(w) \/ AssistDone(w) \/ SkipStep(w) \/ StepTable(w) \/ LendDone(w)
             \/ LendAssist(w) \/ LendAssisted(w) \/ LendWake(w) \/ StepDone(w)
      PROVE  ReadersNotStranded'
  BY <1>1, <1>9, Zenon
  DEF Write, AssistDone, SkipStep, StepTable, LendDone, LendAssist, LendAssisted,
      LendWake, StepDone, turnVars, closeVars
<1>10. ASSUME NEW f \in Folds,
              \/ BeginFold(f) \/ RunFold(f) \/ SkipPublish(f) \/ Publish(f)
              \/ FinishAttempt(f) \/ HandleRefusal(f) \/ FoldDone(f)
       PROVE  ReadersNotStranded'
  BY <1>1, <1>10, Zenon
  DEF BeginFold, RunFold, SkipPublish, Publish, FinishAttempt, HandleRefusal,
      FoldDone, turnVars, closeVars
<1>11. CASE OtherTakes \/ OtherLeaves \/ GraceOver \/ FinishDrain \/ UNCHANGED admissionsVars
  BY <1>1, <1>11, Zenon
  DEF OtherTakes, OtherLeaves, GraceOver, FinishDrain, admissionsVars, turnVars, closeVars
<1> QED
  BY <1>3, <1>4, <1>5, <1>6, <1>7, <1>8, <1>9, <1>10, <1>11, Zenon
  DEF AdmissionsNext, WriterNext, FoldNext

(* After close() nothing new waits, and drain() ends after what it joined.  *)
LEMMA ClosingStep ==
  ASSUME AdmissionsInv, [AdmissionsNext]_admissionsVars
  PROVE  Closing'
<1> USE AdmissionsAssumption DEF AdmissionsInv
<1>0. /\ Writes \subseteq Tasks /\ Folds \subseteq Tasks
      /\ \A w \in Writes : w \notin Folds
  BY DEF Tasks
<1>1. ASSUME UNCHANGED closeVars,
             shutdown => \A f \in Folds : fold[f] \in {"idle", "done"} => fold'[f] = fold[f],
             \A w \in Writes :
                /\ shutdown /\ admission'[w] = "waiting" => admission[w] = "waiting"
                /\ admission'[w] = "turn" => admission[w] \in {"turn", "waiting"},
             stopped => \A f \in Folds :
                admission'[f] = "waiting" => admission[f] = "waiting"
      PROVE  Closing'
  BY <1>1 DEF Closing, closeVars
<1>2. ASSUME UNCHANGED <<closeVars, fold, admission>> PROVE Closing'
  BY <1>1, <1>2
<1>3. ASSUME NEW w \in Writes, Write(w) PROVE Closing'
  <2>1. /\ UNCHANGED <<closeVars, fold>>
        /\ admission' = [admission EXCEPT ![w] = IF shutdown THEN "over" ELSE "waiting"]
    BY <1>3, Zenon DEF Write, stepVars
  <2>2. \A f \in Folds : admission'[f] = admission[f]
    BY <1>0, <2>1 DEF AdmissionsTypeOK
  <2>3. \A v \in Writes :
           /\ shutdown /\ admission'[v] = "waiting" => admission[v] = "waiting"
           /\ admission'[v] = "turn" => admission[v] = "turn"
    BY <1>0, <2>1 DEF AdmissionsTypeOK
  <2> QED
    BY <1>1, <2>1, <2>2, <2>3
<1>4. ASSUME NEW w \in Writes, StartWrite(w) \/ LendAssist(w) PROVE Closing'
  <2>1. /\ UNCHANGED <<closeVars, fold>>
        /\ \/ /\ admission' = [CancelUnused(FirstPending) EXCEPT ![w] = "turn"]
              /\ admission[w] = "waiting"
           \/ admission' = CancelUnused(FirstPending)
    BY <1>4, Zenon DEF StartWrite, LendAssist, stepVars
  <2>2. CancelUnused(FirstPending) \in [Tasks -> AdmissionStates]
    BY DEF CancelUnused, AdmissionsTypeOK, AdmissionStates
  <2>3. \A x \in Tasks : /\ admission'[x] = "waiting" => admission[x] = "waiting"
                         /\ admission'[x] = "turn" => admission[x] \in {"turn", "waiting"}
    BY <1>0, <2>1, <2>2, CancelEffect
  <2> QED
    BY <1>0, <1>1, <2>1, <2>3
<1>5. ASSUME NEW x \in Tasks, UNCHANGED <<closeVars, fold>>,
             NEW to \in {"turn", "over"}, admission' = [admission EXCEPT ![x] = to],
             x \in Folds \/ to = "over"
      PROVE  Closing'
  <2>1. \A y \in Tasks : admission'[y] = "waiting" => admission[y] = "waiting"
    BY <1>5 DEF AdmissionsTypeOK
  <2>2. \A w \in Writes : admission'[w] = "turn" => admission[w] = "turn"
    BY <1>0, <1>5 DEF AdmissionsTypeOK
  <2> QED
    BY <1>0, <1>1, <1>5, <2>1, <2>2
<1>6. ASSUME NEW w \in Writes, EndWrite(w) PROVE Closing'
  BY <1>0, <1>5, <1>6, Zenon DEF EndWrite, EndTurn, stepVars
<1>7. ASSUME NEW f \in Folds, StartPublish(f) \/ EndPublish(f) \/ HandleRefusal(f)
      PROVE  Closing'
  BY <1>0, <1>5, <1>7, Zenon DEF StartPublish, EndPublish, HandleRefusal, EndTurn, stepVars
<1>8. ASSUME NEW w \in Writes,
             \/ AssistDone(w) \/ SkipStep(w) \/ StepTable(w) \/ LendDone(w)
             \/ LendAssisted(w) \/ LendWake(w) \/ StepDone(w)
      PROVE  Closing'
  BY <1>2, <1>8, Zenon
  DEF AssistDone, SkipStep, StepTable, LendDone, LendAssisted, LendWake, StepDone,
      turnVars, stepVars
<1>9. ASSUME NEW f \in Folds,
             BeginFold(f) \/ RunFold(f) \/ SkipPublish(f) \/ FoldDone(f)
      PROVE  Closing'
  <2>1. /\ UNCHANGED <<closeVars, admission>>
        /\ fold[f] \in {"idle", "done"} => ~shutdown
        /\ \E to \in {"chained", "computing", "done"} : fold' = [fold EXCEPT ![f] = to]
    BY <1>9, Zenon DEF BeginFold, RunFold, SkipPublish, FoldDone, turnVars
  <2>2. shutdown => \A g \in Folds : fold[g] \in {"idle", "done"} => fold'[g] = fold[g]
    BY <2>1 DEF AdmissionsTypeOK
  <2> QED
    BY <1>1, <2>1, <2>2
<1>10. ASSUME NEW f \in Folds, Publish(f) PROVE Closing'
  <2>1. /\ UNCHANGED closeVars /\ fold[f] = "computing"
        /\ fold' = [fold EXCEPT ![f] = "publishing"]
        /\ admission' = [admission EXCEPT ![f] = IF stopped THEN "refused" ELSE "waiting"]
    BY <1>10, Zenon DEF Publish
  <2>2. \A g \in Folds : fold[g] \in {"idle", "done"} => fold'[g] = fold[g]
    BY <2>1 DEF AdmissionsTypeOK
  <2>3. \A w \in Writes : admission'[w] = admission[w]
    BY <1>0, <2>1 DEF AdmissionsTypeOK
  <2>4. stopped => \A g \in Folds : admission'[g] = "waiting" => admission[g] = "waiting"
    BY <1>0, <2>1 DEF AdmissionsTypeOK
  <2> QED
    BY <1>1, <2>1, <2>2, <2>3, <2>4
<1>11. CASE Close
  <2>1. closing' = "draining" /\ shutdown' = TRUE /\ UNCHANGED <<stopped, fold>>
    BY <1>11, Zenon DEF Close, stepVars
  <2>2. \A w \in Writes : /\ admission'[w] # "waiting"
                          /\ admission'[w] = "turn" => w \in joined'
    BY <1>0, <1>11 DEF Close, Unsettled
  <2>3. \A f \in Folds : admission'[f] = admission[f]
    BY <1>0, <1>11 DEF Close
  <2> QED
    BY <2>1, <2>2, <2>3 DEF Closing
<1>12. CASE GraceOver
  <2>1. /\ UNCHANGED <<shutdown, closing, joined, fold>> /\ stopped' = TRUE
    BY <1>12, Zenon DEF GraceOver, StopMaintenance, stepVars
  <2>2. /\ \A w \in Writes : admission'[w] = admission[w]
        /\ \A f \in Folds : admission'[f] # "waiting"
    BY <1>0, <1>12 DEF GraceOver, StopMaintenance
  <2> QED
    BY <2>1, <2>2 DEF Closing
<1>13. CASE FinishDrain
  <2>1. /\ UNCHANGED <<shutdown, joined, fold>> /\ stopped' = TRUE
        /\ closing = "draining" /\ closing' = "closed" /\ DrainDone
    BY <1>13, Zenon DEF FinishDrain, StopMaintenance, stepVars
  <2>2. /\ \A w \in Writes : admission'[w] = admission[w]
        /\ \A f \in Folds : admission'[f] # "waiting"
    BY <1>0, <1>13 DEF FinishDrain, StopMaintenance
  <2>3. \A w \in Writes : admission[w] # "turn"
    BY <2>1, Zenon DEF Closing, DrainDone, Unsettled
  <2> QED
    BY <2>1, <2>2, <2>3 DEF Closing, DrainDone
<1>14. CASE \/ OtherTakes \/ OtherLeaves \/ UNCHANGED admissionsVars
            \/ \E r \in Readers : OutsideTurns(r)
            \/ \E f \in Folds : FinishAttempt(f)
  BY <1>2, <1>14, Zenon
  DEF OtherTakes, OtherLeaves, OutsideTurns, FinishAttempt, admissionsVars, turnVars, stepVars
<1> QED
  BY <1>3, <1>4, <1>6, <1>7, <1>8, <1>9, <1>10, <1>11, <1>12, <1>13, <1>14, Zenon
  DEF AdmissionsNext, WriterNext, FoldNext
-------------------------------------------------------------------------------
(* The invariant holds in every reachable state. *)
THEOREM AdmissionsInvariance == AdmissionsSpec => []AdmissionsInv
<1>1. AdmissionsInv /\ [AdmissionsNext]_admissionsVars => AdmissionsInv'
  BY TypeStep, TurnsStep, AttemptsStep, StepsStep, ReadersStep, ClosingStep DEF AdmissionsInv
<1> QED
  BY InitAdmissionsInv, <1>1, PTL DEF AdmissionsSpec

(* The connection's admission state always has its type. *)
THEOREM AdmissionsTypeCorrect == AdmissionsSpec => []AdmissionsTypeOK
<1>1. AdmissionsInv => AdmissionsTypeOK
  BY DEF AdmissionsInv
<1> QED
  BY AdmissionsInvariance, <1>1, PTL

(* However many writers assist, publish() starts an attempt once, inside a  *)
(* turn of this connection that outlasts it, and never after a refusal.     *)
THEOREM AttemptsOnce == AdmissionsSpec => []AttemptOnceInsideTurn
<1>1. AdmissionsInv => AttemptOnceInsideTurn
  BY DEF AdmissionsInv, Attempts, Turns, AttemptOnceInsideTurn, Tasks
<1> QED
  BY AdmissionsInvariance, <1>1, PTL

(* outsideTurns never leaves a read waiting between turns or after close.   *)
THEOREM ReadersWake == AdmissionsSpec => []ReadersNotStranded
<1>1. AdmissionsInv => ReadersNotStranded
  BY DEF AdmissionsInv
<1> QED
  BY AdmissionsInvariance, <1>1, PTL

(* Once close() has resolved, no turn is awaited, no write holds one and no *)
(* publication runs.                                                        *)
THEOREM Quiescence == AdmissionsSpec => []ClosedIsQuiet
<1>1. AdmissionsInv => ClosedIsQuiet
  BY DEF AdmissionsInv, Closing, Steps, ClosedIsQuiet
<1> QED
  BY AdmissionsInvariance, <1>1, PTL
===============================================================================
