--------------------------- MODULE ExtentSpaceProofs ---------------------------
(***************************************************************************)
(* Proofs about ExtentSpace for any space, writers, pins and bounds, from  *)
(* an invariant that gives every allocated unit one holder: the current    *)
(* root, the ledger, a call of free, or a writer.                          *)
(***************************************************************************)
EXTENDS ExtentSpace, SequenceTheorems, WellFoundedInduction, TLAPS

(* Who may hold a unit: the current root, an entry of the ledger, a call of *)
(* free in flight, or a writer.                                             *)
Waiting == UNION {waiting[i].units : i \in 1 .. Len(waiting)}
Releasing == UNION {b.units : b \in releasing}
Writing == UNION {Held(w) : w \in Writers}

(* Nothing has two holders, and what is allocated has one; units whose      *)
(* release failed are lost to a space that fails with it.                   *)
Apart ==
    /\ DOMAIN root \cap Waiting = {}
    /\ DOMAIN root \cap Releasing = {}
    /\ Waiting \cap Releasing = {}
    /\ \A w \in Writers : Held(w) \cap (DOMAIN root \cup Waiting \cup Releasing) = {}
    /\ \A v, w \in Writers : v # w => Held(v) \cap Held(w) = {}
    /\ \A i, j \in 1 .. Len(waiting) : i # j => waiting[i].units \cap waiting[j].units = {}
    /\ \A b, c \in releasing : b # c => b.units \cap c.units = {}

Covered ==
    /\ DOMAIN root \cup Waiting \cup Releasing \cup Writing \subseteq allocated
    /\ status # "failed" => allocated \subseteq DOMAIN root \cup Waiting \cup Releasing \cup Writing

(* What is retired waits in the ledger or is being released by it. *)
Collected == UNION {b.units : b \in {c \in releasing : c.owner = Collector}}
Retirement == status # "failed" => retired = Waiting \cup Collected

(* The ledger is in the order of the generations and no pin is newer than   *)
(* the current one.                                                         *)
Ledger ==
    /\ \A i \in 1 .. Len(waiting) : waiting[i].generation <= generation
    /\ \A i, j \in 1 .. Len(waiting) : i < j => waiting[i].generation <= waiting[j].generation
    /\ \A p \in Pins : pins[p] = Unpinned \/ pins[p].generation <= generation
    /\ NothingWaitsInVain

(* What the current root, the one before it and the pinned roots reach is   *)
(* there, in the current root or in an entry that cannot come free yet.     *)
Recent == UNION {waiting[i].units : i \in {j \in 1 .. Len(waiting) : waiting[j].generation >= generation}}
After(g) == UNION {waiting[i].units : i \in {j \in 1 .. Len(waiting) : waiting[j].generation > g}}

Readable ==
    /\ DOMAIN previousRoot \subseteq DOMAIN root \cup Recent
    /\ \A p \in Pins : DOMAIN pins[p].root \subseteq DOMAIN root \cup After(pins[p].generation)
    /\ Intact(root) /\ Intact(previousRoot) /\ PinnedIntact

(* What a writer of a publish that is under way, or that may be durable, is sealed. *)
Sealed == UNION {writers[w].extent : w \in {v \in Writers : writers[v].state \in {"publishing", "indeterminate"}}}

(* The slots hold what the memory of the process says, and nothing they     *)
(* reach can be lost or reused.                                             *)
Durable ==
    /\ slots = slotsFlushed /\ resolved <= Current.sequence
    /\ KeptRootsIntact
    /\ \A s \in 0 .. 1 : DOMAIN slots[s].root \cap unflushed = {}
    /\ status # "closed" =>
          \A s \in 0 .. 1 : DOMAIN slots[s].root \subseteq DOMAIN root \cup Recent \cup Sealed

Remembered ==
    /\ status = "open" =>
          /\ publishing = NoPublish /\ generation <= Current.sequence
          /\ Current.root = root /\ Previous.root = previousRoot
    /\ status = "publishing" => publishing # NoPublish
    /\ publishing # NoPublish =>
          /\ status \in {"publishing", "failed"} /\ generation < Current.sequence
          /\ Current.root = publishing.root /\ Previous.root = root
          /\ \A w \in publishing.writers : writers[w].state = "publishing"
          /\ publishing.retired \subseteq DOMAIN root
          /\ DOMAIN publishing.root = Published(publishing.writers) \cup (DOMAIN root \ publishing.retired)

(* A writer's reservation, what it wrote of it and what it sealed.          *)
Built(w) ==
    LET s == writers[w] IN
    /\ \A i, j \in 1 .. Len(s.reserved) : s.reserved[i] = s.reserved[j] => i = j
    /\ s.written <= Len(s.reserved)
    /\ s.call # "none" \/ s.failed => s.reserved # << >>
    /\ s.call # "none" => ~s.failed
    /\ s.call = "append" => s.written < Len(s.reserved)
    /\ s.reserved # << >> => s.state \in {"open", "aborted"}
    /\ s.reserved # << >> /\ ~s.failed /\ s.call # "moving" => s.extent = {}
    /\ s.call = "moving" =>
          /\ s.written > 0 /\ \E t \in Units : s.extent = Run(t, s.written)
          /\ s.extent \cap Range(s.reserved) = {}
    /\ s.state \in {"new", "gone"} => s.extent = {}
    /\ \A i \in 1 .. s.written : data[s.reserved[i]] = w
    /\ ~s.failed /\ s.call # "moving" => \A u \in s.extent : data[u] = w

Written == \A w \in Writers : Built(w)

(* A closed space remembers nothing. *)
Forgotten ==
    status = "closed" =>
        /\ root = NoRoot /\ previousRoot = NoRoot /\ allocated = {} /\ retired = {}
        /\ generation = 0 /\ waiting = << >> /\ releasing = {} /\ publishing = NoPublish
        /\ \A p \in Pins : pins[p] = Unpinned
        /\ \A w \in Writers : writers[w].state \in {"new", "gone"}

Inv == TypeOK /\ Apart /\ Covered /\ Retirement /\ Ledger /\ Readable /\ Durable /\ Remembered
       /\ Written /\ Forgotten
-------------------------------------------------------------------------------
(***************************************************************************)
(* The operators.                                                          *)
(***************************************************************************)
(* A nonempty set of naturals has a least element. *)
LEMMA Least ==
  ASSUME NEW I \in SUBSET Nat, I # {}
  PROVE  Min(I) \in I /\ \A y \in I : Min(I) <= y
<1>1. PICK x \in I : \A y \in I : <<y, x>> \notin OpToRel(<, Nat)
  BY WFMin, NatLessThanWellFounded, Zenon
<1>2. \A y \in I : ~(y < x)
  BY <1>1, Zenon DEF OpToRel
<1>3. \A y \in I : x =< y
  BY <1>2
<1> QED
  BY <1>3 DEF Min

(* And one that is bounded a greatest. *)
LEMMA Greatest ==
  ASSUME NEW n \in Nat, NEW I \in SUBSET (0 .. n), I # {}
  PROVE  Max(I) \in I /\ \A y \in I : y <= Max(I)
<1> DEFINE J == {n - y : y \in I}
<1>1. J \in SUBSET Nat /\ J # {}
  <2>1. \A y \in 0 .. n : n - y \in Nat
    OBVIOUS
  <2> QED
    BY <2>1
<1>2. PICK z \in J : \A y \in J : z <= y
  <2> HIDE DEF J
  <2> QED BY <1>1, Least
<1>3. PICK x \in I : z = n - x
  BY <1>2
<1>4. \A y \in I : n - x <= n - y
  BY <1>2, <1>3
<1>5. \A y \in 0 .. n : n - x <= n - y => x >= y /\ y <= x
  BY <1>3
<1>6. \A y \in I : x >= y
  BY <1>4, <1>5
<1> DEFINE m == Max(I)
<1>7. m \in I /\ \A y \in I : m >= y
  BY <1>6 DEF Max
<1>8. \A y \in 0 .. n, k \in 0 .. n : k >= y => y <= k
  OBVIOUS
<1> QED
  BY <1>7, <1>8

(* The constants and what is built from them. *)
LEMMA Constants ==
  /\ Length \in Nat /\ MaxPublishes \in Nat /\ MaxOpens \in Nat
  /\ Units \subseteq Nat /\ NoRoot \in Roots /\ DOMAIN NoRoot = {}
  /\ Collector \notin Writers /\ Orphan \notin Writers /\ Collector # Orphan
<1>1. NoRoot \in [{} -> Writers] /\ DOMAIN NoRoot = {}
  BY DEF NoRoot
<1>2. NoRoot \in Roots
  BY <1>1, Zenon DEF Roots
<1> QED
  BY <1>1, <1>2, ExtentSpaceAssumption, AbsenceAssumption DEF Units, Collector, Orphan

(* A root is a function from units to writers. *)
LEMMA RootType ==
  ASSUME NEW r
  PROVE  r \in Roots <=> /\ DOMAIN r \subseteq Units /\ r = [u \in DOMAIN r |-> r[u]]
                         /\ \A u \in DOMAIN r : r[u] \in Writers
<1>1. ASSUME r \in Roots
      PROVE  /\ DOMAIN r \subseteq Units /\ r = [u \in DOMAIN r |-> r[u]]
             /\ \A u \in DOMAIN r : r[u] \in Writers
  <2>1. PICK reached \in SUBSET Units : r \in [reached -> Writers]
    BY <1>1 DEF Roots
  <2> QED
    BY <2>1
<1>2. ASSUME DOMAIN r \subseteq Units, r = [u \in DOMAIN r |-> r[u]],
             \A u \in DOMAIN r : r[u] \in Writers
      PROVE  r \in Roots
  <2>1. r \in [DOMAIN r -> Writers]
    BY <1>2
  <2> QED
    BY <1>2, <2>1, Zenon DEF Roots
<1> QED
  BY <1>1, <1>2

(* What is free for a run of a size is free. *)
LEMMA LowestFits ==
  ASSUME NEW size \in Nat, Fitting(size) # {}
  PROVE  /\ Lowest(size) \in Units
         /\ Run(Lowest(size), size) \subseteq Units \ allocated
<1>1. Fitting(size) \in SUBSET Nat
  BY Constants DEF Fitting
<1>2. Lowest(size) \in Fitting(size)
  BY <1>1, Least DEF Lowest
<1> QED
  BY <1>2 DEF Fitting

(* A run of one unit is the unit. *)
LEMMA OneFits ==
  ASSUME Fitting(1) # {}
  PROVE  /\ Lowest(1) \in Units \ allocated
         /\ \A u \in Fitting(1) : u \in Units \ allocated
<1>1. \A u \in Units : u \in Run(u, 1)
  BY Constants DEF Run
<1>2. Run(Lowest(1), 1) \subseteq Units \ allocated /\ Lowest(1) \in Units
  BY LowestFits
<1> QED
  BY <1>1, <1>2 DEF Fitting

Entry == [generation : 0 .. MaxPublishes, units : SUBSET Units]
PinType == [generation : 0 .. MaxPublishes + 1, root : Roots]

(* An entry of the ledger that may come free. *)
Free(e, held, current) ==
    /\ current >= e.generation + 1
    /\ \A p \in Pins : held[p].generation >= e.generation

(* What drain takes is the longest prefix of entries that may come free. *)
LEMMA Prefix ==
  ASSUME NEW entries \in Seq(Entry), NEW held \in [Pins -> PinType], NEW current \in Nat,
         NEW n, n = Reusable(entries, held, current)
  PROVE  /\ n \in 0 .. Len(entries)
         /\ \A i \in 1 .. n : Free(entries[i], held, current)
         /\ n < Len(entries) => ~Free(entries[n + 1], held, current)
<1> DEFINE P == {m \in 0 .. Len(entries) : \A i \in 1 .. m : Free(entries[i], held, current)}
<1>1. n = Max(P)
  BY DEF Reusable, Free
<1>2. P \in SUBSET (0 .. Len(entries)) /\ 0 \in P /\ Len(entries) \in Nat
  OBVIOUS
<1>3. Max(P) \in P /\ \A y \in P : y <= Max(P)
  <2> HIDE DEF P
  <2> QED BY <1>2, Greatest
<1>4. n \in P /\ \A y \in P : y <= n
  BY <1>1, <1>3, Zenon
<1>5. ASSUME n < Len(entries), Free(entries[n + 1], held, current)
      PROVE  FALSE
  <2>1. n + 1 \in 0 .. Len(entries) /\ n \in Nat
    BY <1>4, <1>5, <1>2
  <2>2. \A i \in 1 .. n + 1 : i \in 1 .. n \/ i = n + 1
    BY <2>1
  <2>3. \A i \in 1 .. n + 1 : Free(entries[i], held, current)
    BY <2>2, <1>4, <1>5, Zenon
  <2>4. n + 1 <= n
    BY <2>1, <2>3, <1>4, Zenon
  <2> QED
    BY <2>1, <2>4
<1> QED
  BY <1>4, <1>5

(* What drain leaves waiting, and what it hands to the allocator. *)
LEMMA Drained ==
  ASSUME NEW entries \in Seq(Entry), NEW held \in [Pins -> PinType], NEW current \in Nat,
         Drain(entries, held, current)
  PROVE  \E n \in 0 .. Len(entries) :
            /\ \A i \in 1 .. n : Free(entries[i], held, current)
            /\ n < Len(entries) => ~Free(entries[n + 1], held, current)
            /\ waiting' \in Seq(Entry) /\ Len(waiting') = Len(entries) - n
            /\ \A i \in 1 .. Len(entries) - n : waiting'[i] = entries[i + n]
            /\ releasing' = releasing
                 \cup Batch(Collector, UNION {entries[i].units : i \in 1 .. n})
<1> DEFINE n == Reusable(entries, held, current)
<1>1. /\ n \in 0 .. Len(entries)
      /\ \A i \in 1 .. n : Free(entries[i], held, current)
      /\ n < Len(entries) => ~Free(entries[n + 1], held, current)
  BY Prefix
<1>2. /\ waiting' = SubSeq(entries, n + 1, Len(entries))
      /\ releasing' = releasing \cup Batch(Collector, UNION {entries[i].units : i \in 1 .. n})
  BY DEF Drain
<1> HIDE DEF n
<1>3. /\ waiting' \in Seq(Entry) /\ Len(waiting') = Len(entries) - n
      /\ \A i \in 1 .. Len(entries) - n : waiting'[i] = entries[i + n]
  <2>1. n \in Nat /\ n <= Len(entries) /\ Len(entries) \in Nat
    BY <1>1
  <2>2. n + 1 \in 1 .. Len(entries) + 1 /\ Len(entries) \in n .. Len(entries)
    BY <2>1
  <2>3. /\ SubSeq(entries, n + 1, Len(entries)) \in Seq(Entry)
        /\ Len(SubSeq(entries, n + 1, Len(entries))) =
             IF n + 1 <= Len(entries) THEN Len(entries) - (n + 1) + 1 ELSE 0
        /\ \A i \in 1 .. Len(entries) - (n + 1) + 1 :
             SubSeq(entries, n + 1, Len(entries))[i] = entries[(n + 1) + i - 1]
    BY <2>1
  <2> QED
    BY <2>1, <2>3, <1>2
<1> QED
  BY <1>1, <1>2, <1>3

WriterType ==
    [state : {"new", "open", "publishing", "aborted", "indeterminate", "gone"},
     call : {"none", "append", "seal", "moving"}, reserved : Seq(Units), written : Nat,
     extent : SUBSET Units, failed : BOOLEAN]

(* What a writer holds are units: those of its reservation and its extent. *)
LEMMA HeldUnits ==
  ASSUME TypeOK, NEW w \in Writers
  PROVE  /\ writers[w] \in WriterType
         /\ Range(writers[w].reserved) =
              {writers[w].reserved[i] : i \in 1 .. Len(writers[w].reserved)}
         /\ Held(w) \subseteq Units
<1>1. writers[w] \in WriterType
  BY DEF TypeOK, WriterType
<1>2. writers[w].reserved \in Seq(Units) /\ writers[w].extent \subseteq Units
  BY <1>1 DEF WriterType
<1>3. DOMAIN writers[w].reserved = 1 .. Len(writers[w].reserved)
  BY <1>2
<1> QED
  BY <1>1, <1>2, <1>3 DEF Held, Range

(* A unit with a holder is allocated. *)
LEMMA HeldAllocated ==
  ASSUME Inv
  PROVE  /\ DOMAIN root \cup Waiting \cup Releasing \subseteq allocated
         /\ \A w \in Writers : Held(w) \subseteq allocated
         /\ Recent \subseteq Waiting /\ \A g : After(g) \subseteq Waiting
         /\ Sealed \subseteq allocated
         /\ \A w \in Writers : writers[w].state \notin {"publishing", "indeterminate"} =>
              Sealed \cap Held(w) = {}
<1>1. DOMAIN root \cup Waiting \cup Releasing \cup Writing \subseteq allocated
  BY DEF Inv, Covered
<1>2. \A w \in Writers : Held(w) \subseteq Writing
  BY DEF Writing
<1>3. Recent \subseteq Waiting /\ \A g : After(g) \subseteq Waiting
  BY DEF Recent, After, Waiting
<1>4. \A w \in Writers : writers[w].extent \subseteq Held(w)
  BY DEF Held
<1>5. ASSUME NEW u \in Sealed
      PROVE  \E v \in Writers : /\ u \in Held(v)
                                /\ writers[v].state \in {"publishing", "indeterminate"}
  BY <1>4 DEF Sealed
<1>6. Sealed \subseteq allocated
  BY <1>1, <1>2, <1>5
<1>7. ASSUME NEW w \in Writers, writers[w].state \notin {"publishing", "indeterminate"}
      PROVE  Sealed \cap Held(w) = {}
  <2>1. \A v \in Writers : v # w => Held(v) \cap Held(w) = {}
    BY DEF Inv, Apart
  <2> QED
    BY <1>5, <1>7, <2>1
<1> QED
  BY <1>1, <1>2, <1>3, <1>6, <1>7

(***************************************************************************)
(* A step of a writer.  Its state becomes s; it reserves `new`, it gives   *)
(* `freed` to a call of free, and it writes only what it holds or what was *)
(* free.                                                                   *)
(***************************************************************************)
WriterStepped(w, s, new, freed, owner) ==
    /\ status # "closed" /\ status' \in {status, "failed"}
    /\ s \in WriterType /\ writers' = [writers EXCEPT ![w] = s]
    /\ writers[w].state \notin {"publishing", "indeterminate"}
    /\ s.state \notin {"publishing", "indeterminate"}
    /\ new \subseteq Units \ allocated /\ allocated' = allocated \cup new
    /\ freed \subseteq Held(w) /\ owner \in Writers \cup {Orphan}
    /\ releasing' = releasing \cup Batch(owner, freed)
    /\ Held(w)' = (Held(w) \cup new) \ freed
    /\ data' \in [Units -> Writers \cup {Junk}] /\ unflushed' \subseteq Units
    /\ \A u \in allocated \ Held(w) : data'[u] = data[u] /\ (u \in unflushed' => u \in unflushed)
    /\ Built(w)'
    /\ UNCHANGED <<slots, slotsFlushed, resolved, opens, spaceVars>>

(* The batch it frees. *)
LEMMA BatchFacts ==
  ASSUME NEW owner, NEW freed
  PROVE  /\ UNION {b.units : b \in Batch(owner, freed)} = freed
         /\ \A b \in Batch(owner, freed) :
              b = [owner |-> owner, units |-> freed] /\ b.owner = owner /\ b.units = freed
<1>1. CASE freed = {}
  BY <1>1 DEF Batch
<1>2. CASE freed # {}
  <2>1. Batch(owner, freed) = {[owner |-> owner, units |-> freed]}
    BY <1>2 DEF Batch
  <2> QED
    BY <2>1
<1> QED
  BY <1>1, <1>2

(* The types are kept. *)
LEMMA WriterTypes ==
  ASSUME TypeOK, NEW w \in Writers, NEW s, NEW new, NEW freed, NEW owner,
         WriterStepped(w, s, new, freed, owner)
  PROVE  TypeOK' /\ \A v \in Writers : v # w => writers'[v] = writers[v]
<1> USE DEF WriterStepped, TypeOK, spaceVars, ledger, disk
<1>1. /\ writers' \in [Writers -> WriterType]
      /\ \A v \in Writers : v # w => writers'[v] = writers[v]
  BY DEF WriterType
<1>2. freed \subseteq Units
  BY HeldUnits, Zenon
<1>3. releasing' \subseteq [owner : Writers \cup {Collector, Orphan}, units : SUBSET Units]
  BY <1>2 DEF Batch
<1>4. status' \in {"closed", "open", "publishing", "failed"}
  OBVIOUS
<1>5. allocated' \subseteq Units
  OBVIOUS
<1> QED
  BY <1>1, <1>3, <1>4, <1>5 DEF WriterType

(* Every unit still has one holder. *)
LEMMA WriterApart ==
  ASSUME Inv, NEW w \in Writers, NEW s, NEW new, NEW freed, NEW owner,
         WriterStepped(w, s, new, freed, owner)
  PROVE  /\ Apart' /\ Covered' /\ Retirement'
         /\ Waiting' = Waiting /\ Recent' = Recent /\ \A g : After(g)' = After(g)
         /\ Sealed' = Sealed
         /\ \A v \in Writers : v # w => Held(v)' = Held(v)
<1>1. /\ writers' \in [Writers -> WriterType]
      /\ writers'[w] = s
      /\ \A v \in Writers : v # w => writers'[v] = writers[v]
  <2>1. TypeOK
    BY DEF Inv
  <2>2. \A v \in Writers : v # w => writers'[v] = writers[v]
    BY <2>1, WriterTypes, Zenon
  <2> QED
    BY <2>1, <2>2 DEF TypeOK, WriterStepped, WriterType
<1>2. \A v \in Writers : v # w => Held(v)' = Held(v)
  BY <1>1 DEF Held
<1>3. Waiting' = Waiting /\ Recent' = Recent /\ \A g : After(g)' = After(g)
  BY DEF WriterStepped, spaceVars, ledger, Waiting, Recent, After
<1>4. Sealed' = Sealed
  <2>1. writers'[w].state \notin {"publishing", "indeterminate"}
    BY <1>1 DEF WriterStepped
  <2> DEFINE Committed == {v \in Writers : writers[v].state \in {"publishing", "indeterminate"}}
  <2>2. Committed' = Committed /\ w \notin Committed
    BY <1>1, <2>1 DEF WriterStepped
  <2>3. \A v \in Committed : writers'[v] = writers[v]
    BY <1>1, <2>2
  <2>4. Sealed' = UNION {writers'[v].extent : v \in Committed'}
    BY DEF Sealed
  <2>5. Sealed = UNION {writers[v].extent : v \in Committed}
    BY DEF Sealed
  <2> HIDE DEF Committed
  <2> QED
    BY <2>2, <2>3, <2>4, <2>5
<1>5. Releasing' = Releasing \cup freed
  <2>1. releasing' = releasing \cup Batch(owner, freed)
    BY DEF WriterStepped
  <2>2. UNION {b.units : b \in Batch(owner, freed)} = freed
    BY BatchFacts, Zenon
  <2> QED
    BY <2>1, <2>2 DEF Releasing
<1>6. /\ Held(w)' = (Held(w) \cup new) \ freed /\ freed \subseteq Held(w)
      /\ new \cap allocated = {} /\ allocated' = allocated \cup new
  BY DEF WriterStepped
<1>7. root' = root /\ waiting' = waiting
  BY DEF WriterStepped, spaceVars, ledger
<1>8. /\ DOMAIN root \cup Waiting \cup Releasing \subseteq allocated
      /\ \A v \in Writers : Held(v) \subseteq allocated
  BY HeldAllocated, Zenon
<1>9. Apart'
  <2> USE DEF Apart
  <2>0. Apart
    BY DEF Inv
  <2>1. (DOMAIN root \cap Waiting = {})' /\ (DOMAIN root \cap Releasing = {})'
        /\ (Waiting \cap Releasing = {})'
    BY <1>3, <1>5, <1>6, <1>7, <2>0
  <2>2. ASSUME NEW v \in Writers
        PROVE  (Held(v) \cap (DOMAIN root \cup Waiting \cup Releasing) = {})'
    <3>1. CASE v = w
      BY <3>1, <1>3, <1>5, <1>6, <1>7, <1>8, <2>0
    <3>2. CASE v # w
      BY <3>2, <1>2, <1>3, <1>5, <1>6, <1>7, <1>8, <2>0
    <3> QED
      BY <3>1, <3>2
  <2>3. ASSUME NEW v \in Writers, NEW x \in Writers, v # x
        PROVE  (Held(v) \cap Held(x) = {})'
    <3>1. CASE v = w
      BY <3>1, <2>3, <1>2, <1>6, <1>8, <2>0
    <3>2. CASE x = w
      BY <3>2, <2>3, <1>2, <1>6, <1>8, <2>0
    <3>3. CASE v # w /\ x # w
      BY <3>3, <2>3, <1>2, <2>0
    <3> QED
      BY <3>1, <3>2, <3>3
  <2>4. (\A i, j \in 1 .. Len(waiting) : i # j => waiting[i].units \cap waiting[j].units = {})'
    BY <1>7, <2>0
  <2>5. (\A b, c \in releasing : b # c => b.units \cap c.units = {})'
    <3>1. releasing' = releasing \cup Batch(owner, freed)
      BY DEF WriterStepped
    <3>2. \A b \in Batch(owner, freed) :
            b = [owner |-> owner, units |-> freed] /\ b.units = freed
      BY BatchFacts, Zenon
    <3>3. \A b \in releasing : b.units \subseteq Releasing
      BY DEF Releasing
    <3>4. \A b \in releasing : b.units \cap freed = {}
      BY <3>3, <1>6, <2>0
    <3> HIDE DEF Apart
    <3>5. \A b, c \in releasing : b # c => b.units \cap c.units = {}
      BY <2>0 DEF Apart
    <3> QED
      BY <3>1, <3>2, <3>4, <3>5
  <2> QED
    BY <2>1, <2>2, <2>3, <2>4, <2>5
<1>10. Covered'
  <2>1. (DOMAIN root \cup Waiting \cup Releasing)' \subseteq allocated'
    BY <1>3, <1>5, <1>6, <1>7, <1>8
  <2>2. \A v \in Writers : Held(v)' \subseteq allocated'
    BY <1>2, <1>6, <1>8
  <2>3. Writing' \subseteq allocated'
    BY <2>2 DEF Writing
  <2>4. ASSUME status' # "failed"
        PROVE  allocated' \subseteq (DOMAIN root \cup Waiting \cup Releasing \cup Writing)'
    <3>1. allocated \subseteq DOMAIN root \cup Waiting \cup Releasing \cup Writing
      BY <2>4 DEF WriterStepped, Inv, Covered
    <3>2. \A v \in Writers : Held(v)' \subseteq Writing'
      BY DEF Writing
    <3>3. \A u \in Writing : \E v \in Writers : u \in Held(v)
      BY DEF Writing
    <3>4. Writing \cup new \subseteq Writing' \cup freed
      BY <3>2, <3>3, <1>2, <1>6, <1>8
    <3> QED
      BY <3>1, <3>4, <1>3, <1>5, <1>6, <1>7
  <2> QED
    BY <2>1, <2>3, <2>4 DEF Covered
<1>11. Retirement'
  <2>1. \A b \in Batch(owner, freed) : b.owner # Collector
    <3>1. owner # Collector
      BY Constants DEF WriterStepped
    <3> QED
      BY <3>1, BatchFacts, Zenon
  <2>2. {c \in releasing : c.owner = Collector}' = {c \in releasing : c.owner = Collector}
    BY <2>1 DEF WriterStepped
  <2>3. Collected' = Collected
    BY <2>2 DEF Collected
  <2> QED
    BY <2>3, <1>3 DEF Retirement, WriterStepped, spaceVars, Inv
<1> QED
  BY <1>2, <1>3, <1>4, <1>9, <1>10, <1>11

(* A step of a writer keeps the invariant. *)
LEMMA WriterKeeps ==
  ASSUME Inv, NEW w \in Writers, NEW s, NEW new, NEW freed, NEW owner,
         WriterStepped(w, s, new, freed, owner)
  PROVE  Inv'
<1>1. /\ TypeOK' /\ Apart' /\ Covered' /\ Retirement'
      /\ Waiting' = Waiting /\ Recent' = Recent /\ \A g : After(g)' = After(g)
      /\ Sealed' = Sealed
      /\ \A v \in Writers : v # w => writers'[v] = writers[v] /\ Held(v)' = Held(v)
  <2>1. TypeOK
    BY DEF Inv
  <2> QED
    BY <2>1, WriterTypes, WriterApart, Zenon
<1>2. /\ slots' = slots /\ slotsFlushed' = slotsFlushed /\ resolved' = resolved
      /\ root' = root /\ previousRoot' = previousRoot /\ retired' = retired
      /\ generation' = generation /\ waiting' = waiting /\ pins' = pins
      /\ publishing' = publishing
      /\ status # "closed" /\ status' \in {status, "failed"}
  BY DEF WriterStepped, spaceVars, ledger
<1>3. \A u \in allocated \ Held(w) : data'[u] = data[u] /\ (u \in unflushed' => u \in unflushed)
  BY DEF WriterStepped
<1>4. /\ DOMAIN root \cup Waiting \cup Releasing \subseteq allocated
      /\ \A v \in Writers : Held(v) \subseteq allocated
      /\ Recent \subseteq Waiting /\ \A g : After(g) \subseteq Waiting
      /\ Sealed \subseteq allocated
      /\ Sealed \cap Held(w) = {}
  BY HeldAllocated DEF WriterStepped
<1>5. /\ Held(w) \cap (DOMAIN root \cup Waiting) = {}
      /\ \A v \in Writers : v # w => Held(v) \cap Held(w) = {}
  BY DEF Inv, Apart
<1>6. Ledger'
  BY <1>2 DEF Inv, Ledger, NothingWaitsInVain
<1>7. Readable'
  <2>0. Readable
    BY DEF Inv
  <2>1. (DOMAIN previousRoot \subseteq DOMAIN root \cup Recent)'
    BY <2>0, <1>1, <1>2 DEF Readable
  <2>2. (\A p \in Pins : DOMAIN pins[p].root \subseteq DOMAIN root \cup After(pins[p].generation))'
    BY <2>0, <1>1, <1>2 DEF Readable
  <2>3. \A u \in DOMAIN root \cup Waiting : data'[u] = data[u]
    BY <1>3, <1>4, <1>5
  <2>4. Intact(root)' /\ Intact(previousRoot)'
    BY <2>0, <2>3, <1>2, <1>4 DEF Readable, Intact
  <2>5. PinnedIntact'
    <3> SUFFICES ASSUME NEW p \in Pins
                 PROVE  Intact(pins[p].root)'
      BY DEF PinnedIntact
    <3>1. DOMAIN pins[p].root \subseteq DOMAIN root \cup Waiting
      BY <2>0, <1>4 DEF Readable
    <3>2. Intact(pins[p].root)
      BY <2>0 DEF Readable, PinnedIntact
    <3> QED
      BY <3>1, <3>2, <2>3, <1>2 DEF Intact
  <2> QED
    BY <2>1, <2>2, <2>4, <2>5 DEF Readable
<1>8. Durable'
  <2>0. Durable
    BY DEF Inv
  <2>1. \A u \in DOMAIN root \cup Waiting \cup Sealed :
          data'[u] = data[u] /\ (u \in unflushed' => u \in unflushed)
    BY <1>3, <1>4, <1>5
  <2>2. \A a \in 0 .. 1 : DOMAIN slots[a].root \subseteq DOMAIN root \cup Recent \cup Sealed
    BY <2>0, <1>2 DEF Durable
  <2>3. KeptRootsIntact' /\ (\A a \in 0 .. 1 : DOMAIN slots[a].root \cap unflushed = {})'
    <3>1. ASSUME NEW a \in 0 .. 1
          PROVE  Intact(slots[a].root)' /\ (DOMAIN slots[a].root \cap unflushed = {})'
      <4>1. DOMAIN slots[a].root \subseteq DOMAIN root \cup Waiting \cup Sealed
        BY <2>2, <1>4
      <4>2. Intact(slots[a].root) /\ DOMAIN slots[a].root \cap unflushed = {}
        BY <2>0 DEF Durable, KeptRootsIntact
      <4> QED
        BY <4>1, <4>2, <2>1, <1>2 DEF Intact
    <3> QED
      BY <3>1 DEF KeptRootsIntact
  <2>4. (slots = slotsFlushed /\ resolved <= Current.sequence)'
    BY <2>0, <1>2 DEF Durable, Current, CurrentSlot
  <2> QED
    BY <2>2, <2>3, <2>4, <1>1, <1>2 DEF Durable
<1>9. Remembered'
  <2>0. Remembered
    BY DEF Inv
  <2>1. Current' = Current /\ Previous' = Previous
    BY <1>2 DEF Current, Previous, CurrentSlot
  <2>2. ASSUME publishing # NoPublish
        PROVE  /\ \A v \in publishing.writers : writers'[v].state = "publishing"
               /\ Published(publishing.writers)' = Published(publishing.writers)
    <3>1. publishing.writers \subseteq Writers
      BY <2>2 DEF Inv, TypeOK
    <3>2. \A v \in publishing.writers : writers[v].state = "publishing"
      BY <2>0, <2>2 DEF Remembered
    <3>3. w \notin publishing.writers
      BY <3>2 DEF WriterStepped
    <3>4. \A v \in publishing.writers : writers'[v] = writers[v]
      BY <3>1, <3>3, <1>1
    <3> QED
      BY <3>2, <3>4, <1>2 DEF Published
  <2>3. (status = "open" =>
          /\ publishing = NoPublish /\ generation <= Current.sequence
          /\ Current.root = root /\ Previous.root = previousRoot)'
    BY <2>0, <2>1, <1>2 DEF Remembered
  <2>4. (status = "publishing" => publishing # NoPublish)'
    BY <2>0, <1>2 DEF Remembered
  <2>5. ASSUME publishing # NoPublish
        PROVE  (/\ status \in {"publishing", "failed"} /\ generation < Current.sequence
                /\ Current.root = publishing.root /\ Previous.root = root
                /\ \A v \in publishing.writers : writers[v].state = "publishing"
                /\ publishing.retired \subseteq DOMAIN root
                /\ DOMAIN publishing.root = Published(publishing.writers) \cup (DOMAIN root \ publishing.retired))'
    BY <2>0, <2>1, <2>2, <2>5, <1>2 DEF Remembered
  <2> QED
    BY <2>3, <2>4, <2>5, <1>2 DEF Remembered
<1>10. Written'
  <2> SUFFICES ASSUME NEW v \in Writers
               PROVE  Built(v)'
    BY DEF Written
  <2>1. CASE v = w
    BY <2>1 DEF WriterStepped
  <2>2. CASE v # w
    <3>1. Built(v) /\ TypeOK
      BY DEF Inv, Written
    <3>2. writers'[v] = writers[v]
      BY <2>2, <1>1
    <3>3. \A u \in Held(v) : data'[u] = data[u]
      BY <2>2, <1>3, <1>4, <1>5
    <3>4. writers[v] \in WriterType
      BY <3>1, HeldUnits
    <3>5. \A i \in 1 .. writers[v].written : writers[v].reserved[i] \in Held(v)
      <4>1. writers[v].written <= Len(writers[v].reserved)
        BY <3>1 DEF Built
      <4>2. Range(writers[v].reserved) \subseteq Held(v)
        BY DEF Held
      <4>3. \A i \in 1 .. Len(writers[v].reserved) : writers[v].reserved[i] \in Held(v)
        BY <4>2, <3>1, HeldUnits
      <4>4. writers[v].written \in Nat /\ Len(writers[v].reserved) \in Nat
        BY <3>4 DEF WriterType
      <4> QED
        BY <4>1, <4>3, <4>4
    <3>6. writers[v].extent \subseteq Held(v)
      BY DEF Held
    <3>7. \A i \in 1 .. writers[v].written : data[writers[v].reserved[i]] = v
      BY <3>1 DEF Built
    <3>8. \A i \in 1 .. writers[v].written : data'[writers[v].reserved[i]] = v
      BY <3>3, <3>5, <3>7
    <3>9. ~writers[v].failed /\ writers[v].call # "moving" => \A u \in writers[v].extent : data'[u] = v
      BY <3>1, <3>3, <3>6 DEF Built
    <3> QED
      BY <3>1, <3>2, <3>8, <3>9 DEF Built
  <2> QED
    BY <2>1, <2>2
<1>11. Forgotten'
  BY <1>2 DEF Forgotten
<1> QED
  BY <1>1, <1>6, <1>7, <1>8, <1>9, <1>10, <1>11 DEF Inv

(* What the steps of a writer need to know of it. *)
LEMMA WriterFacts ==
  ASSUME Inv, NEW w \in Writers
  PROVE  /\ writers[w] \in WriterType /\ Built(w)
         /\ Held(w) = {writers[w].reserved[i] : i \in 1 .. Len(writers[w].reserved)}
                        \cup writers[w].extent
         /\ \A i \in 1 .. Len(writers[w].reserved) : writers[w].reserved[i] \in Held(w) \cap Units
         /\ Held(w) \subseteq Units /\ Held(w) \subseteq allocated
         /\ data \in [Units -> Writers \cup {Junk}] /\ unflushed \subseteq Units
         /\ writers[w].state \notin {"new", "gone"} => status # "closed"
<1>1. TypeOK /\ Built(w) /\ Forgotten
  BY DEF Inv, Written
<1>2. /\ writers[w] \in WriterType
      /\ Range(writers[w].reserved) =
           {writers[w].reserved[i] : i \in 1 .. Len(writers[w].reserved)}
      /\ Held(w) \subseteq Units
  BY <1>1, HeldUnits
<1>3. Held(w) \subseteq allocated
  BY HeldAllocated
<1>4. Held(w) = {writers[w].reserved[i] : i \in 1 .. Len(writers[w].reserved)}
                        \cup writers[w].extent
  BY <1>2 DEF Held
<1>5. \A i \in 1 .. Len(writers[w].reserved) : writers[w].reserved[i] \in Held(w) \cap Units
  BY <1>2, <1>4
<1>6. writers[w].state \notin {"new", "gone"} => status # "closed"
  BY <1>1 DEF Forgotten
<1> QED
  BY <1>1, <1>2, <1>3, <1>4, <1>5, <1>6 DEF TypeOK

(* What a writer holds after a step that leaves it in state s. *)
LEMMA HeldAfter ==
  ASSUME NEW w \in Writers, NEW s \in WriterType, writers'[w] = s
  PROVE  Held(w)' = {s.reserved[i] : i \in 1 .. Len(s.reserved)} \cup s.extent
<1>1. Held(w)' = Range(s.reserved) \cup s.extent
  BY DEF Held
<1>2. s.reserved \in Seq(Units)
  BY DEF WriterType
<1> QED
  BY <1>1, <1>2 DEF Range

(* A builder is given free units. *)
LEMMA OpenBuilderKeeps ==
  ASSUME Inv, NEW w \in Writers, OpenBuilder(w)
  PROVE  Inv'
<1> DEFINE u == Lowest(1)
           s == [writers[w] EXCEPT !.state = "open", !.reserved = <<u>>]
<1>1. /\ writers[w] \in WriterType /\ Built(w)
      /\ data \in [Units -> Writers \cup {Junk}] /\ unflushed \subseteq Units
      /\ writers \in [Writers -> WriterType]
  BY WriterFacts DEF Inv, TypeOK, WriterType
<1>2. u \in Units \ allocated
  BY OneFits, Zenon DEF OpenBuilder
<1> HIDE DEF u
<1>3. /\ writers[w].reserved = << >> /\ writers[w].extent = {} /\ writers[w].written = 0
      /\ writers[w].call = "none" /\ writers[w].failed = FALSE
      /\ writers[w].state \notin {"publishing", "indeterminate"}
  BY <1>1 DEF Built, WriterType, OpenBuilder, Building
<1>4. writers' = [writers EXCEPT ![w] = s] /\ writers'[w] = s
  BY <1>1 DEF OpenBuilder, u
<1>5. s \in WriterType /\ s.state = "open" /\ s.reserved = <<u>> /\ s.extent = {}
      /\ s.written = 0 /\ s.call = "none" /\ s.failed = FALSE
  <2>1. <<u>> \in Seq(Units)
    BY <1>2
  <2> QED
    BY <1>1, <1>3, <2>1 DEF WriterType
<1> HIDE DEF s
<1>6. Held(w)' = (Held(w) \cup {u}) \ {}
  <2>1. Held(w) = {}
    BY <1>3, WriterFacts
  <2>2. Held(w)' = {u}
    BY <1>4, <1>5, HeldAfter
  <2> QED
    BY <2>1, <2>2
<1>7. Built(w)'
  BY <1>4, <1>5 DEF Built
<1>8. WriterStepped(w, s, {u}, {}, Orphan)
  BY <1>1, <1>2, <1>3, <1>4, <1>5, <1>6, <1>7
     DEF WriterStepped, OpenBuilder, Batch, spaceVars, disk, u
<1> QED
  BY <1>8, WriterKeeps

(* extend takes units beside the builder, or relocates it: the old ones are *)
(* freed and the new carry nothing yet.                                     *)
LEMMA ExtendKeeps ==
  ASSUME Inv, NEW w \in Writers, Extend(w)
  PROVE  Inv'
<1> DEFINE r == writers[w].reserved
           after == r[Len(r)] + 1
           u == IF after \in Fitting(1) THEN after ELSE Lowest(1)
           s == [writers[w] EXCEPT !.reserved = Append(r, u)]
<1>1. /\ writers[w] \in WriterType /\ Built(w)
      /\ data \in [Units -> Writers \cup {Junk}] /\ unflushed \subseteq Units
      /\ writers \in [Writers -> WriterType]
      /\ Held(w) \subseteq allocated
  BY WriterFacts DEF Inv, TypeOK, WriterType
<1>2. u \in Units \ allocated
  BY OneFits, Zenon DEF Extend
<1>3. allocated' = allocated \cup {u} /\ writers' = [writers EXCEPT ![w].reserved = Append(r, u)]
  BY DEF Extend
<1> HIDE DEF u
<1>4. writers' = [writers EXCEPT ![w] = s] /\ writers'[w] = s
  BY <1>1, <1>3
<1>5. /\ s \in WriterType /\ s.state = writers[w].state /\ s.reserved = Append(r, u)
      /\ s.extent = writers[w].extent /\ s.written = writers[w].written
      /\ s.call = writers[w].call /\ s.failed = writers[w].failed
  <2>1. Append(r, u) \in Seq(Units)
    BY <1>1, <1>2 DEF WriterType
  <2> QED
    BY <1>1, <2>1 DEF WriterType
<1> HIDE DEF s
<1>6. /\ r \in Seq(Units) /\ Len(r) \in Nat /\ Len(Append(r, u)) = Len(r) + 1
      /\ \A i \in 1 .. Len(r) : Append(r, u)[i] = r[i]
      /\ Append(r, u)[Len(r) + 1] = u
  BY <1>1, <1>2 DEF WriterType
<1>7. Held(w)' = (Held(w) \cup {u}) \ {}
  <2>1. \A i \in 1 .. Len(r) + 1 : i \in 1 .. Len(r) \/ i = Len(r) + 1
    BY <1>6
  <2>2. {s.reserved[i] : i \in 1 .. Len(s.reserved)} = {r[i] : i \in 1 .. Len(r)} \cup {u}
    BY <2>1, <1>5, <1>6
  <2>3. Held(w) = {r[i] : i \in 1 .. Len(r)} \cup writers[w].extent
    BY WriterFacts
  <2> QED
    BY <2>2, <2>3, <1>4, <1>5, HeldAfter, SMTT(30)
<1>8. \A i \in 1 .. Len(r) : r[i] # u
  BY <1>1, <1>2, WriterFacts
<1>9. Built(w)'
  <2>1. \A i, j \in 1 .. Len(s.reserved) : s.reserved[i] = s.reserved[j] => i = j
    <3>1. \A i \in 1 .. Len(s.reserved) : i \in 1 .. Len(r) \/ i = Len(r) + 1
      BY <1>5, <1>6
    <3>2. \A i, j \in 1 .. Len(r) : r[i] = r[j] => i = j
      BY <1>1 DEF Built
    <3> QED
      BY <3>1, <3>2, <1>5, <1>6, <1>8
  <2>2. s.written <= Len(s.reserved) /\ (s.call = "append" => s.written < Len(s.reserved))
        /\ s.reserved # << >>
    <3>1. writers[w].written <= Len(r) /\ writers[w].written \in Nat
      BY <1>1 DEF Built, WriterType
    <3>2. Len(s.reserved) = Len(r) + 1
      BY <1>5, <1>6
    <3>3. s.reserved # << >>
      BY <3>2, <1>6
    <3> QED
      BY <3>1, <3>2, <3>3, <1>5, <1>6
  <2>3. /\ writers[w].state = "open" /\ writers[w].failed = FALSE /\ writers[w].extent = {}
        /\ writers[w].call # "moving"
    BY <1>1 DEF Built, Extend, CanBuild, Usable, Building, WriterType
  <2>4. \A i \in 1 .. s.written : data[s.reserved[i]] = w
    <3>1. \A i \in 1 .. writers[w].written : i \in 1 .. Len(r) /\ data[r[i]] = w
      BY <1>1, <1>6 DEF Built, WriterType
    <3> QED
      BY <3>1, <1>5, <1>6
  <2>5. data' = data
    BY DEF Extend, disk
  <2>6. writers[w].state \in {"open", "aborted"} /\ writers[w].state \notin {"new", "gone"}
        /\ ~s.failed /\ s.extent = {} /\ s.state = "open"
        /\ s.call # "moving"
    BY <2>3, <1>5
  <2> QED
    BY <2>1, <2>2, <2>4, <2>5, <2>6, <1>4 DEF Built
<1>10. writers[w].state = "open" /\ status \in {"open", "publishing"}
  BY DEF Extend, CanBuild, Usable
<1>11. UNCHANGED <<disk, status, spaceVars, releasing>>
  BY DEF Extend
<1>12. WriterStepped(w, s, {u}, {}, Orphan)
  BY <1>1, <1>2, <1>3, <1>4, <1>5, <1>7, <1>9, <1>10, <1>11
     DEF WriterStepped, Batch, disk
<1> QED
  BY <1>12, WriterKeeps

(* A call begins, or abort is called: nothing else of the writer changes. *)
LEMMA CallKeeps ==
  ASSUME Inv, NEW w \in Writers, NEW c \in {writers[w].call, "append", "seal"},
         NEW t \in {"open", "aborted"}, writers[w].state = "open",
         c # writers[w].call => /\ writers[w].call = "none" /\ ~writers[w].failed
                                /\ writers[w].reserved # << >>,
         c = "append" => writers[w].written < Len(writers[w].reserved),
         writers' = [writers EXCEPT ![w] = [writers[w] EXCEPT !.call = c, !.state = t]],
         UNCHANGED <<disk, status, spaceVars, allocated, releasing>>
  PROVE  Inv'
<1> DEFINE s == [writers[w] EXCEPT !.call = c, !.state = t]
<1>1. /\ writers[w] \in WriterType /\ Built(w)
      /\ data \in [Units -> Writers \cup {Junk}] /\ unflushed \subseteq Units
      /\ writers \in [Writers -> WriterType]
      /\ status # "closed"
  BY WriterFacts DEF Inv, TypeOK, WriterType
<1>2. writers'[w] = s
  BY <1>1
<1>3. /\ s \in WriterType /\ s.state = t /\ s.reserved = writers[w].reserved
      /\ s.extent = writers[w].extent /\ s.written = writers[w].written
      /\ s.call = c /\ s.failed = writers[w].failed
  BY <1>1 DEF WriterType
<1> HIDE DEF s
<1>4. Held(w)' = (Held(w) \cup {}) \ {}
  <2>1. Held(w)' = {s.reserved[i] : i \in 1 .. Len(s.reserved)} \cup s.extent
    BY <1>2, <1>3, HeldAfter
  <2>2. Held(w)' = Held(w)
    BY <2>1, <1>3, WriterFacts
  <2> QED
    BY <2>2
<1>5. Built(w)'
  BY <1>1, <1>2, <1>3 DEF Built, disk
<1>6. WriterStepped(w, s, {}, {}, Orphan)
  BY <1>1, <1>2, <1>3, <1>4, <1>5 DEF WriterStepped, Batch, disk, s
<1> QED
  BY <1>6, WriterKeeps

(* An append begins. *)
LEMMA BeginAppendKeeps ==
  ASSUME Inv, NEW w \in Writers, BeginAppend(w)
  PROVE  Inv'
<1>1. writers[w] \in WriterType /\ writers \in [Writers -> WriterType]
  BY WriterFacts DEF Inv, TypeOK, WriterType
<1>2. writers[w].state = "open" /\ writers[w].reserved # << >> /\ ~writers[w].failed
      /\ writers[w].written < Len(writers[w].reserved)
  BY DEF BeginAppend, CanBuild, Usable, Building
<1>3. writers' = [writers EXCEPT ![w] = [writers[w] EXCEPT !.call = "append", !.state = "open"]]
  BY <1>1, <1>2 DEF BeginAppend, WriterType
<1> QED
  BY <1>2, <1>3, CallKeeps DEF BeginAppend

(* A seal begins. *)
LEMMA BeginSealKeeps ==
  ASSUME Inv, NEW w \in Writers, BeginSeal(w)
  PROVE  Inv'
<1>1. writers[w] \in WriterType /\ writers \in [Writers -> WriterType]
  BY WriterFacts DEF Inv, TypeOK, WriterType
<1>2. writers[w].state = "open" /\ writers[w].reserved # << >> /\ ~writers[w].failed
  BY DEF BeginSeal, CanBuild, Usable, Building
<1>3. writers' = [writers EXCEPT ![w] = [writers[w] EXCEPT !.call = "seal", !.state = "open"]]
  BY <1>1, <1>2 DEF BeginSeal, WriterType
<1> QED
  BY <1>2, <1>3, CallKeeps DEF BeginSeal

(* abort of a writer with a call in flight marks it. *)
LEMMA AbortKeeps ==
  ASSUME Inv, NEW w \in Writers, Abort(w)
  PROVE  Inv'
<1>1. writers[w] \in WriterType /\ writers \in [Writers -> WriterType] /\ Built(w)
  BY WriterFacts DEF Inv, TypeOK, WriterType
<1>2. writers[w].state = "open"
  BY DEF Abort
<1>3. writers' = [writers EXCEPT ![w] =
        [writers[w] EXCEPT !.call = writers[w].call, !.state = "aborted"]]
  BY <1>1, <1>2 DEF Abort, WriterType
<1>4. writers[w].call = "append" => writers[w].written < Len(writers[w].reserved)
  BY <1>1 DEF Built
<1>6. UNCHANGED <<disk, status, spaceVars, allocated, releasing>>
  BY DEF Abort
<1> HIDE DEF Abort
<1> QED
  BY <1>2, <1>3, <1>4, <1>6, CallKeeps

(* The unit an append writes next is held. *)
LEMMA NextHeld ==
  ASSUME Inv, NEW w \in Writers, writers[w].call = "append"
  PROVE  /\ NextUnit(w) \in Held(w) \cap Units
         /\ writers[w].state \in {"open", "aborted"} /\ status # "closed"
         /\ writers[w].written + 1 \in 1 .. Len(writers[w].reserved)
         /\ \A i \in 1 .. writers[w].written : writers[w].reserved[i] # NextUnit(w)
         /\ writers[w].extent = {} /\ writers[w].reserved # << >> /\ ~writers[w].failed
<1>1. writers[w] \in WriterType /\ Built(w)
  BY WriterFacts
<1>2. /\ writers[w].written \in Nat /\ Len(writers[w].reserved) \in Nat
      /\ writers[w].written < Len(writers[w].reserved)
  BY <1>1 DEF Built, WriterType
<1>3. writers[w].written + 1 \in 1 .. Len(writers[w].reserved)
  BY <1>2
<1>4. NextUnit(w) \in Held(w) \cap Units
  BY <1>3, WriterFacts DEF NextUnit
<1>5. writers[w].reserved # << >> /\ ~writers[w].failed /\ writers[w].extent = {}
      /\ writers[w].state \in {"open", "aborted"}
  BY <1>1 DEF Built
<1>6. \A i \in 1 .. writers[w].written : writers[w].reserved[i] # NextUnit(w)
  BY <1>1, <1>2, <1>3 DEF Built, NextUnit
<1> QED
  BY <1>3, <1>4, <1>5, <1>6, WriterFacts

(* An append that ends has written the next unit of its reservation. *)
LEMMA EndAppendKeeps ==
  ASSUME Inv, NEW w \in Writers, EndAppend(w)
  PROVE  Inv'
<1> DEFINE s == [writers[w] EXCEPT !.call = "none", !.written = writers[w].written + 1]
           n == writers[w].written
           r == writers[w].reserved
<1>1. /\ writers[w] \in WriterType /\ Built(w)
      /\ data \in [Units -> Writers \cup {Junk}] /\ unflushed \subseteq Units
      /\ writers \in [Writers -> WriterType]
  BY WriterFacts DEF Inv, TypeOK, WriterType
<1>2. /\ NextUnit(w) \in Held(w) \cap Units
      /\ writers[w].state \in {"open", "aborted"} /\ status # "closed"
      /\ n + 1 \in 1 .. Len(r)
      /\ \A i \in 1 .. n : r[i] # NextUnit(w)
      /\ writers[w].extent = {} /\ r # << >> /\ ~writers[w].failed
  BY NextHeld DEF EndAppend
<1>3. writers' = [writers EXCEPT ![w] = s] /\ writers'[w] = s
  BY <1>1 DEF EndAppend, WriterType
<1>4. /\ s \in WriterType /\ s.state = writers[w].state /\ s.reserved = r
      /\ s.extent = writers[w].extent /\ s.written = n + 1
      /\ s.call = "none" /\ s.failed = writers[w].failed
  <2>1. n + 1 \in Nat
    BY <1>1 DEF WriterType
  <2> QED
    BY <1>1, <2>1 DEF WriterType
<1> HIDE DEF s
<1>5. Held(w)' = (Held(w) \cup {}) \ {}
  <2>1. Held(w)' = {s.reserved[i] : i \in 1 .. Len(s.reserved)} \cup s.extent
    BY <1>3, <1>4, HeldAfter
  <2>2. Held(w)' = Held(w)
    BY <2>1, <1>4, WriterFacts
  <2> QED
    BY <2>2
<1>6. /\ data' = [data EXCEPT ![NextUnit(w)] = w] /\ unflushed' = unflushed \cup {NextUnit(w)}
      /\ UNCHANGED <<slots, slotsFlushed, resolved, opens, status, spaceVars, allocated, releasing>>
  BY DEF EndAppend
<1>7. Built(w)'
  <2>1. n \in Nat /\ Len(r) \in Nat /\ \A i \in 1 .. Len(r) : r[i] \in Units
    BY <1>1, WriterFacts DEF WriterType
  <2>2. \A i \in 1 .. n + 1 : i \in 1 .. n \/ i = n + 1
    BY <2>1
  <2>3. \A i \in 1 .. n : data[r[i]] = w /\ r[i] \in Units
    BY <1>1, <1>2, <2>1 DEF Built
  <2>4. data'[r[n + 1]] = w
    BY <1>1, <1>2, <1>6 DEF NextUnit
  <2>5. \A i \in 1 .. n : data'[r[i]] = w
    BY <1>1, <1>2, <1>6, <2>3
  <2>6. \A i \in 1 .. n + 1 : data'[r[i]] = w
    BY <2>2, <2>4, <2>5
  <2>7. n + 1 <= Len(r) /\ \A i, j \in 1 .. Len(r) : r[i] = r[j] => i = j
    BY <1>1, <1>2, <2>1 DEF Built
  <2> QED
    BY <1>2, <1>3, <1>4, <2>6, <2>7 DEF Built
<1>8. WriterStepped(w, s, {}, {}, Orphan)
  BY <1>1, <1>2, <1>3, <1>4, <1>5, <1>6, <1>7 DEF WriterStepped, Batch
<1> QED
  BY <1>8, WriterKeeps

(* An append that fails leaves its builder failed and keeps the reservation. *)
LEMMA FailAppendKeeps ==
  ASSUME Inv, NEW w \in Writers, FailAppend(w)
  PROVE  Inv'
<1> DEFINE s == [writers[w] EXCEPT !.call = "none", !.failed = TRUE]
           n == writers[w].written
           r == writers[w].reserved
<1>1. /\ writers[w] \in WriterType /\ Built(w)
      /\ data \in [Units -> Writers \cup {Junk}] /\ unflushed \subseteq Units
      /\ writers \in [Writers -> WriterType]
  BY WriterFacts DEF Inv, TypeOK, WriterType
<1>2. /\ NextUnit(w) \in Held(w) \cap Units
      /\ writers[w].state \in {"open", "aborted"} /\ status # "closed"
      /\ n + 1 \in 1 .. Len(r)
      /\ \A i \in 1 .. n : r[i] # NextUnit(w)
      /\ writers[w].extent = {} /\ r # << >> /\ ~writers[w].failed
  BY NextHeld DEF FailAppend
<1>3. writers' = [writers EXCEPT ![w] = s] /\ writers'[w] = s
  BY <1>1 DEF FailAppend, WriterType
<1>4. /\ s \in WriterType /\ s.state = writers[w].state /\ s.reserved = r
      /\ s.extent = writers[w].extent /\ s.written = n
      /\ s.call = "none" /\ s.failed = TRUE
  BY <1>1 DEF WriterType
<1> HIDE DEF s
<1>5. Held(w)' = (Held(w) \cup {}) \ {}
  <2>1. Held(w)' = {s.reserved[i] : i \in 1 .. Len(s.reserved)} \cup s.extent
    BY <1>3, <1>4, HeldAfter
  <2>2. Held(w)' = Held(w)
    BY <2>1, <1>4, WriterFacts
  <2> QED
    BY <2>2
<1>6. /\ data' = [data EXCEPT ![NextUnit(w)] = Junk] /\ unflushed' = unflushed \ {NextUnit(w)}
      /\ status' \in {status, "failed"}
      /\ UNCHANGED <<slots, slotsFlushed, resolved, opens, spaceVars, allocated, releasing>>
  BY DEF FailAppend
<1>7. Built(w)'
  <2>1. n \in Nat /\ Len(r) \in Nat /\ \A i \in 1 .. Len(r) : r[i] \in Units
    BY <1>1, WriterFacts DEF WriterType
  <2>2. \A i \in 1 .. n : data[r[i]] = w /\ r[i] \in Units
    BY <1>1, <1>2, <2>1 DEF Built
  <2>3. \A i \in 1 .. n : data'[r[i]] = w
    BY <1>1, <1>2, <1>6, <2>2
  <2>4. n <= Len(r) /\ \A i, j \in 1 .. Len(r) : r[i] = r[j] => i = j
    BY <1>1, <1>2, <2>1 DEF Built
  <2> QED
    BY <1>2, <1>3, <1>4, <2>3, <2>4 DEF Built
<1>8. WriterStepped(w, s, {}, {}, Orphan)
  BY <1>1, <1>2, <1>3, <1>4, <1>5, <1>6, <1>7 DEF WriterStepped, Batch
<1> QED
  BY <1>8, WriterKeeps

(* What is left of a writer that ended. *)
Gone == [NewWriter EXCEPT !.state = "gone"]

(* A writer that is gone holds nothing. *)
LEMMA GoneType ==
  /\ NewWriter \in WriterType /\ Gone \in WriterType
  /\ NewWriter.state = "new" /\ Gone.state = "gone"
  /\ \A s \in {NewWriter, Gone} :
       s.call = "none" /\ s.reserved = << >> /\ s.written = 0 /\ s.extent = {} /\ s.failed = FALSE
<1>1. << >> \in Seq(Units)
  OBVIOUS
<1>2. NewWriter \in WriterType
  BY <1>1 DEF NewWriter, WriterType
<1>3. NewWriter.state = "new" /\ NewWriter.call = "none" /\ NewWriter.reserved = << >>
      /\ NewWriter.written = 0 /\ NewWriter.extent = {} /\ NewWriter.failed = FALSE
  BY DEF NewWriter
<1>4. Gone \in WriterType /\ Gone.state = "gone" /\ Gone.call = "none" /\ Gone.reserved = << >>
      /\ Gone.written = 0 /\ Gone.extent = {} /\ Gone.failed = FALSE
  BY <1>2, <1>3 DEF Gone, WriterType
<1> QED
  BY <1>2, <1>3, <1>4

(* discard frees what was reserved. *)
LEMMA DiscardKeeps ==
  ASSUME Inv, NEW w \in Writers, Discard(w)
  PROVE  Inv'
<1> DEFINE s == [writers[w] EXCEPT !.extent = {}]
           x == writers[w].extent
<1>1. /\ writers[w] \in WriterType /\ Built(w)
      /\ data \in [Units -> Writers \cup {Junk}] /\ unflushed \subseteq Units
      /\ writers \in [Writers -> WriterType]
      /\ Held(w) = {writers[w].reserved[i] : i \in 1 .. Len(writers[w].reserved)} \cup x
  BY WriterFacts DEF Inv, TypeOK, WriterType
<1>2. writers[w].state = "open" /\ status \in {"open", "publishing"} /\ writers[w].reserved = << >>
  BY DEF Discard, Usable, Building
<1>3. writers' = [writers EXCEPT ![w] = s] /\ writers'[w] = s
  BY <1>1 DEF Discard
<1>4. /\ s \in WriterType /\ s.state = "open" /\ s.reserved = << >>
      /\ s.extent = {} /\ s.written = writers[w].written
      /\ s.call = writers[w].call /\ s.failed = writers[w].failed
  BY <1>1, <1>2 DEF WriterType
<1> HIDE DEF s
<1>5. Held(w) = x
  BY <1>1, <1>2
<1>6. Held(w)' = {}
  BY <1>3, <1>4, HeldAfter
<1>7. Held(w)' = (Held(w) \cup {}) \ x
  BY <1>5, <1>6
<1>8. Built(w)'
  <2>1. s.written = 0 /\ s.call = "none" /\ ~s.failed
    BY <1>1, <1>2, <1>4 DEF Built, WriterType
  <2> QED
    BY <2>1, <1>3, <1>4 DEF Built
<1>9. releasing' = releasing \cup Batch(Orphan, x) /\ UNCHANGED <<disk, status, spaceVars, allocated>>
  BY DEF Discard
<1>10. WriterStepped(w, s, {}, x, Orphan)
  BY <1>1, <1>2, <1>3, <1>4, <1>5, <1>7, <1>8, <1>9 DEF WriterStepped, disk
<1> QED
  BY <1>10, WriterKeeps

(* The end of an abort frees what the writer reserved and what it sealed. *)
LEMMA EndAbortKeeps ==
  ASSUME Inv, NEW w \in Writers, EndAbort(w)
  PROVE  Inv'
<1>1. /\ writers[w] \in WriterType /\ Built(w)
      /\ data \in [Units -> Writers \cup {Junk}] /\ unflushed \subseteq Units
      /\ writers \in [Writers -> WriterType]
  BY WriterFacts DEF Inv, TypeOK, WriterType
<1>2. writers[w].state = "aborted" /\ status # "closed"
  BY WriterFacts DEF EndAbort
<1>3. writers' = [writers EXCEPT ![w] = Gone] /\ writers'[w] = Gone
  BY <1>1 DEF EndAbort, Gone
<1>4. /\ Gone \in WriterType /\ Gone.state = "gone" /\ Gone.reserved = << >>
      /\ Gone.extent = {} /\ Gone.written = 0 /\ Gone.call = "none" /\ Gone.failed = FALSE
  BY GoneType
<1>5. Held(w)' = {}
  BY <1>3, <1>4, HeldAfter
<1>6. Held(w)' = (Held(w) \cup {}) \ Held(w)
  BY <1>5
<1>7. Built(w)'
  BY <1>3, <1>4 DEF Built
<1>8. releasing' = releasing \cup Batch(Orphan, Held(w))
      /\ UNCHANGED <<disk, status, spaceVars, allocated>>
  BY DEF EndAbort
<1>9. WriterStepped(w, Gone, {}, Held(w), Orphan)
  BY <1>1, <1>2, <1>3, <1>4, <1>6, <1>7, <1>8 DEF WriterStepped, disk
<1> QED
  BY <1>9, WriterKeeps

(* A builder whose seal is in flight, and what it wrote. *)
LEMMA SealFacts ==
  ASSUME Inv, NEW w \in Writers, writers[w].call \in {"seal", "moving"}
  PROVE  /\ writers[w].state \in {"open", "aborted"} /\ status # "closed"
         /\ ~writers[w].failed /\ writers[w].reserved # << >>
         /\ writers[w].reserved \in Seq(Units) /\ Len(writers[w].reserved) \in Nat
         /\ writers[w].written \in 0 .. Len(writers[w].reserved)
         /\ \A i \in 1 .. writers[w].written : data[writers[w].reserved[i]] = w
         /\ Range(writers[w].reserved) =
              {writers[w].reserved[i] : i \in 1 .. Len(writers[w].reserved)}
         /\ Held(w) = Range(writers[w].reserved) \cup writers[w].extent
         /\ writers[w].call = "seal" => writers[w].extent = {}
<1> DEFINE r == writers[w].reserved
           n == writers[w].written
<1>1. /\ writers[w] \in WriterType /\ Built(w)
      /\ Held(w) = {r[i] : i \in 1 .. Len(r)} \cup writers[w].extent
  BY WriterFacts
<1>2. r \in Seq(Units) /\ Len(r) \in Nat /\ n \in Nat
  BY <1>1 DEF WriterType
<1>3. /\ ~writers[w].failed /\ r # << >> /\ writers[w].state \in {"open", "aborted"}
      /\ n <= Len(r) /\ (writers[w].call = "seal" => writers[w].extent = {})
      /\ \A i \in 1 .. n : data[r[i]] = w
  BY <1>1 DEF Built
<1>4. n \in 0 .. Len(r) /\ status # "closed"
  BY <1>2, <1>3, WriterFacts
<1>5. Range(r) = {r[i] : i \in 1 .. Len(r)}
  BY <1>2 DEF Range
<1> QED
  BY <1>1, <1>2, <1>3, <1>4, <1>5

(* What the end of a seal or of a relocation leaves: a writer with nothing *)
(* but its extent, whose reservation is freed up to what it keeps.         *)
LEMMA SealedKeeps ==
  ASSUME Inv, NEW w \in Writers, writers[w].call \in {"seal", "moving"},
         NEW x \in SUBSET Held(w), NEW freed, freed = Held(w) \ x,
         writers' = [writers EXCEPT ![w] =
           [writers[w] EXCEPT !.call = "none", !.reserved = << >>, !.written = 0, !.extent = x]],
         releasing' = releasing \cup Batch(w, freed),
         data' \in [Units -> Writers \cup {Junk}], unflushed' \subseteq Units,
         \A u \in allocated \ Held(w) : data'[u] = data[u] /\ (u \in unflushed' => u \in unflushed),
         \A u \in x : data'[u] = w,
         UNCHANGED <<slots, slotsFlushed, resolved, opens, status, spaceVars, allocated>>
  PROVE  Inv'
<1> DEFINE s == [writers[w] EXCEPT !.call = "none", !.reserved = << >>, !.written = 0, !.extent = x]
<1>1. /\ writers[w] \in WriterType /\ writers \in [Writers -> WriterType]
      /\ Held(w) \subseteq Units
  BY WriterFacts DEF Inv, TypeOK, WriterType
<1>2. writers[w].state \in {"open", "aborted"} /\ status # "closed" /\ ~writers[w].failed
  BY SealFacts
<1>3. writers' = [writers EXCEPT ![w] = s] /\ writers'[w] = s
  BY <1>1
<1>4. /\ s \in WriterType /\ s.state = writers[w].state /\ s.reserved = << >>
      /\ s.extent = x /\ s.written = 0 /\ s.call = "none" /\ s.failed = FALSE
  <2>1. << >> \in Seq(Units)
    OBVIOUS
  <2> QED
    BY <2>1, <1>1, <1>2 DEF WriterType
<1> HIDE DEF s
<1>5. Held(w)' = (Held(w) \cup {}) \ freed
  <2>1. Held(w)' = {s.reserved[i] : i \in 1 .. Len(s.reserved)} \cup s.extent
    BY <1>3, <1>4, HeldAfter
  <2>2. {s.reserved[i] : i \in 1 .. Len(s.reserved)} = {}
    BY <1>4
  <2> QED
    BY <2>1, <2>2, <1>4
<1>6. Built(w)'
  BY <1>2, <1>3, <1>4 DEF Built
<1>7. WriterStepped(w, s, {}, freed, w)
  BY <1>1, <1>2, <1>3, <1>4, <1>5, <1>6 DEF WriterStepped
<1> QED
  BY <1>7, WriterKeeps

(* A seal that ends keeps what was written and frees the rest. *)
LEMMA EndSealKeeps ==
  ASSUME Inv, NEW w \in Writers, EndSeal(w)
  PROVE  Inv'
<1> DEFINE r == writers[w].reserved
           n == writers[w].written
           x == Kept(w)
           freed == Range(r) \ x
<1>1. /\ writers[w] \in WriterType /\ writers \in [Writers -> WriterType]
      /\ data \in [Units -> Writers \cup {Junk}] /\ unflushed \subseteq Units
  BY WriterFacts DEF Inv, TypeOK, WriterType
<1>2. writers[w].call = "seal"
  BY DEF EndSeal
<1>3. /\ Len(r) \in Nat /\ n \in 0 .. Len(r)
      /\ \A i \in 1 .. n : data[r[i]] = w
      /\ Range(r) = {r[i] : i \in 1 .. Len(r)}
      /\ Held(w) = Range(r)
  BY <1>2, SealFacts
<1>4. x = {r[i] : i \in 1 .. n} /\ \A i \in 1 .. n : i \in 1 .. Len(r)
  BY <1>3 DEF Kept
<1>5. x \in SUBSET Held(w) /\ freed = Held(w) \ x /\ \A u \in x : data[u] = w
  BY <1>3, <1>4
<1>6. /\ writers' = [writers EXCEPT ![w].call = "none", ![w].reserved = << >>, ![w].written = 0,
                                    ![w].extent = x]
      /\ releasing' = releasing \cup Batch(w, freed)
      /\ UNCHANGED <<disk, status, spaceVars, allocated>>
  BY DEF EndSeal
<1> HIDE DEF x, freed
<1>7. writers' = [writers EXCEPT ![w] =
        [writers[w] EXCEPT !.call = "none", !.reserved = << >>, !.written = 0, !.extent = x]]
  BY <1>1, <1>6
<1> QED
  BY <1>1, <1>2, <1>5, <1>6, <1>7, SealedKeeps DEF disk

(* A relocation begins: the builder is given a free run as long as what it *)
(* wrote.                                                                  *)
LEMMA BeginMoveKeeps ==
  ASSUME Inv, NEW w \in Writers, BeginMove(w)
  PROVE  Inv'
<1> DEFINE r == writers[w].reserved
           n == writers[w].written
           x == Target(w)
           s == [writers[w] EXCEPT !.call = "moving", !.extent = x]
<1>1. /\ writers[w] \in WriterType /\ Built(w)
      /\ data \in [Units -> Writers \cup {Junk}] /\ unflushed \subseteq Units
      /\ writers \in [Writers -> WriterType]
      /\ Held(w) \subseteq allocated /\ Held(w) \subseteq Units
  BY WriterFacts DEF Inv, TypeOK, WriterType
<1>2. writers[w].call = "seal" /\ Relocates(w) /\ Fitting(n) # {}
  BY DEF BeginMove
<1>3. /\ writers[w].state \in {"open", "aborted"} /\ status # "closed"
      /\ ~writers[w].failed /\ writers[w].extent = {} /\ r # << >>
      /\ r \in Seq(Units) /\ Len(r) \in Nat /\ n \in 0 .. Len(r)
      /\ Range(r) = {r[i] : i \in 1 .. Len(r)} /\ Held(w) = Range(r)
  BY <1>2, SealFacts
<1>4. FirstSegment(r) \in Nat /\ FirstSegment(r) >= 1
  <2> DEFINE P == {m \in 1 .. Len(r) : \A i \in 1 .. m : r[i] = r[1] + i - 1}
  <2>1. r[1] \in Nat /\ 1 \in 1 .. Len(r)
    <3>1. Len(r) # 0
      BY <1>3, EmptySeq
    <3>2. 1 \in 1 .. Len(r)
      BY <3>1, <1>3
    <3>3. r[1] \in Units
      BY <3>2, <1>3
    <3> QED
      BY <3>2, <3>3, Constants
  <2>2. \A i \in 1 .. 1 : r[i] = r[1] + i - 1
    BY <2>1
  <2>3. 1 \in P
    BY <2>1, <2>2
  <2>4. P \in SUBSET (0 .. Len(r))
    BY <1>3
  <2>5. Max(P) \in P
    <3> HIDE DEF P
    <3> QED BY <2>3, <2>4, <1>3, Greatest
  <2>6. FirstSegment(r) = Max(P)
    BY Zenon DEF FirstSegment
  <2>7. Max(P) \in 1 .. Len(r)
    BY <2>5
  <2> HIDE DEF P
  <2> QED
    BY <2>6, <2>7, <1>3
<1>5. n > 0
  BY <1>2, <1>3, <1>4 DEF Relocates
<1>6. /\ Lowest(n) \in Units /\ x = Run(Lowest(n), n) /\ x \subseteq Units \ allocated
  BY <1>2, <1>3, LowestFits DEF Target
<1>7. /\ allocated' = allocated \cup x
      /\ writers' = [writers EXCEPT ![w].call = "moving", ![w].extent = x]
      /\ UNCHANGED <<disk, status, spaceVars, releasing>>
  BY DEF BeginMove
<1> HIDE DEF x
<1>8. writers' = [writers EXCEPT ![w] = s] /\ writers'[w] = s
  BY <1>1, <1>7
<1>9. /\ s \in WriterType /\ s.state = writers[w].state /\ s.reserved = r
      /\ s.extent = x /\ s.written = n /\ s.call = "moving" /\ s.failed = writers[w].failed
  BY <1>1, <1>6 DEF WriterType
<1> HIDE DEF s
<1>10. Held(w)' = (Held(w) \cup x) \ {}
  <2>1. Held(w)' = {s.reserved[i] : i \in 1 .. Len(s.reserved)} \cup s.extent
    BY <1>8, <1>9, HeldAfter
  <2> QED
    BY <2>1, <1>3, <1>9
<1>11. x \cap Range(r) = {}
  BY <1>1, <1>3, <1>6
<1>12. Built(w)'
  BY <1>1, <1>3, <1>5, <1>6, <1>7, <1>8, <1>9, <1>11 DEF Built, disk
<1>13. WriterStepped(w, s, x, {}, Orphan)
  BY <1>1, <1>3, <1>6, <1>7, <1>8, <1>9, <1>10, <1>12 DEF WriterStepped, Batch, disk
<1> QED
  BY <1>13, WriterKeeps

(* A relocation ends: the target has the bytes, and the reservation is     *)
(* freed.                                                                  *)
LEMMA EndMoveKeeps ==
  ASSUME Inv, NEW w \in Writers, EndMove(w)
  PROVE  Inv'
<1> DEFINE r == writers[w].reserved
           n == writers[w].written
           x == writers[w].extent
<1>1. /\ writers[w] \in WriterType /\ Built(w)
      /\ data \in [Units -> Writers \cup {Junk}] /\ unflushed \subseteq Units
      /\ writers \in [Writers -> WriterType]
      /\ Held(w) \subseteq Units /\ allocated \subseteq Units
  BY WriterFacts DEF Inv, TypeOK, WriterType
<1>2. writers[w].call = "moving"
  BY DEF EndMove
<1>3. /\ n \in 0 .. Len(r) /\ Len(r) \in Nat
      /\ \A i \in 1 .. n : data[r[i]] = w
      /\ Held(w) = Range(r) \cup x
  BY <1>2, SealFacts
<1>4. n > 0 /\ x \cap Range(r) = {}
  BY <1>1, <1>2 DEF Built
<1>5. PICK t \in Units : x = Run(t, n)
  BY <1>1, <1>2 DEF Built
<1>6. t \in Nat /\ n \in Nat /\ x = t .. t + n - 1
  <2>1. t \in Nat /\ n \in Nat
    BY <1>5, <1>3, Constants
  <2> QED
    BY <2>1, <1>5 DEF Run
<1>7. Min(x) = t
  <2> HIDE DEF x, n
  <2>1. x \in SUBSET Nat /\ t \in x /\ \A u \in x : t <= u
    BY <1>4, <1>6
  <2>2. Min(x) \in x /\ Min(x) <= t
    BY <2>1, Least
  <2>3. Min(x) \in Nat /\ t <= Min(x)
    BY <2>1, <2>2
  <2> QED
    BY <2>2, <2>3, <1>6
<1>8. \A u \in x : u - t + 1 \in 1 .. n
  BY <1>6
<1>9. \A u \in x : data[r[u - t + 1]] = w
  BY <1>3, <1>8
<1>10. /\ data' = [u \in Units |-> IF u \in x THEN data[r[u - t + 1]] ELSE data[u]]
       /\ unflushed' = unflushed \cup x
       /\ writers' = [writers EXCEPT ![w].call = "none", ![w].reserved = << >>, ![w].written = 0]
       /\ releasing' = releasing \cup Batch(w, Range(r))
       /\ UNCHANGED <<slots, slotsFlushed, resolved, opens, status, spaceVars, allocated>>
  BY <1>7 DEF EndMove, Moved
<1>11. data' = [u \in Units |-> IF u \in x THEN w ELSE data[u]]
  BY <1>9, <1>10
<1>12. /\ data' \in [Units -> Writers \cup {Junk}] /\ unflushed' \subseteq Units
       /\ \A u \in allocated \ Held(w) : data'[u] = data[u] /\ (u \in unflushed' => u \in unflushed)
       /\ \A u \in x : data'[u] = w
  BY <1>1, <1>3, <1>10, <1>11
<1>13. x \in SUBSET Held(w) /\ Range(r) = Held(w) \ x
  BY <1>3, <1>4
<1>14. writers' = [writers EXCEPT ![w] =
         [writers[w] EXCEPT !.call = "none", !.reserved = << >>, !.written = 0, !.extent = x]]
  BY <1>1, <1>10 DEF WriterType
<1> HIDE DEF x, r, n
<1> QED
  BY <1>2, <1>10, <1>12, <1>13, <1>14, SealedKeeps

(* A seal that fails leaves the writer with what it holds. *)
LEMMA FailSealKeeps ==
  ASSUME Inv, NEW w \in Writers, FailSeal(w)
  PROVE  Inv'
<1> DEFINE s == [writers[w] EXCEPT !.call = "none", !.failed = TRUE]
<1>1. /\ writers[w] \in WriterType /\ Built(w)
      /\ data \in [Units -> Writers \cup {Junk}] /\ unflushed \subseteq Units
      /\ writers \in [Writers -> WriterType]
  BY WriterFacts DEF Inv, TypeOK, WriterType
<1>2. writers[w].call \in {"seal", "moving"}
  BY DEF FailSeal
<1>3. writers[w].state \in {"open", "aborted"} /\ status # "closed" /\ writers[w].reserved # << >>
  BY <1>2, SealFacts
<1>4. /\ writers' = [writers EXCEPT ![w] = s] /\ writers'[w] = s
      /\ status' \in {status, "failed"}
      /\ UNCHANGED <<disk, spaceVars, allocated, releasing>>
  BY <1>1 DEF FailSeal
<1>5. /\ s \in WriterType /\ s.state = writers[w].state /\ s.reserved = writers[w].reserved
      /\ s.extent = writers[w].extent /\ s.written = writers[w].written
      /\ s.call = "none" /\ s.failed = TRUE
  BY <1>1 DEF WriterType
<1> HIDE DEF s
<1>6. Held(w)' = (Held(w) \cup {}) \ {}
  <2>1. Held(w)' = {s.reserved[i] : i \in 1 .. Len(s.reserved)} \cup s.extent
    BY <1>4, <1>5, HeldAfter
  <2> QED
    BY <2>1, <1>5, WriterFacts
<1>7. Built(w)'
  BY <1>1, <1>3, <1>4, <1>5 DEF Built, disk
<1>8. WriterStepped(w, s, {}, {}, Orphan)
  BY <1>1, <1>3, <1>4, <1>5, <1>6, <1>7 DEF WriterStepped, Batch, disk
<1> QED
  BY <1>8, WriterKeeps

(* Every step of a writer keeps the invariant. *)
LEMMA WriterStepKeeps ==
  ASSUME Inv, NEW w \in Writers, WriterStep(w)
  PROVE  Inv'
BY OpenBuilderKeeps, ExtendKeeps, DiscardKeeps, BeginAppendKeeps, EndAppendKeeps, FailAppendKeeps,
   BeginSealKeeps, EndSealKeeps, BeginMoveKeeps, EndMoveKeeps, FailSealKeeps, AbortKeeps, EndAbortKeeps, Zenon DEF WriterStep
-------------------------------------------------------------------------------
(***************************************************************************)
(* Freeing.                                                                *)
(***************************************************************************)
(* While the roots, the ledger, the slots and the writers stay, what they   *)
(* hold reads the same if the data of every holder does.                    *)
LEMMA ReadsKept ==
  ASSUME Inv, status # "closed", status' # "closed",
         UNCHANGED <<slots, slotsFlushed, resolved, root, previousRoot, ledger, writers>>,
         \A u \in DOMAIN root \cup Waiting \cup Writing :
            data'[u] = data[u] /\ (u \in unflushed' => u \in unflushed)
  PROVE  Readable' /\ Durable' /\ Written'
<1>1. /\ Waiting' = Waiting /\ Recent' = Recent /\ \A g : After(g)' = After(g)
      /\ Sealed' = Sealed /\ Current' = Current
  BY DEF Waiting, Recent, After, Sealed, Current, CurrentSlot, ledger
<1>2. /\ Recent \subseteq Waiting /\ \A g : After(g) \subseteq Waiting
      /\ \A w \in Writers : Held(w) \subseteq Writing
  BY HeldAllocated DEF Writing
<1>3. Sealed \subseteq Writing
  BY <1>2 DEF Sealed, Held
<1>4. Readable'
  <2>0. Readable
    BY DEF Inv
  <2>1. (DOMAIN previousRoot \subseteq DOMAIN root \cup Recent)'
        /\ (\A p \in Pins : DOMAIN pins[p].root \subseteq DOMAIN root \cup After(pins[p].generation))'
    BY <2>0, <1>1 DEF Readable, ledger
  <2>2. Intact(root)' /\ Intact(previousRoot)'
    BY <2>0, <1>2 DEF Readable, Intact
  <2>3. PinnedIntact'
    <3> SUFFICES ASSUME NEW p \in Pins
                 PROVE  Intact(pins[p].root)'
      BY DEF PinnedIntact
    <3>1. DOMAIN pins[p].root \subseteq DOMAIN root \cup Waiting
      BY <2>0, <1>2 DEF Readable
    <3>2. Intact(pins[p].root)
      BY <2>0 DEF Readable, PinnedIntact
    <3> QED
      BY <3>1, <3>2 DEF Intact, ledger
  <2> QED
    BY <2>1, <2>2, <2>3 DEF Readable
<1>5. Durable'
  <2>0. Durable
    BY DEF Inv
  <2>1. \A a \in 0 .. 1 : DOMAIN slots[a].root \subseteq DOMAIN root \cup Recent \cup Sealed
    BY <2>0 DEF Durable
  <2>2. ASSUME NEW a \in 0 .. 1
        PROVE  Intact(slots[a].root)' /\ (DOMAIN slots[a].root \cap unflushed = {})'
    <3>1. DOMAIN slots[a].root \subseteq DOMAIN root \cup Waiting \cup Writing
      BY <2>1, <1>2, <1>3
    <3>2. Intact(slots[a].root) /\ DOMAIN slots[a].root \cap unflushed = {}
      BY <2>0 DEF Durable, KeptRootsIntact
    <3> QED
      BY <3>1, <3>2 DEF Intact
  <2> QED
    BY <2>0, <2>1, <2>2, <1>1 DEF Durable, KeptRootsIntact
<1>6. Written'
  <2> SUFFICES ASSUME NEW v \in Writers
               PROVE  Built(v)'
    BY DEF Written
  <2>1. /\ writers[v] \in WriterType /\ Built(v)
        /\ \A i \in 1 .. Len(writers[v].reserved) : writers[v].reserved[i] \in Held(v)
        /\ writers[v].extent \subseteq Held(v)
    BY WriterFacts DEF Held
  <2>2. \A i \in 1 .. writers[v].written : i \in 1 .. Len(writers[v].reserved)
    BY <2>1 DEF Built, WriterType
  <2>3. \A i \in 1 .. writers[v].written : data'[writers[v].reserved[i]] = v
    BY <2>1, <2>2, <1>2 DEF Built
  <2>4. ~writers[v].failed /\ writers[v].call # "moving" => \A u \in writers[v].extent : data'[u] = v
    BY <2>1, <1>2 DEF Built
  <2> QED
    BY <2>1, <2>3, <2>4 DEF Built
<1> QED
  BY <1>4, <1>5, <1>6

(* A call of free holds its units alone, and a closed space has none. *)
LEMMA BatchAlone ==
  ASSUME Inv, NEW batch \in releasing
  PROVE  /\ status # "closed" /\ batch.units \subseteq allocated
         /\ batch.units \cap (DOMAIN root \cup Waiting \cup Writing) = {}
         /\ \A b \in releasing \ {batch} : b.units \cap batch.units = {}
         /\ UNION {b.units : b \in releasing \ {batch}} = Releasing \ batch.units
         /\ UNION {b.units : b \in {c \in releasing \ {batch} : c.owner = Collector}}
              = Collected \ batch.units
<1>1. Apart /\ Covered /\ Forgotten
  BY DEF Inv
<1>2. batch.units \subseteq Releasing
  BY DEF Releasing
<1>3. \A b \in releasing \ {batch} : b.units \cap batch.units = {}
  BY <1>1 DEF Apart
<1>4. batch.units \cap (DOMAIN root \cup Waiting \cup Writing) = {}
  BY <1>1, <1>2 DEF Apart, Writing
<1>5. UNION {b.units : b \in releasing \ {batch}} = Releasing \ batch.units
  BY <1>3 DEF Releasing
<1>6. UNION {b.units : b \in {c \in releasing \ {batch} : c.owner = Collector}}
              = Collected \ batch.units
  BY <1>3 DEF Collected
<1> QED
  BY <1>1, <1>2, <1>3, <1>4, <1>5, <1>6 DEF Covered, Forgotten

(* A batch that came free is nobody's. *)
LEMMA FreeDoneKeeps ==
  ASSUME Inv, NEW batch \in releasing, FreeDone(batch)
  PROVE  Inv'
<1>1. /\ status # "closed" /\ batch.units \subseteq allocated
      /\ batch.units \cap (DOMAIN root \cup Waiting \cup Writing) = {}
      /\ UNION {b.units : b \in releasing \ {batch}} = Releasing \ batch.units
      /\ UNION {b.units : b \in {c \in releasing \ {batch} : c.owner = Collector}}
           = Collected \ batch.units
  BY BatchAlone
<1>2. /\ releasing' = releasing \ {batch} /\ allocated' = allocated \ batch.units
      /\ retired' = retired \ batch.units
      /\ data' = [u \in Units |-> IF u \in allocated' THEN data[u] ELSE Junk]
      /\ unflushed' = unflushed \cap allocated'
      /\ UNCHANGED <<slots, slotsFlushed, resolved, opens, status, root, previousRoot, ledger,
                     writers, publishing>>
  BY DEF FreeDone, Specified
<1>3. /\ Waiting' = Waiting /\ Writing' = Writing /\ \A w \in Writers : Held(w)' = Held(w)
      /\ Releasing' = Releasing \ batch.units /\ Collected' = Collected \ batch.units
      /\ Current' = Current /\ Previous' = Previous
  BY <1>1, <1>2 DEF Waiting, Writing, Held, Releasing, Collected, ledger, Current, Previous, CurrentSlot
<1>4. TypeOK'
  <2>1. TypeOK
    BY DEF Inv
  <2>2. data' \in [Units -> Writers \cup {Junk}]
    BY <2>1, <1>2 DEF TypeOK
  <2> QED
    BY <2>1, <2>2, <1>2 DEF TypeOK, ledger
<1>5. Apart'
  BY <1>2, <1>3 DEF Inv, Apart, ledger
<1>6. Covered' /\ Retirement'
  BY <1>1, <1>2, <1>3 DEF Inv, Covered, Retirement
<1>7. Ledger'
  BY <1>2 DEF Inv, Ledger, NothingWaitsInVain, ledger
<1>8. Readable' /\ Durable' /\ Written'
  <2>1. \A u \in DOMAIN root \cup Waiting \cup Writing : u \in allocated' /\ u \in Units
    BY <1>1, <1>2 DEF Inv, Covered, TypeOK
  <2>2. \A u \in DOMAIN root \cup Waiting \cup Writing :
            data'[u] = data[u] /\ (u \in unflushed' => u \in unflushed)
    BY <2>1, <1>2
  <2> QED
    BY <2>2, <1>1, <1>2, ReadsKept
<1>9. Remembered'
  BY <1>2, <1>3 DEF Inv, Remembered, Published, ledger
<1>10. Forgotten'
  BY <1>1, <1>2 DEF Forgotten
<1> QED
  BY <1>4, <1>5, <1>6, <1>7, <1>8, <1>9, <1>10 DEF Inv

(* A batch whose release failed is lost, and the space with it. *)
LEMMA FreeFailsKeeps ==
  ASSUME Inv, NEW batch \in releasing, FreeFails(batch)
  PROVE  Inv'
<1>1. /\ status # "closed"
      /\ UNION {b.units : b \in releasing \ {batch}} = Releasing \ batch.units
  BY BatchAlone
<1>2. /\ releasing' = releasing \ {batch} /\ status' = "failed"
      /\ data' = data /\ unflushed' = unflushed
      /\ UNCHANGED <<slots, slotsFlushed, resolved, opens, root, previousRoot, allocated, retired,
                     ledger, writers, publishing>>
  BY DEF FreeFails, disk
<1>3. /\ Waiting' = Waiting /\ Writing' = Writing /\ \A w \in Writers : Held(w)' = Held(w)
      /\ Releasing' = Releasing \ batch.units
      /\ Current' = Current /\ Previous' = Previous
  BY <1>1, <1>2 DEF Waiting, Writing, Held, Releasing, ledger, Current, Previous, CurrentSlot
<1>4. TypeOK'
  BY <1>2 DEF Inv, TypeOK, ledger
<1>5. Apart'
  BY <1>2, <1>3 DEF Inv, Apart, ledger
<1>6. Covered' /\ Retirement'
  BY <1>1, <1>2, <1>3 DEF Inv, Covered, Retirement
<1>7. Ledger'
  BY <1>2 DEF Inv, Ledger, NothingWaitsInVain, ledger
<1>8. Readable' /\ Durable' /\ Written'
  BY <1>1, <1>2, ReadsKept
<1>9. Remembered'
  BY <1>2, <1>3 DEF Inv, Remembered, Published, ledger
<1>10. Forgotten'
  BY <1>1, <1>2 DEF Forgotten
<1> QED
  BY <1>4, <1>5, <1>6, <1>7, <1>8, <1>9, <1>10 DEF Inv
-------------------------------------------------------------------------------
(***************************************************************************)
(* Pins and the ledger.                                                    *)
(***************************************************************************)
(* What a pin holds of the types. *)
LEMMA PinFacts ==
  ASSUME TypeOK
  PROVE  /\ pins \in [Pins -> PinType] /\ Unpinned \in PinType
         /\ Unpinned.generation = MaxPublishes + 1 /\ DOMAIN Unpinned.root = {}
         /\ waiting \in Seq(Entry) /\ Len(waiting) \in Nat
         /\ generation \in 0 .. MaxPublishes /\ MaxPublishes \in Nat
         /\ \A i \in 1 .. Len(waiting) : waiting[i] \in Entry
<1>1. Unpinned \in PinType /\ Unpinned.generation = MaxPublishes + 1 /\ Unpinned.root = NoRoot
  <2>1. MaxPublishes + 1 \in 0 .. MaxPublishes + 1 /\ NoRoot \in Roots
    BY Constants
  <2> QED
    BY <2>1 DEF Unpinned, PinType
<1>2. waiting \in Seq(Entry) /\ pins \in [Pins -> PinType]
  BY DEF TypeOK, PinType, Entry
<1>3. Len(waiting) \in Nat /\ \A i \in 1 .. Len(waiting) : waiting[i] \in Entry
  BY <1>2
<1> QED
  BY <1>1, <1>2, <1>3, Constants DEF TypeOK

(* A pin of the current root or of the one before it is of what is still    *)
(* there.                                                                   *)
LEMMA PinKeeps ==
  ASSUME Inv, NEW p \in Pins, Pin(p)
  PROVE  Inv'
<1> DEFINE e == [generation |-> generation, root |-> root]
<1>1. /\ status # "closed" /\ pins[p] = Unpinned /\ pins' = [pins EXCEPT ![p] = e]
      /\ data' = data /\ unflushed' = unflushed
      /\ UNCHANGED <<slots, slotsFlushed, resolved, opens, status, root, previousRoot, allocated,
                     retired, generation, waiting, releasing, writers, publishing>>
  BY DEF Pin, disk
<1>2. /\ pins \in [Pins -> PinType]
      /\ Unpinned.generation = MaxPublishes + 1
      /\ waiting \in Seq(Entry) /\ Len(waiting) \in Nat
      /\ generation \in 0 .. MaxPublishes /\ MaxPublishes \in Nat
      /\ \A i \in 1 .. Len(waiting) : waiting[i] \in Entry
  BY PinFacts DEF Inv
<1>3. /\ pins'[p] = e /\ e.generation = generation /\ e.root = root
      /\ \A q \in Pins : q # p => pins'[q] = pins[q]
  BY <1>1, <1>2
<1> HIDE DEF e
<1>4. /\ Waiting' = Waiting /\ Writing' = Writing /\ \A w \in Writers : Held(w)' = Held(w)
      /\ Releasing' = Releasing /\ Collected' = Collected
      /\ Recent' = Recent /\ (\A g : After(g)' = After(g)) /\ Sealed' = Sealed
      /\ Current' = Current /\ Previous' = Previous
  BY <1>1 DEF Waiting, Writing, Held, Releasing, Collected, Recent, After, Sealed, Current,
              Previous, CurrentSlot
<1>5. TypeOK'
  <2>1. e \in PinType
    <3>1. root \in Roots /\ generation \in 0 .. MaxPublishes + 1
      BY <1>2 DEF Inv, TypeOK
    <3> QED
      BY <3>1 DEF e, PinType
  <2>2. pins' \in [Pins -> PinType]
    BY <2>1, <1>1, <1>2
  <2> QED
    BY <2>2, <1>1 DEF Inv, TypeOK, PinType
<1>6. Apart' /\ Covered' /\ Retirement'
  BY <1>1, <1>4 DEF Inv, Apart, Covered, Retirement
<1>7. Ledger'
  <2>0. Ledger
    BY DEF Inv
  <2>1. (\A q \in Pins : pins[q] = Unpinned \/ pins[q].generation <= generation)'
    BY <2>0, <1>1, <1>2, <1>3 DEF Ledger
  <2>2. NothingWaitsInVain'
    <3> SUFFICES ASSUME NEW i \in 1 .. Len(waiting), ~(waiting[i].generation >= generation)
                 PROVE  \E q \in Pins : \E j \in 1 .. i :
                          pins'[q].generation < waiting[j].generation
      BY <1>1 DEF NothingWaitsInVain
    <3>1. PICK q \in Pins, j \in 1 .. i : pins[q].generation < waiting[j].generation
      BY <2>0 DEF Ledger, NothingWaitsInVain
    <3>2. j \in 1 .. Len(waiting) /\ waiting[j].generation \in 0 .. MaxPublishes
      BY <1>2 DEF Entry
    <3>3. q # p
      BY <3>1, <3>2, <1>1, <1>2
    <3> QED
      BY <3>1, <3>3, <1>3
  <2> QED
    BY <2>0, <2>1, <2>2, <1>1 DEF Ledger
<1>8. Readable'
  <2>0. Readable
    BY DEF Inv
  <2>1. (\A q \in Pins : DOMAIN pins[q].root \subseteq DOMAIN root \cup After(pins[q].generation))'
    <3> SUFFICES ASSUME NEW q \in Pins
                 PROVE  DOMAIN pins'[q].root \subseteq DOMAIN root \cup After(pins'[q].generation)
      BY <1>1, <1>4
    <3> QED
      BY <2>0, <1>3 DEF Readable
  <2>2. Intact(root)' /\ Intact(previousRoot)'
    BY <2>0, <1>1 DEF Readable, Intact
  <2>3. PinnedIntact'
    BY <2>0, <1>1, <1>3 DEF Readable, PinnedIntact, Intact
  <2> QED
    BY <2>0, <2>1, <2>2, <2>3, <1>1, <1>4 DEF Readable
<1>9. Durable'
  BY <1>1, <1>4 DEF Inv, Durable, KeptRootsIntact, Intact
<1>10. Remembered'
  BY <1>1, <1>4 DEF Inv, Remembered, Published
<1>11. Written'
  BY <1>1 DEF Inv, Written, Built
<1>12. Forgotten'
  BY <1>1 DEF Forgotten
<1> QED
  BY <1>5, <1>6, <1>7, <1>8, <1>9, <1>10, <1>11, <1>12 DEF Inv

(***************************************************************************)
(* The ledger after a drain.  Of entries in the order of their generations *)
(* that share no unit, a prefix is handed to free; what a pin or the root  *)
(* of this generation needs is not in it, and the first entry that stays   *)
(* has a reason to.                                                        *)
(***************************************************************************)
(* What the entries of a ledger hold: all of them, those from a generation on, and   *)
(* those after it.                                                                  *)
Pool(entries) == UNION {entries[i].units : i \in 1 .. Len(entries)}
PoolFrom(entries, g) ==
    UNION {entries[i].units : i \in {j \in 1 .. Len(entries) : entries[j].generation >= g}}
PoolAfter(entries, g) ==
    UNION {entries[i].units : i \in {j \in 1 .. Len(entries) : entries[j].generation > g}}
Disjoint(entries) ==
    \A i, j \in 1 .. Len(entries) : i # j => entries[i].units \cap entries[j].units = {}
Ordered(entries) ==
    \A i, j \in 1 .. Len(entries) : i < j => entries[i].generation <= entries[j].generation

(* Draining a prefix of the ledger keeps the order of the rest, its accounting, and *)
(* what the kept roots and the pins still need.                                     *)
LEMMA LedgerDrained ==
  ASSUME NEW entries \in Seq(Entry), NEW held \in [Pins -> PinType], NEW current \in Nat,
         Disjoint(entries), Ordered(entries),
         \A i \in 1 .. Len(entries) : entries[i].generation <= current,
         Drain(entries, held, current)
  PROVE  \E taken \in SUBSET Units :
            /\ waiting' \in Seq(Entry)
            /\ releasing' = releasing \cup Batch(Collector, taken)
            /\ Pool(waiting') \cup taken = Pool(entries) /\ Pool(waiting') \cap taken = {}
            /\ Disjoint(waiting') /\ Ordered(waiting')
            /\ \A i \in 1 .. Len(waiting') : waiting'[i].generation <= current
            /\ PoolFrom(waiting', current) = PoolFrom(entries, current)
            /\ \A p \in Pins : PoolAfter(entries, held[p].generation)
                                 \subseteq PoolAfter(waiting', held[p].generation)
            /\ \A i \in 1 .. Len(waiting') :
                 \/ waiting'[i].generation >= current
                 \/ \E p \in Pins : \E j \in 1 .. i : held[p].generation < waiting'[j].generation
<1>1. PICK n \in 0 .. Len(entries) :
        /\ \A i \in 1 .. n : Free(entries[i], held, current)
        /\ n < Len(entries) => ~Free(entries[n + 1], held, current)
        /\ waiting' \in Seq(Entry) /\ Len(waiting') = Len(entries) - n
        /\ \A i \in 1 .. Len(entries) - n : waiting'[i] = entries[i + n]
        /\ releasing' = releasing \cup Batch(Collector, UNION {entries[i].units : i \in 1 .. n})
  BY Drained
<1> DEFINE taken == UNION {entries[i].units : i \in 1 .. n}
           L == Len(entries)
<1>2. L \in Nat /\ n \in Nat /\ n <= L
  BY <1>1
<1>3. \A i \in 1 .. L : entries[i] \in Entry /\ entries[i].generation \in Nat
                        /\ entries[i].units \subseteq Units
  <2>1. \A i \in 1 .. L : entries[i] \in Entry
    OBVIOUS
  <2>2. \A e \in Entry : e.generation \in Nat /\ e.units \subseteq Units
    BY DEF Entry
  <2> QED
    BY <2>1, <2>2, Zenon
<1>4. \A i \in 1 .. L - n : i + n \in 1 .. L /\ i + n \notin 1 .. n
  BY <1>2
<1>5. \A i \in 1 .. L : i \in 1 .. n \/ (i - n \in 1 .. L - n /\ (i - n) + n = i)
  BY <1>2
<1>6. \A i \in 1 .. n : i \in 1 .. L
  BY <1>2
<1>7. \A i \in 1 .. L - n : waiting'[i] = entries[i + n]
  BY <1>1
<1>8. Len(waiting') = L - n
  BY <1>1
<1>9. ASSUME NEW p \in Pins
      PROVE  held[p].generation \in Nat
  BY DEF PinType
<1> HIDE DEF L
<1>10. taken \subseteq Units
  BY <1>3, <1>6
<1>11. Pool(waiting') \cup taken = Pool(entries) /\ Pool(waiting') \cap taken = {}
  <2>1. Pool(entries) = UNION {entries[i].units : i \in 1 .. L}
    BY DEF Pool, L
  <2>2. Pool(waiting') = UNION {entries[i + n].units : i \in 1 .. L - n}
    BY <1>7, <1>8 DEF Pool
  <2>3. \A i, j \in 1 .. L : i # j => entries[i].units \cap entries[j].units = {}
    BY DEF Disjoint, L
  <2>4. ASSUME NEW u \in Pool(entries)
        PROVE  u \in Pool(waiting') \/ u \in taken
    <3>1. PICK i \in 1 .. L : u \in entries[i].units
      BY <2>1
    <3>2. CASE i \in 1 .. n
      BY <3>1, <3>2
    <3>3. CASE i - n \in 1 .. L - n /\ (i - n) + n = i
      BY <3>1, <3>3, <2>2
    <3> QED
      BY <3>2, <3>3, <1>5
  <2>5. Pool(waiting') \subseteq Pool(entries) /\ taken \subseteq Pool(entries)
    BY <2>1, <2>2, <1>4, <1>6
  <2>6. ASSUME NEW u \in Pool(waiting'), u \in taken
        PROVE  FALSE
    <3>1. PICK i \in 1 .. L - n : u \in entries[i + n].units
      BY <2>2
    <3>2. PICK j \in 1 .. n : u \in entries[j].units
      BY <2>6
    <3>3. i + n # j /\ i + n \in 1 .. L /\ j \in 1 .. L
      BY <1>4, <1>6
    <3> QED
      BY <3>1, <3>2, <3>3, <2>3
  <2> HIDE DEF taken
  <2> QED
    BY <2>4, <2>5, <2>6
<1>12. Disjoint(waiting') /\ Ordered(waiting')
       /\ \A i \in 1 .. Len(waiting') : waiting'[i].generation <= current
  <2>1. \A i, j \in 1 .. L - n : i + n \in 1 .. L /\ j + n \in 1 .. L
                                 /\ (i # j => i + n # j + n) /\ (i < j => i + n < j + n)
    BY <1>2
  <2>2. Disjoint(waiting')
    BY <2>1, <1>7, <1>8 DEF Disjoint, L
  <2>3. Ordered(waiting')
    BY <2>1, <1>7, <1>8 DEF Ordered, L
  <2> QED
    BY <2>1, <2>2, <2>3, <1>7, <1>8 DEF L
<1>13. PoolFrom(waiting', current) = PoolFrom(entries, current)
  <2>1. PoolFrom(entries, current) =
          UNION {entries[i].units : i \in {j \in 1 .. L : entries[j].generation >= current}}
    BY DEF PoolFrom, L
  <2>2. ASSUME NEW u
        PROVE  u \in PoolFrom(waiting', current) <=>
                 \E i \in 1 .. L - n : entries[i + n].generation >= current /\ u \in entries[i + n].units
    BY <1>7, <1>8 DEF PoolFrom
  <2>3. ASSUME NEW i \in 1 .. L, entries[i].generation >= current
        PROVE  i - n \in 1 .. L - n /\ (i - n) + n = i
    <3>1. i \notin 1 .. n
      BY <1>1, <1>3, <2>3 DEF Free
    <3> QED
      BY <3>1, <1>5
  <2>4. ASSUME NEW u
        PROVE  u \in PoolFrom(entries, current) <=> u \in PoolFrom(waiting', current)
    BY <2>1, <2>2, <2>3, <1>4
  <2> QED
    BY <2>4
<1>14. ASSUME NEW p \in Pins
       PROVE  PoolAfter(entries, held[p].generation) \subseteq PoolAfter(waiting', held[p].generation)
  <2> DEFINE g == held[p].generation
  <2>1. \A u \in PoolAfter(entries, g) : \E i \in 1 .. L : entries[i].generation > g /\ u \in entries[i].units
    BY DEF PoolAfter, L
  <2>2. ASSUME NEW i \in 1 .. L, entries[i].generation > g
        PROVE  i - n \in 1 .. L - n /\ entries[i] = waiting'[i - n]
    <3>1. i \notin 1 .. n
      BY <1>1, <1>3, <1>9, <2>2 DEF Free
    <3> QED
      BY <3>1, <1>5, <1>7
  <2> QED
    BY <2>1, <2>2, <1>8 DEF PoolAfter
<1>15. ASSUME NEW i \in 1 .. Len(waiting')
       PROVE  \/ waiting'[i].generation >= current
              \/ \E p \in Pins : \E j \in 1 .. i : held[p].generation < waiting'[j].generation
  <2>1. n < L /\ n + 1 \in 1 .. L /\ 1 \in 1 .. L - n /\ 1 \in 1 .. i /\ i \in 1 .. L - n
    BY <1>2, <1>8
  <2>2. waiting'[1] = entries[n + 1]
    <3>1. 1 + n = n + 1
      BY <1>2
    <3> QED
      BY <3>1, <2>1, <1>7
  <2>3. ~Free(entries[n + 1], held, current)
    BY <2>1, <1>1 DEF L
  <2>4. waiting'[1].generation <= waiting'[i].generation
        /\ waiting'[1].generation \in Nat /\ waiting'[i].generation \in Nat
    <3>1. i = 1 \/ 1 < i
      BY <2>1
    <3>2. waiting'[1].generation \in Nat /\ waiting'[i].generation \in Nat
      BY <2>1, <2>2, <1>3, <1>4, <1>7, Zenon
    <3> QED
      BY <3>1, <3>2, <2>1, <1>8, <1>12 DEF Ordered
  <2>5. CASE ~(current >= entries[n + 1].generation + 1)
    BY <2>2, <2>4, <2>5, SMTT(30)
  <2>6. CASE \E p \in Pins : ~(held[p].generation >= entries[n + 1].generation)
    <3>1. PICK p \in Pins : ~(held[p].generation >= entries[n + 1].generation)
      BY <2>6
    <3>2. held[p].generation < waiting'[1].generation
      BY <3>1, <2>2, <2>4, <1>9
    <3> QED
      BY <3>2, <2>1
  <2> QED
    BY <2>3, <2>5, <2>6 DEF Free
<1> HIDE DEF taken
<1>16. releasing' = releasing \cup Batch(Collector, taken) /\ waiting' \in Seq(Entry)
  BY <1>1 DEF taken
<1> QED
  BY <1>10, <1>11, <1>12, <1>13, <1>14, <1>15, <1>16

(* What a call of free gets from a drain, and what it means for who holds what. *)
LEMMA ReleasingDrained ==
  ASSUME NEW taken, releasing' = releasing \cup Batch(Collector, taken)
  PROVE  /\ Releasing' = Releasing \cup taken /\ Collected' = Collected \cup taken
         /\ \A b \in releasing' : b \in releasing \/ b.units = taken
         /\ \A b, c \in releasing' : b = c \/ b \in releasing \/ c \in releasing
<1>1. /\ UNION {b.units : b \in Batch(Collector, taken)} = taken
      /\ \A b \in Batch(Collector, taken) :
           b = [owner |-> Collector, units |-> taken] /\ b.owner = Collector /\ b.units = taken
  BY BatchFacts
<1>2. Releasing' = Releasing \cup taken
  BY <1>1 DEF Releasing
<1>3. {c \in releasing : c.owner = Collector}'
        = {c \in releasing : c.owner = Collector} \cup Batch(Collector, taken)
  BY <1>1
<1>4. Collected' = Collected \cup taken
  BY <1>1, <1>3 DEF Collected
<1> QED
  BY <1>1, <1>2, <1>4

(* A released pin lets the entries of the ledger go that only it held. *)
LEMMA ReleaseKeeps ==
  ASSUME Inv, NEW p \in Pins, Release(p)
  PROVE  Inv'
<1>0. PICK taken \in SUBSET Units :
         /\ waiting' \in Seq(Entry)
         /\ releasing' = releasing \cup Batch(Collector, taken)
         /\ Pool(waiting') \cup taken = Waiting /\ Pool(waiting') \cap taken = {}
         /\ Disjoint(waiting') /\ Ordered(waiting')
         /\ \A i \in 1 .. Len(waiting') : waiting'[i].generation <= generation
         /\ PoolFrom(waiting', generation) = Recent
         /\ \A q \in Pins : PoolAfter(waiting, pins'[q].generation)
                              \subseteq PoolAfter(waiting', pins'[q].generation)
         /\ \A i \in 1 .. Len(waiting') :
              \/ waiting'[i].generation >= generation
              \/ \E q \in Pins : \E j \in 1 .. i : pins'[q].generation < waiting'[j].generation
  <2>1. /\ pins \in [Pins -> PinType] /\ Unpinned \in PinType
        /\ waiting \in Seq(Entry) /\ generation \in Nat
    BY PinFacts DEF Inv
  <2>2. pins' = [pins EXCEPT ![p] = Unpinned]
    BY DEF Release
  <2>3. /\ Disjoint(waiting) /\ Ordered(waiting)
        /\ \A i \in 1 .. Len(waiting) : waiting[i].generation <= generation
    BY DEF Inv, Apart, Ledger, Disjoint, Ordered
  <2>4. Pool(waiting) = Waiting /\ PoolFrom(waiting, generation) = Recent
    BY DEF Pool, Waiting, PoolFrom, Recent
  <2>5. CASE \E q \in Pins \ {p} : pins[q].generation = pins[p].generation
    <3>1. PICK q \in Pins \ {p} : pins[q].generation = pins[p].generation
      BY <2>5
    <3>2. waiting' = waiting /\ releasing' = releasing
      BY <2>5 DEF Release
    <3>3. Batch(Collector, {}) = {}
      BY DEF Batch
    <3>4. ASSUME NEW i \in 1 .. Len(waiting)
          PROVE  \/ waiting[i].generation >= generation
                 \/ \E x \in Pins : \E j \in 1 .. i : pins'[x].generation < waiting[j].generation
      <4>1. CASE waiting[i].generation >= generation
        BY <4>1
      <4>2. CASE \E x \in Pins : \E j \in 1 .. i : pins[x].generation < waiting[j].generation
        <5>1. PICK x \in Pins, j \in 1 .. i : pins[x].generation < waiting[j].generation
          BY <4>2
        <5>2. CASE x = p
          BY <5>1, <5>2, <3>1, <2>1, <2>2
        <5>3. CASE x # p
          BY <5>1, <5>3, <2>1, <2>2
        <5> QED
          BY <5>2, <5>3
      <4> QED
        BY <4>1, <4>2 DEF Inv, Ledger, NothingWaitsInVain
    <3>5. /\ releasing' = releasing \cup Batch(Collector, {})
          /\ Pool(waiting') \cup {} = Waiting /\ Pool(waiting') \cap {} = {}
          /\ PoolFrom(waiting', generation) = Recent
      BY <3>2, <3>3, <2>4
    <3> QED
      BY <3>2, <3>4, <3>5, <2>1, <2>3
  <2>6. CASE ~(\E q \in Pins \ {p} : pins[q].generation = pins[p].generation)
    <3>1. Drain(waiting, pins', generation)
      BY <2>6 DEF Release
    <3>2. pins' \in [Pins -> PinType]
      BY <2>1, <2>2
    <3> QED
      BY <3>1, <3>2, <2>1, <2>3, <2>4, LedgerDrained
  <2> QED
    BY <2>5, <2>6
<1>1. /\ pins[p] # Unpinned /\ pins' = [pins EXCEPT ![p] = Unpinned]
      /\ data' = data /\ unflushed' = unflushed
      /\ UNCHANGED <<slots, slotsFlushed, resolved, opens, status, root, previousRoot, allocated,
                     retired, generation, writers, publishing>>
  BY DEF Release, disk
<1>2. status # "closed"
  BY <1>1 DEF Inv, Forgotten
<1>3. /\ pins \in [Pins -> PinType] /\ Unpinned \in PinType
      /\ Unpinned.generation = MaxPublishes + 1 /\ DOMAIN Unpinned.root = {}
      /\ pins'[p] = Unpinned /\ \A q \in Pins : q # p => pins'[q] = pins[q]
  BY PinFacts, <1>1 DEF Inv
<1>4. /\ Waiting' \cup taken = Waiting /\ Waiting' \cap taken = {}
      /\ Releasing' = Releasing \cup taken /\ Collected' = Collected \cup taken
      /\ Recent' = Recent
      /\ Writing' = Writing /\ (\A w \in Writers : Held(w)' = Held(w)) /\ Sealed' = Sealed
      /\ Current' = Current /\ Previous' = Previous
  <2>1. Waiting' = Pool(waiting')
    BY DEF Waiting, Pool
  <2>2. Recent' = PoolFrom(waiting', generation)
    BY <1>1 DEF Recent, PoolFrom
  <2>3. /\ Writing' = Writing /\ (\A w \in Writers : Held(w)' = Held(w)) /\ Sealed' = Sealed
        /\ Current' = Current /\ Previous' = Previous
    BY <1>1 DEF Writing, Held, Sealed, Current, Previous, CurrentSlot
  <2>4. Releasing' = Releasing \cup taken /\ Collected' = Collected \cup taken
    BY <1>0, ReleasingDrained
  <2> QED
    BY <2>1, <2>2, <2>3, <2>4, <1>0
<1>5. TypeOK'
  <2>1. TypeOK
    BY DEF Inv
  <2>2. pins' \in [Pins -> PinType]
    BY <1>1, <1>3
  <2>3. releasing' \subseteq [owner : Writers \cup {Collector, Orphan}, units : SUBSET Units]
    <3>1. Batch(Collector, taken) \subseteq [owner : Writers \cup {Collector, Orphan}, units : SUBSET Units]
      BY DEF Batch
    <3> QED
      BY <3>1, <2>1, <1>0 DEF TypeOK
  <2>4. waiting' \in Seq([generation : 0 .. MaxPublishes, units : SUBSET Units])
    BY <1>0 DEF Entry
  <2> QED
    BY <2>1, <2>2, <2>3, <2>4, <1>1 DEF TypeOK, PinType
<1>6. Apart'
  <2>0. Apart
    BY DEF Inv
  <2>1. (/\ DOMAIN root \cap Waiting = {} /\ DOMAIN root \cap Releasing = {}
         /\ Waiting \cap Releasing = {}
         /\ \A w \in Writers : Held(w) \cap (DOMAIN root \cup Waiting \cup Releasing) = {}
         /\ \A v, w \in Writers : v # w => Held(v) \cap Held(w) = {})'
    BY <2>0, <1>1, <1>4 DEF Apart
  <2>2. (\A i, j \in 1 .. Len(waiting) : i # j => waiting[i].units \cap waiting[j].units = {})'
    BY <1>0 DEF Disjoint
  <2>3. (\A b, c \in releasing : b # c => b.units \cap c.units = {})'
    <3>1. \A b \in releasing : b.units \cap taken = {}
      BY <2>0, <1>4 DEF Apart, Releasing
    <3>2. \A b, c \in releasing : b # c => b.units \cap c.units = {}
      BY <2>0 DEF Apart
    <3>3. /\ \A b \in releasing' : b \in releasing \/ b.units = taken
          /\ \A b, c \in releasing' : b = c \/ b \in releasing \/ c \in releasing
      BY <1>0, ReleasingDrained
    <3> QED
      BY <3>1, <3>2, <3>3
  <2> QED
    BY <2>1, <2>2, <2>3 DEF Apart
<1>7. Covered' /\ Retirement'
  BY <1>1, <1>4 DEF Inv, Covered, Retirement
<1>8. Ledger'
  <2>1. (\A q \in Pins : pins[q] = Unpinned \/ pins[q].generation <= generation)'
    BY <1>1, <1>3 DEF Inv, Ledger
  <2>2. NothingWaitsInVain'
    BY <1>0, <1>1 DEF NothingWaitsInVain
  <2> QED
    BY <2>1, <2>2, <1>0, <1>1 DEF Ledger, Ordered
<1>9. Readable'
  <2>0. Readable
    BY DEF Inv
  <2>1. ASSUME NEW q \in Pins
        PROVE  DOMAIN pins'[q].root \subseteq DOMAIN root \cup PoolAfter(waiting', pins'[q].generation)
    <3>1. CASE q = p
      BY <3>1, <1>3
    <3>2. CASE q # p
      <4>1. pins'[q] = pins[q]
        BY <3>2, <1>3
      <4>2. DOMAIN pins[q].root \subseteq DOMAIN root \cup PoolAfter(waiting, pins[q].generation)
        BY <2>0 DEF Readable, After, PoolAfter
      <4>3. PoolAfter(waiting, pins'[q].generation) \subseteq PoolAfter(waiting', pins'[q].generation)
        BY <1>0
      <4> QED
        BY <4>1, <4>2, <4>3
    <3> QED
      BY <3>1, <3>2
  <2>2. PinnedIntact' /\ Intact(root)' /\ Intact(previousRoot)'
    BY <2>0, <1>1, <1>3 DEF Readable, PinnedIntact, Intact
  <2>3. ASSUME NEW q \in Pins
        PROVE  (DOMAIN pins[q].root \subseteq DOMAIN root \cup After(pins[q].generation))'
    BY <2>1, <1>1 DEF After, PoolAfter
  <2> QED
    BY <2>0, <2>2, <2>3, <1>1, <1>4 DEF Readable
<1>10. Durable'
  BY <1>1, <1>4 DEF Inv, Durable, KeptRootsIntact, Intact
<1>11. Remembered'
  BY <1>1, <1>4 DEF Inv, Remembered, Published
<1>12. Written' /\ Forgotten'
  BY <1>1, <1>2 DEF Inv, Written, Built, Forgotten
<1> QED
  BY <1>5, <1>6, <1>7, <1>8, <1>9, <1>10, <1>11, <1>12 DEF Inv
-------------------------------------------------------------------------------
(***************************************************************************)
(* The root slots and publication.                                         *)
(***************************************************************************)
(* The current slot is a newest one, and the next is the other. *)
LEMMA SlotFacts ==
  ASSUME TypeOK
  PROVE  /\ CurrentSlot \in 0 .. 1 /\ 1 - CurrentSlot \in 0 .. 1
         /\ \A a \in 0 .. 1 : a = CurrentSlot \/ a = 1 - CurrentSlot
         /\ CurrentSlot # 1 - CurrentSlot
         /\ NextSlot = 1 - CurrentSlot
         /\ \A a \in 0 .. 1 : slots[a] \in Slots /\ slots[a].sequence <= Current.sequence
         /\ Current \in Slots /\ Previous \in Slots
<1>1. \A a \in 0 .. 1 : slots[a] \in Slots /\ slots[a].sequence \in Nat
  <2>1. \A x \in Slots : x.sequence \in Nat
    BY DEF Slots
  <2> QED
    BY <2>1 DEF TypeOK
<1>2. /\ CurrentSlot \in 0 .. 1 /\ 1 - CurrentSlot \in 0 .. 1
      /\ \A a \in 0 .. 1 : a = CurrentSlot \/ a = 1 - CurrentSlot
      /\ CurrentSlot # 1 - CurrentSlot
  BY DEF CurrentSlot
<1>3. slots[0].sequence <= Current.sequence /\ slots[1].sequence <= Current.sequence
  <2>1. slots[0].sequence \in Nat /\ slots[1].sequence \in Nat
    BY <1>1
  <2> QED
    BY <2>1 DEF Current, CurrentSlot
<1>4. NextSlot = 1 - CurrentSlot
  <2>1. slots[0].sequence \in Nat /\ slots[1].sequence \in Nat
    BY <1>1
  <2> QED
    BY <2>1 DEF NextSlot, Current, CurrentSlot
<1>5. \A a \in 0 .. 1 : a = 0 \/ a = 1
  OBVIOUS
<1> QED
  BY <1>1, <1>2, <1>3, <1>4, <1>5 DEF Current, Previous

(* Over the slot that is not current, a root of the next sequence becomes   *)
(* the current one and the current one the previous.                        *)
LEMMA SlotWritten ==
  ASSUME TypeOK, NEW x \in Slots, x.sequence = Current.sequence + 1,
         slots' = [slots EXCEPT ![NextSlot] = x]
  PROVE  /\ slots' \in [0 .. 1 -> Slots]
         /\ Current' = x /\ Previous' = Current
         /\ \A a \in 0 .. 1 : slots'[a] = x \/ slots'[a] = Current
<1>1. /\ CurrentSlot \in 0 .. 1 /\ 1 - CurrentSlot \in 0 .. 1
      /\ \A a \in 0 .. 1 : a = CurrentSlot \/ a = 1 - CurrentSlot
      /\ CurrentSlot # 1 - CurrentSlot
      /\ NextSlot = 1 - CurrentSlot
      /\ Current \in Slots
  BY SlotFacts
<1>2. slots \in [0 .. 1 -> Slots]
  BY DEF TypeOK
<1>3. slots' \in [0 .. 1 -> Slots] /\ slots'[1 - CurrentSlot] = x /\ slots'[CurrentSlot] = Current
  BY <1>1, <1>2 DEF Current
<1>4. Current.sequence \in Nat
  BY <1>1 DEF Slots
<1>5. CurrentSlot' = 1 - CurrentSlot
  <2>1. CASE CurrentSlot = 0
    <3>1. slots'[1] = x /\ slots'[0] = Current
      BY <2>1, <1>3
    <3> QED
      BY <3>1, <2>1, <1>4 DEF CurrentSlot
  <2>2. CASE CurrentSlot = 1
    <3>1. slots'[0] = x /\ slots'[1] = Current
      BY <2>2, <1>3
    <3>2. CurrentSlot' = 0
      BY <3>1, <1>4 DEF CurrentSlot
    <3> QED
      BY <3>2, <2>2
  <2> QED
    BY <2>1, <2>2, <1>1
<1>6. Current' = x
  BY <1>3, <1>5 DEF Current
<1>7. Previous' = Current
  <2>1. 1 - (1 - CurrentSlot) = CurrentSlot
    BY <1>1
  <2> QED
    BY <2>1, <1>3, <1>5 DEF Previous
<1> QED
  BY <1>1, <1>3, <1>6, <1>7

(* A writer a publish takes is sealed: it holds its extent, which reads its bytes. *)
LEMMA SealedWriter ==
  ASSUME Inv, NEW ws \in SUBSET Writers, NEW gone, Publishable(ws, gone), NEW w \in ws
  PROVE  /\ w \in Writers /\ writers[w].reserved = << >> /\ ~writers[w].failed
         /\ writers[w].state = "open" /\ writers[w].call = "none"
         /\ Held(w) = writers[w].extent
         /\ \A u \in writers[w].extent : data[u] = w
<1>1. w \in Writers
  OBVIOUS
<1>2. /\ writers[w] \in WriterType /\ Built(w)
      /\ Held(w) = {writers[w].reserved[i] : i \in 1 .. Len(writers[w].reserved)}
                     \cup writers[w].extent
  BY <1>1, WriterFacts
<1>3. writers[w].reserved = << >> /\ writers[w].state = "open" /\ writers[w].call = "none"
  BY DEF Publishable, Building, Busy
<1>4. ~writers[w].failed
  BY <1>2, <1>3 DEF Built
<1>5. Held(w) = writers[w].extent
  BY <1>2, <1>3
<1> QED
  BY <1>1, <1>2, <1>3, <1>4, <1>5 DEF Built

(* The next root is a root, and what it expects is there. *)
LEMMA NextRootFacts ==
  ASSUME Inv, NEW ws \in SUBSET Writers, NEW gone, Publishable(ws, gone)
  PROVE  /\ NextRoot(ws, gone) \in Roots /\ Intact(NextRoot(ws, gone))
         /\ DOMAIN NextRoot(ws, gone) = Published(ws) \cup (DOMAIN root \ gone)
         /\ NextRootSlot(ws, gone) \in Slots
         /\ NextRootSlot(ws, gone).sequence = Current.sequence + 1
         /\ NextRootSlot(ws, gone).root = NextRoot(ws, gone)
         /\ Published(ws) \subseteq Units
<1> DEFINE D == Published(ws) \cup (DOMAIN root \ gone)
           r == NextRoot(ws, gone)
<1>1. r = [u \in D |-> IF u \in Published(ws) THEN CHOOSE w \in ws : u \in writers[w].extent
                       ELSE root[u]]
  BY DEF NextRoot
<1>2. DOMAIN r = D
  BY <1>1
<1>3. ASSUME NEW u \in Published(ws)
      PROVE  r[u] \in Writers /\ u \in Units /\ data[u] = r[u]
  <2>1. \E w \in ws : u \in writers[w].extent
    BY <1>3 DEF Published
  <2> DEFINE v == CHOOSE w \in ws : u \in writers[w].extent
  <2>2. v \in ws /\ u \in writers[v].extent
    BY <2>1
  <2>3. r[u] = v
    BY <1>1
  <2> HIDE DEF v, r
  <2>4. v \in Writers /\ data[u] = v
    BY <2>2, SealedWriter
  <2>5. u \in Units
    BY <2>2, <2>4, HeldUnits DEF Inv, WriterType
  <2> QED
    BY <2>3, <2>4, <2>5
<1>4. ASSUME NEW u \in D, u \notin Published(ws)
      PROVE  r[u] \in Writers /\ u \in Units /\ data[u] = r[u]
  <2>1. r[u] = root[u] /\ u \in DOMAIN root
    BY <1>1, <1>4
  <2>2. root \in Roots /\ Intact(root)
    BY DEF Inv, TypeOK, Readable
  <2>3. root[u] \in Writers /\ u \in Units
    BY <2>1, <2>2, RootType
  <2> QED
    BY <2>1, <2>2, <2>3 DEF Intact
<1>5. \A u \in D : r[u] \in Writers /\ u \in Units /\ data[u] = r[u]
  BY <1>3, <1>4
<1>6. r = [u \in DOMAIN r |-> r[u]]
  BY <1>1
<1> HIDE DEF r
<1>7. r \in Roots
  BY <1>2, <1>5, <1>6, RootType
<1>8. Intact(r)
  BY <1>2, <1>5 DEF Intact
<1>9. Current.sequence + 1 \in 0 .. MaxPublishes
  <2>1. Current.sequence \in Nat
    BY SlotFacts DEF Inv, Slots
  <2> QED
    BY <2>1, Constants DEF Publishable
<1>10. NextRootSlot(ws, gone) \in Slots
         /\ NextRootSlot(ws, gone).sequence = Current.sequence + 1
         /\ NextRootSlot(ws, gone).root = r
  BY <1>7, <1>9 DEF NextRootSlot, Slots, r
<1> QED
  BY <1>2, <1>3, <1>7, <1>8, <1>10 DEF r

(* The writers a publish takes keep what they hold, and it is sealed. *)
LEMMA EndedFacts ==
  ASSUME Inv, NEW ws \in SUBSET Writers, NEW gone, Publishable(ws, gone),
         NEW state \in {"publishing", "indeterminate"}, writers' = Ended(ws, state)
  PROVE  /\ writers' \in [Writers -> WriterType]
         /\ (\A w \in Writers : Held(w)' = Held(w)) /\ Writing' = Writing
         /\ Sealed \cup Published(ws) \subseteq Sealed'
         /\ Published(ws)' = Published(ws)
         /\ \A w \in ws : writers'[w].state = state
         /\ data' = data => Written'
<1>1. /\ writers \in [Writers -> WriterType] /\ \A w \in Writers : Built(w)
  BY DEF Inv, TypeOK, WriterType, Written
<1>2. writers' = [w \in Writers |-> IF w \in ws THEN [writers[w] EXCEPT !.state = state]
                                    ELSE writers[w]]
  BY DEF Ended
<1>3. ASSUME NEW w \in Writers
      PROVE  /\ writers'[w] \in WriterType
             /\ writers'[w].reserved = writers[w].reserved
             /\ writers'[w].extent = writers[w].extent
             /\ writers'[w].written = writers[w].written
             /\ writers'[w].call = writers[w].call /\ writers'[w].failed = writers[w].failed
             /\ writers'[w].state = IF w \in ws THEN state ELSE writers[w].state
  <2> DEFINE old == writers[w]
             new == [old EXCEPT !.state = state]
  <2>1. old \in WriterType
    BY <1>1
  <2> HIDE DEF old
  <2>2. /\ new \in WriterType /\ new.reserved = old.reserved /\ new.extent = old.extent
        /\ new.written = old.written /\ new.call = old.call /\ new.failed = old.failed
        /\ new.state = state
    BY <2>1 DEF WriterType
  <2>3. writers'[w] = IF w \in ws THEN new ELSE old
    BY <1>2 DEF old
  <2> HIDE DEF new
  <2> QED
    BY <2>1, <2>2, <2>3 DEF old
<1>4. writers' \in [Writers -> WriterType]
  <2>1. writers' = [w \in Writers |-> writers'[w]]
    BY <1>2
  <2> QED
    BY <2>1, <1>3
<1>5. \A w \in Writers : Held(w)' = Held(w)
  BY <1>3 DEF Held
<1>6. Writing' = Writing
  BY <1>5 DEF Writing
<1>7. Published(ws)' = Published(ws)
  BY <1>3 DEF Published
<1>8. Sealed \cup Published(ws) \subseteq Sealed'
  <2>1. ASSUME NEW u \in Sealed \cup Published(ws)
        PROVE  \E w \in Writers : /\ u \in writers'[w].extent
                                  /\ writers'[w].state \in {"publishing", "indeterminate"}
    <3>1. CASE u \in Sealed
      <4>1. PICK w \in Writers : /\ u \in writers[w].extent
                                 /\ writers[w].state \in {"publishing", "indeterminate"}
        BY <3>1 DEF Sealed
      <4> QED
        BY <4>1, <1>3
    <3>2. CASE u \in Published(ws)
      <4>1. PICK w \in ws : u \in writers[w].extent
        BY <3>2 DEF Published
      <4> QED
        BY <4>1, <1>3
    <3> QED
      BY <3>1, <3>2
  <2> QED
    BY <2>1 DEF Sealed
<1>9. ASSUME data' = data
      PROVE  Written'
  <2> SUFFICES ASSUME NEW w \in Writers
               PROVE  Built(w)'
    BY DEF Written
  <2>1. CASE w \in ws
    <3>1. /\ writers[w].reserved = << >> /\ ~writers[w].failed /\ writers[w].call = "none"
      BY <2>1, SealedWriter
    <3>2. writers'[w].state = state
      BY <2>1, <1>3
    <3> QED
      BY <3>1, <3>2, <1>1, <1>3, <1>9 DEF Built
  <2>2. CASE w \notin ws
    <3>1. writers'[w] = writers[w]
      BY <2>2, <1>2
    <3> QED
      BY <3>1, <1>1, <1>9 DEF Built
  <2> QED
    BY <2>1, <2>2
<1> QED
  BY <1>3, <1>4, <1>5, <1>6, <1>7, <1>8, <1>9

(* What a publish leaves alone. *)
LEMMA PublishLeaves ==
  ASSUME Inv, NEW ws \in SUBSET Writers, NEW gone, Publishable(ws, gone),
         NEW state \in {"publishing", "indeterminate"}, writers' = Ended(ws, state),
         status' \in {"publishing", "failed"},
         UNCHANGED <<data, resolved, opens, root, previousRoot, allocated, retired, ledger,
                     releasing>>
  PROVE  Apart' /\ Covered' /\ Retirement' /\ Ledger' /\ Readable' /\ Written' /\ Forgotten'
<1>1. /\ Waiting' = Waiting /\ Releasing' = Releasing /\ Collected' = Collected
      /\ Recent' = Recent /\ \A g : After(g)' = After(g)
  BY DEF Waiting, Releasing, Collected, Recent, After, ledger
<1>2. (\A w \in Writers : Held(w)' = Held(w)) /\ Writing' = Writing /\ Written'
  BY EndedFacts
<1>3. status = "open"
  BY DEF Publishable
<1>4. Apart'
  BY <1>1, <1>2 DEF Inv, Apart, ledger
<1>5. Covered' /\ Retirement'
  BY <1>1, <1>2, <1>3 DEF Inv, Covered, Retirement
<1>6. Ledger'
  BY DEF Inv, Ledger, NothingWaitsInVain, ledger
<1>7. Readable'
  BY <1>1 DEF Inv, Readable, Intact, PinnedIntact, ledger
<1> QED
  BY <1>2, <1>4, <1>5, <1>6, <1>7 DEF Forgotten

(* The slots after a publish that reached its slot. *)
LEMMA PublishDurable ==
  ASSUME Inv, NEW ws \in SUBSET Writers, NEW gone, Publishable(ws, gone), status' # "closed",
         NEW state \in {"publishing", "indeterminate"}, writers' = Ended(ws, state),
         unflushed' = {}, UNCHANGED <<data, resolved, root, ledger>>,
         slots' = [slots EXCEPT ![NextSlot] = NextRootSlot(ws, gone)],
         slotsFlushed' = [slotsFlushed EXCEPT ![NextSlot] = NextRootSlot(ws, gone)]
  PROVE  /\ Durable' /\ slots' \in [0 .. 1 -> Slots] /\ slotsFlushed' \in [0 .. 1 -> Slots]
         /\ Current' = NextRootSlot(ws, gone) /\ Previous' = Current
<1>1. /\ Intact(NextRoot(ws, gone))
      /\ DOMAIN NextRoot(ws, gone) = Published(ws) \cup (DOMAIN root \ gone)
      /\ NextRootSlot(ws, gone) \in Slots
      /\ NextRootSlot(ws, gone).sequence = Current.sequence + 1
      /\ NextRootSlot(ws, gone).root = NextRoot(ws, gone)
  BY NextRootFacts
<1>2. /\ slots' \in [0 .. 1 -> Slots]
      /\ Current' = NextRootSlot(ws, gone) /\ Previous' = Current
      /\ \A a \in 0 .. 1 : slots'[a] = NextRootSlot(ws, gone) \/ slots'[a] = Current
  BY <1>1, SlotWritten DEF Inv
<1>3. Sealed \cup Published(ws) \subseteq Sealed'
  BY EndedFacts
<1>4. slots = slotsFlushed /\ resolved <= Current.sequence /\ Intact(Current.root)
  <2>1. CurrentSlot \in 0 .. 1
    BY SlotFacts DEF Inv
  <2> QED
    BY <2>1 DEF Inv, Durable, KeptRootsIntact, Current
<1>5. Current.root = root
  BY DEF Inv, Remembered, Publishable
<1>6. slotsFlushed' = slots'
  BY <1>4
<1>7. resolved' <= Current'.sequence
  <2>1. Current.sequence \in Nat /\ resolved \in Nat
    BY SlotFacts DEF Inv, Slots, TypeOK
  <2> QED
    BY <2>1, <1>1, <1>2, <1>4
<1>8. ASSUME NEW a \in 0 .. 1
      PROVE  /\ Intact(slots[a].root)'
             /\ DOMAIN slots'[a].root \subseteq DOMAIN root' \cup Recent' \cup Sealed'
  BY <1>1, <1>2, <1>3, <1>4, <1>5 DEF Intact
<1>9. Durable'
  BY <1>6, <1>7, <1>8 DEF Durable, KeptRootsIntact
<1> QED
  BY <1>2, <1>6, <1>9

(* A publish writes the slot that is not current and leaves the memory as   *)
(* it was.                                                                  *)
LEMMA PublishKeeps ==
  ASSUME Inv, NEW ws \in SUBSET Writers, NEW dropped, Publish(ws, Extents(dropped))
  PROVE  Inv'
<1> DEFINE gone == Extents(dropped)
<1>1. gone \subseteq DOMAIN root
  BY DEF Extents
<1> HIDE DEF gone
<1>2. /\ Publishable(ws, gone) /\ unflushed' = {}
      /\ slots' = [slots EXCEPT ![NextSlot] = NextRootSlot(ws, gone)]
      /\ slotsFlushed' = [slotsFlushed EXCEPT ![NextSlot] = NextRootSlot(ws, gone)]
      /\ writers' = Ended(ws, "publishing")
      /\ publishing' = [writers |-> ws, retired |-> gone, root |-> NextRoot(ws, gone)]
      /\ status' = "publishing"
      /\ UNCHANGED <<data, resolved, opens, root, previousRoot, allocated, retired, ledger,
                     releasing>>
  BY DEF Publish, gone
<1>3. Apart' /\ Covered' /\ Retirement' /\ Ledger' /\ Readable' /\ Written' /\ Forgotten'
  BY <1>2, PublishLeaves
<1>4. /\ Durable' /\ slots' \in [0 .. 1 -> Slots] /\ slotsFlushed' \in [0 .. 1 -> Slots]
      /\ Current' = NextRootSlot(ws, gone) /\ Previous' = Current
  BY <1>2, PublishDurable
<1>5. /\ writers' \in [Writers -> WriterType] /\ Published(ws)' = Published(ws)
      /\ \A w \in ws : writers'[w].state = "publishing"
  BY <1>2, EndedFacts
<1>6. /\ NextRoot(ws, gone) \in Roots
      /\ DOMAIN NextRoot(ws, gone) = Published(ws) \cup (DOMAIN root \ gone)
      /\ NextRootSlot(ws, gone).sequence = Current.sequence + 1
      /\ NextRootSlot(ws, gone).root = NextRoot(ws, gone)
  BY <1>2, NextRootFacts
<1>7. publishing' \in [writers : SUBSET Writers, retired : SUBSET Units, root : Roots]
  <2>1. gone \in SUBSET Units
    BY <1>1, RootType DEF Inv, TypeOK
  <2> QED
    BY <2>1, <1>2, <1>6
<1>8. publishing' # NoPublish
  BY <1>7, AbsenceAssumption
<1>9. TypeOK'
  BY <1>2, <1>4, <1>5, <1>7 DEF Inv, TypeOK, ledger, WriterType
<1>10. Remembered'
  <2>1. generation < Current.sequence + 1 /\ Current.root = root /\ status = "open"
    <3>1. generation <= Current.sequence /\ generation \in Nat /\ Current.sequence \in Nat
      BY <1>2, SlotFacts DEF Inv, Remembered, Publishable, TypeOK, Slots
    <3> QED
      BY <3>1, <1>2 DEF Inv, Remembered, Publishable
  <2>2. /\ publishing'.writers = ws /\ publishing'.retired = gone
        /\ publishing'.root = NextRoot(ws, gone)
    BY <1>2
  <2>3. generation' < Current'.sequence /\ Current'.root = publishing'.root /\ Previous'.root = root'
    BY <2>1, <2>2, <1>2, <1>4, <1>6 DEF ledger
  <2>4. Published(publishing.writers)' = Published(ws)'
    BY <2>2 DEF Published
  <2>5. (DOMAIN publishing.root = Published(publishing.writers) \cup (DOMAIN root \ publishing.retired))'
    BY <2>2, <2>4, <1>2, <1>5, <1>6
  <2>6. (/\ \A w \in publishing.writers : writers[w].state = "publishing"
         /\ publishing.retired \subseteq DOMAIN root)'
    BY <2>2, <1>1, <1>2, <1>5
  <2> QED
    BY <2>3, <2>5, <2>6, <1>2, <1>8 DEF Remembered
<1> QED
  BY <1>3, <1>4, <1>9, <1>10 DEF Inv

(* A publish that fails before or after its slot was written. *)
LEMMA PublishFailsKeeps ==
  ASSUME Inv, NEW ws \in SUBSET Writers, NEW gone, PublishFails(ws, gone)
  PROVE  Inv'
<1>1. /\ Publishable(ws, gone) /\ writers' = Ended(ws, "indeterminate") /\ status' = "failed"
      /\ UNCHANGED <<data, resolved, opens, root, previousRoot, allocated, retired, ledger,
                     releasing, publishing>>
  BY DEF PublishFails, spaceVars
<1>2. Apart' /\ Covered' /\ Retirement' /\ Ledger' /\ Readable' /\ Written' /\ Forgotten'
  BY <1>1, PublishLeaves
<1>3. /\ writers' \in [Writers -> WriterType] /\ Sealed \subseteq Sealed'
  BY <1>1, EndedFacts
<1>4. Durable' /\ slots' \in [0 .. 1 -> Slots] /\ slotsFlushed' \in [0 .. 1 -> Slots]
      /\ unflushed' \subseteq unflushed
  <2>1. CASE unflushed' \in {unflushed, {}} /\ UNCHANGED <<slots, slotsFlushed>>
    <3>1. Recent' = Recent /\ Current' = Current
      BY <2>1, <1>1 DEF Recent, ledger, Current, CurrentSlot
    <3>2. KeptRootsIntact'
      BY <2>1, <1>1 DEF Inv, Durable, KeptRootsIntact, Intact
    <3>3. status # "closed"
      BY <1>1 DEF Publishable
    <3> QED
      BY <3>1, <3>2, <3>3, <2>1, <1>1, <1>3 DEF Inv, Durable, TypeOK
  <2>2. CASE /\ unflushed' = {}
             /\ slots' = [slots EXCEPT ![NextSlot] = NextRootSlot(ws, gone)]
             /\ slotsFlushed' = [slotsFlushed EXCEPT ![NextSlot] = NextRootSlot(ws, gone)]
    BY <2>2, <1>1, PublishDurable
  <2> QED
    BY <2>1, <2>2 DEF PublishFails
<1>5. TypeOK'
  BY <1>1, <1>3, <1>4 DEF Inv, TypeOK, ledger, WriterType
<1>6. Remembered'
  <2>1. publishing = NoPublish
    BY <1>1 DEF Inv, Remembered, Publishable
  <2> QED
    BY <2>1, <1>1 DEF Remembered
<1> QED
  BY <1>2, <1>4, <1>5, <1>6 DEF Inv

(* The ledger with what a publish retires: the last entry, of the new generation. *)
WithRetired(gone) ==
    IF gone = {} THEN waiting
    ELSE Append(waiting, [generation |-> generation + 1, units |-> gone])

(* It is in order, disjoint, and holds what was there and what is retired now. *)
LEMMA Retired ==
  ASSUME Inv, NEW gone \in SUBSET (DOMAIN root), generation < MaxPublishes,
         NEW entries, entries = WithRetired(gone)
  PROVE  /\ entries \in Seq(Entry) /\ Disjoint(entries) /\ Ordered(entries)
         /\ \A i \in 1 .. Len(entries) : entries[i].generation <= generation + 1
         /\ Pool(entries) = Waiting \cup gone
         /\ gone \subseteq PoolFrom(entries, generation + 1)
         /\ \A g \in Nat : PoolAfter(waiting, g) \subseteq PoolAfter(entries, g)
         /\ \A g \in 0 .. generation : gone \subseteq PoolAfter(entries, g)
<1> DEFINE e == [generation |-> generation + 1, units |-> gone]
           L == Len(waiting)
<1>1. /\ waiting \in Seq(Entry) /\ L \in Nat /\ generation \in 0 .. MaxPublishes
      /\ MaxPublishes \in Nat /\ \A i \in 1 .. L : waiting[i] \in Entry
  BY PinFacts DEF Inv
<1>2. /\ Disjoint(waiting) /\ Ordered(waiting)
      /\ \A i \in 1 .. L : waiting[i].generation <= generation
      /\ DOMAIN root \cap Waiting = {}
  BY DEF Inv, Apart, Ledger, Disjoint, Ordered
<1>3. \A i \in 1 .. L : waiting[i].generation \in Nat /\ waiting[i].units \subseteq Waiting
  <2>1. \A x \in Entry : x.generation \in Nat
    BY DEF Entry
  <2> QED
    BY <2>1, <1>1 DEF Waiting
<1>4. Pool(waiting) = Waiting
  BY DEF Pool, Waiting
<1>5. CASE gone = {}
  <2>0. entries = waiting
    BY <1>5 DEF WithRetired
  <2>1. \A i \in 1 .. L : waiting[i].generation <= generation + 1
    BY <1>1, <1>2, <1>3
  <2> QED
    BY <2>0, <2>1, <1>1, <1>2, <1>4, <1>5
<1>6. CASE gone # {}
  <2>1. e \in Entry /\ e.generation = generation + 1 /\ e.units = gone
    <3>1. gone \in SUBSET Units
      BY RootType DEF Inv, TypeOK
    <3>2. generation + 1 \in 0 .. MaxPublishes
      BY <1>1
    <3> QED
      BY <3>1, <3>2 DEF Entry
  <2> HIDE DEF e
  <2>2. entries = Append(waiting, e)
    BY <1>6 DEF e, WithRetired
  <2>3. /\ entries \in Seq(Entry) /\ Len(entries) = L + 1 /\ entries[L + 1] = e
        /\ \A i \in 1 .. L : entries[i] = waiting[i]
    BY <2>1, <2>2, <1>1
  <2> HIDE DEF L
  <2>4. \A i \in 1 .. L + 1 : i \in 1 .. L \/ i = L + 1
    BY <1>1
  <2>5. \A i \in 1 .. L : i \in 1 .. L + 1 /\ i < L + 1 /\ ~(L + 1 < i)
    BY <1>1
  <2>6. L + 1 \in 1 .. L + 1
    BY <1>1
  <2>7. \A i \in 1 .. L : waiting[i].units \cap gone = {}
    BY <1>2, <1>3
  <2>8. Disjoint(entries)
    <3>1. \A i, j \in 1 .. L : i # j => entries[i].units \cap entries[j].units = {}
      BY <2>3, <1>2 DEF Disjoint, L
    <3>2. \A i \in 1 .. L : entries[i].units \cap entries[L + 1].units = {}
      BY <2>1, <2>3, <2>7
    <3> QED
      BY <3>1, <3>2, <2>3, <2>4 DEF Disjoint
  <2>9. Ordered(entries) /\ \A i \in 1 .. Len(entries) : entries[i].generation <= generation + 1
    <3>1. \A i, j \in 1 .. L : i < j => entries[i].generation <= entries[j].generation
      BY <2>3, <1>2 DEF Ordered, L
    <3>2. \A i \in 1 .. L : entries[i].generation <= generation + 1
      BY <2>3, <1>1, <1>2, <1>3
    <3>3. entries[L + 1].generation = generation + 1 /\ generation + 1 <= generation + 1
      BY <2>1, <2>3, <1>1
    <3>4. L \in Nat /\ ~(L + 1 < L + 1)
      BY <1>1
    <3> QED
      BY <3>1, <3>2, <3>3, <3>4, <2>3, <2>4, <2>5 DEF Ordered
  <2>10. Pool(entries) = Waiting \cup gone
    BY <2>1, <2>3, <2>4, <2>5, <2>6, <1>4 DEF Pool, L
  <2>11. gone \subseteq PoolFrom(entries, generation + 1)
    <3>1. entries[L + 1].generation >= generation + 1
      BY <2>1, <2>3, <1>1
    <3> QED
      BY <3>1, <2>1, <2>3, <2>6 DEF PoolFrom
  <2>12. \A g \in Nat : PoolAfter(waiting, g) \subseteq PoolAfter(entries, g)
    BY <2>3, <2>5 DEF PoolAfter, L
  <2>13. ASSUME NEW g \in 0 .. generation
         PROVE  gone \subseteq PoolAfter(entries, g)
    <3>1. entries[L + 1].generation > g
      BY <2>1, <2>3, <1>1
    <3> QED
      BY <3>1, <2>1, <2>3, <2>6 DEF PoolAfter
  <2> QED
    BY <2>3, <2>8, <2>9, <2>10, <2>11, <2>12, <2>13
<1> QED
  BY <1>5, <1>6

(* A publish that resolved makes its root current and retires what the root *)
(* dropped.                                                                 *)
LEMMA PublishDoneKeeps ==
  ASSUME Inv, PublishDone
  PROVE  Inv'
<1> DEFINE ws == publishing.writers
           gone == publishing.retired
           next == generation + 1
           entries == WithRetired(gone)
<1>1. /\ publishing # NoPublish /\ resolved' = Current.sequence
      /\ writers' = [w \in Writers |-> IF w \in ws THEN Gone ELSE writers[w]]
      /\ retired' = retired \cup gone /\ previousRoot' = root /\ root' = publishing.root
      /\ generation' = next /\ Drain(entries, pins, next)
      /\ publishing' = NoPublish
      /\ status' = IF status = "publishing" THEN "open" ELSE status
      /\ UNCHANGED <<data, unflushed, slots, slotsFlushed, opens, allocated, pins>>
  <2>1. generation' = next
    BY DEF PublishDone
  <2>2. Drain(IF gone = {} THEN waiting
              ELSE Append(waiting, [generation |-> generation', units |-> gone]), pins, generation')
    BY DEF PublishDone
  <2> QED
    BY <2>1, <2>2 DEF PublishDone, Gone, WithRetired
<1>2. /\ ws \subseteq Writers /\ gone \subseteq Units /\ publishing.root \in Roots
  BY <1>1 DEF Inv, TypeOK
<1>3. /\ status \in {"publishing", "failed"} /\ generation < Current.sequence
      /\ Current.root = publishing.root /\ Previous.root = root
      /\ \A w \in ws : writers[w].state = "publishing"
      /\ gone \subseteq DOMAIN root
      /\ DOMAIN publishing.root = Published(ws) \cup (DOMAIN root \ gone)
  BY <1>1 DEF Inv, Remembered
<1>4. /\ Current \in Slots /\ CurrentSlot \in 0 .. 1
      /\ generation \in Nat /\ Current.sequence \in 0 .. MaxPublishes
      /\ generation < MaxPublishes /\ next \in 0 .. MaxPublishes /\ MaxPublishes \in Nat
  <2>1. Current \in Slots /\ CurrentSlot \in 0 .. 1 /\ Current.sequence \in 0 .. MaxPublishes
    BY SlotFacts DEF Inv, Slots
  <2>2. generation \in 0 .. MaxPublishes /\ MaxPublishes \in Nat
    BY PinFacts DEF Inv
  <2> QED
    BY <2>1, <2>2, <1>3
<1>5. /\ entries \in Seq(Entry) /\ Disjoint(entries) /\ Ordered(entries)
      /\ \A i \in 1 .. Len(entries) : entries[i].generation <= next
      /\ Pool(entries) = Waiting \cup gone
      /\ gone \subseteq PoolFrom(entries, next)
      /\ \A g \in Nat : PoolAfter(waiting, g) \subseteq PoolAfter(entries, g)
      /\ \A g \in 0 .. generation : gone \subseteq PoolAfter(entries, g)
  <2>1. gone \in SUBSET (DOMAIN root) /\ generation < MaxPublishes
    BY <1>3, <1>4
  <2>2. entries = WithRetired(gone)
    OBVIOUS
  <2> HIDE DEF entries, gone
  <2> QED BY <2>1, <2>2, Retired, Zenon
<1> HIDE DEF entries
<1>6. pins \in [Pins -> PinType] /\ DOMAIN Unpinned.root = {}
  BY PinFacts DEF Inv
<1>7. PICK taken \in SUBSET Units :
         /\ waiting' \in Seq(Entry)
         /\ releasing' = releasing \cup Batch(Collector, taken)
         /\ Pool(waiting') \cup taken = Pool(entries) /\ Pool(waiting') \cap taken = {}
         /\ Disjoint(waiting') /\ Ordered(waiting')
         /\ \A i \in 1 .. Len(waiting') : waiting'[i].generation <= next
         /\ PoolFrom(waiting', next) = PoolFrom(entries, next)
         /\ \A q \in Pins : PoolAfter(entries, pins[q].generation)
                              \subseteq PoolAfter(waiting', pins[q].generation)
         /\ \A i \in 1 .. Len(waiting') :
              \/ waiting'[i].generation >= next
              \/ \E q \in Pins : \E j \in 1 .. i : pins[q].generation < waiting'[j].generation
  <2>1. next \in Nat
    BY <1>4
  <2> HIDE DEF next
  <2> QED BY <2>1, <1>1, <1>5, <1>6, LedgerDrained
<1> HIDE DEF next, ws, gone
<1>8. /\ Waiting' \cup taken = Waiting \cup gone /\ Waiting' \cap taken = {}
      /\ Releasing' = Releasing \cup taken /\ Collected' = Collected \cup taken
      /\ gone \subseteq Recent'
  <2>1. Waiting' = Pool(waiting')
    BY DEF Waiting, Pool
  <2>2. Recent' = PoolFrom(waiting', next)
    BY <1>1 DEF Recent, PoolFrom
  <2>3. Releasing' = Releasing \cup taken /\ Collected' = Collected \cup taken
    BY <1>7, ReleasingDrained
  <2> QED
    BY <2>1, <2>2, <2>3, <1>5, <1>7
<1>9. Current' = Current /\ Previous' = Previous
  BY <1>1 DEF Current, Previous, CurrentSlot
<1>10. /\ writers' \in [Writers -> WriterType]
       /\ \A w \in Writers : w \notin ws => writers'[w] = writers[w] /\ Held(w)' = Held(w)
       /\ \A w \in ws : writers'[w] = Gone /\ Held(w)' = {} /\ Held(w) = writers[w].extent
  <2>1. Gone \in WriterType /\ Gone.reserved = << >> /\ Gone.extent = {}
    BY GoneType
  <2>2. writers \in [Writers -> WriterType]
    BY DEF Inv, TypeOK, WriterType
  <2>3. writers' \in [Writers -> WriterType]
    BY <2>1, <2>2, <1>1
  <2>4. \A w \in Writers : w \notin ws => writers'[w] = writers[w] /\ Held(w)' = Held(w)
    BY <1>1 DEF Held
  <2>5. ASSUME NEW w \in ws
        PROVE  writers'[w] = Gone /\ Held(w)' = {} /\ Held(w) = writers[w].extent
    <3>1. w \in Writers /\ writers'[w] = Gone
      BY <1>1, <1>2
    <3>2. Held(w)' = {}
      <4>1. Held(w)' = {Gone.reserved[i] : i \in 1 .. Len(Gone.reserved)} \cup Gone.extent
        BY <3>1, <2>1, HeldAfter
      <4> QED
        BY <4>1, <2>1
    <3>3. writers[w].reserved = << >>
      BY <3>1, <1>3 DEF Inv, Written, Built
    <3>4. Held(w) = writers[w].extent
      <4>1. Held(w) = {writers[w].reserved[i] : i \in 1 .. Len(writers[w].reserved)}
                        \cup writers[w].extent
        BY <3>1, WriterFacts
      <4> QED
        BY <4>1, <3>3
    <3> QED
      BY <3>1, <3>2, <3>4
  <2> QED
    BY <2>3, <2>4, <2>5
<1>11. Published(ws) = UNION {Held(w) : w \in ws}
  BY <1>10 DEF Published
<1>12. TypeOK'
  <2>1. TypeOK
    BY DEF Inv
  <2>2. releasing' \subseteq [owner : Writers \cup {Collector, Orphan}, units : SUBSET Units]
    <3>1. Batch(Collector, taken) \subseteq [owner : Writers \cup {Collector, Orphan}, units : SUBSET Units]
      BY DEF Batch
    <3> QED
      BY <3>1, <2>1, <1>7 DEF TypeOK
  <2>3. waiting' \in Seq([generation : 0 .. MaxPublishes, units : SUBSET Units])
    BY <1>7 DEF Entry
  <2>4. status' \in {"closed", "open", "publishing", "failed"} /\ retired' \subseteq Units
    BY <2>1, <1>1, <1>2 DEF TypeOK
  <2> QED
    BY <2>1, <2>2, <2>3, <2>4, <1>1, <1>2, <1>4, <1>10 DEF TypeOK, WriterType
<1>13. /\ DOMAIN root' = Published(ws) \cup (DOMAIN root \ gone)
       /\ DOMAIN root \cap Waiting = {} /\ DOMAIN root \cap Releasing = {}
       /\ Waiting \cap Releasing = {} /\ gone \subseteq DOMAIN root
       /\ \A w \in Writers : Held(w) \cap (DOMAIN root \cup Waiting \cup Releasing) = {}
       /\ \A v, w \in Writers : v # w => Held(v) \cap Held(w) = {}
  BY <1>1, <1>3 DEF Inv, Apart
<1>14. /\ Published(ws) \cap (DOMAIN root \cup Waiting \cup Releasing) = {}
       /\ \A w \in Writers : w \notin ws => Held(w) \cap Published(ws) = {}
  BY <1>2, <1>11, <1>13
<1>15. Apart'
  <2>1. (/\ DOMAIN root \cap Waiting = {} /\ DOMAIN root \cap Releasing = {}
         /\ Waiting \cap Releasing = {})'
    BY <1>8, <1>13, <1>14
  <2>2. ASSUME NEW w \in Writers
        PROVE  Held(w)' \cap (DOMAIN root' \cup Waiting' \cup Releasing') = {}
    <3>1. CASE w \in ws
      BY <3>1, <1>10
    <3>2. CASE w \notin ws
      BY <3>2, <1>8, <1>10, <1>13, <1>14
    <3> QED
      BY <3>1, <3>2
  <2>3. (\A v, w \in Writers : v # w => Held(v) \cap Held(w) = {})'
    <3> SUFFICES ASSUME NEW v \in Writers, NEW w \in Writers, v # w
                 PROVE  Held(v)' \cap Held(w)' = {}
      OBVIOUS
    <3>1. CASE v \in ws \/ w \in ws
      BY <3>1, <1>10
    <3>2. CASE v \notin ws /\ w \notin ws
      BY <3>2, <1>10, <1>13
    <3> QED
      BY <3>1, <3>2
  <2>4. (\A i, j \in 1 .. Len(waiting) : i # j => waiting[i].units \cap waiting[j].units = {})'
    BY <1>7 DEF Disjoint
  <2>5. (\A b, c \in releasing : b # c => b.units \cap c.units = {})'
    <3>1. \A b \in releasing : b.units \cap taken = {}
      BY <1>8, <1>13 DEF Releasing
    <3>2. \A b, c \in releasing : b # c => b.units \cap c.units = {}
      BY DEF Inv, Apart
    <3>3. /\ \A b \in releasing' : b \in releasing \/ b.units = taken
          /\ \A b, c \in releasing' : b = c \/ b \in releasing \/ c \in releasing
      BY <1>7, ReleasingDrained
    <3> QED
      BY <3>1, <3>2, <3>3
  <2> QED
    BY <2>1, <2>2, <2>3, <2>4, <2>5 DEF Apart
<1>16. Writing = Writing' \cup Published(ws)
  BY <1>2, <1>10, <1>11 DEF Writing
<1>17. Covered' /\ Retirement'
  BY <1>1, <1>3, <1>8, <1>13, <1>16 DEF Inv, Covered, Retirement
<1>18. Ledger'
  <2>1. (\A q \in Pins : pins[q] = Unpinned \/ pins[q].generation <= generation)'
    <3> SUFFICES ASSUME NEW q \in Pins, pins[q] # Unpinned
                 PROVE  pins[q].generation <= generation + 1
      BY <1>1 DEF next
    <3>1. pins[q].generation <= generation /\ pins[q].generation \in Nat
      BY <1>6 DEF Inv, Ledger, PinType
    <3> QED
      BY <3>1, <1>4
  <2>2. NothingWaitsInVain'
    BY <1>1, <1>7 DEF NothingWaitsInVain
  <2> QED
    BY <2>1, <2>2, <1>1, <1>7 DEF Ledger, Ordered
<1>19. Readable'
  <2>0. Readable
    BY DEF Inv
  <2>1. (DOMAIN previousRoot \subseteq DOMAIN root \cup Recent)'
    BY <1>1, <1>8, <1>13
  <2>2. ASSUME NEW q \in Pins
        PROVE  DOMAIN pins[q].root \subseteq DOMAIN root' \cup PoolAfter(waiting', pins[q].generation)
    <3>1. CASE pins[q] = Unpinned
      BY <3>1, <1>6
    <3>2. CASE pins[q] # Unpinned
      <4>1. pins[q].generation \in 0 .. generation
        BY <3>2, <1>4, <1>6 DEF Inv, Ledger, PinType
      <4>2. DOMAIN pins[q].root \subseteq DOMAIN root \cup PoolAfter(waiting, pins[q].generation)
        BY <2>0 DEF Readable, After, PoolAfter
      <4>3. /\ PoolAfter(waiting, pins[q].generation) \subseteq PoolAfter(entries, pins[q].generation)
            /\ gone \subseteq PoolAfter(entries, pins[q].generation)
        BY <4>1, <1>5
      <4>4. PoolAfter(entries, pins[q].generation) \subseteq PoolAfter(waiting', pins[q].generation)
        BY <1>7
      <4> QED
        BY <4>2, <4>3, <4>4, <1>13
    <3> QED
      BY <3>1, <3>2
  <2>3. (\A p \in Pins : DOMAIN pins[p].root \subseteq DOMAIN root \cup After(pins[p].generation))'
    BY <2>2, <1>1 DEF After, PoolAfter
  <2>4. Intact(root)' /\ Intact(previousRoot)'
    <3>1. Intact(Current.root) /\ Intact(root)
      BY <2>0, <1>4 DEF Inv, Durable, KeptRootsIntact, Current, Readable
    <3> QED
      BY <3>1, <1>1, <1>3 DEF Intact
  <2>5. PinnedIntact'
    BY <2>0, <1>1 DEF Readable, PinnedIntact, Intact
  <2> QED
    BY <2>1, <2>3, <2>4, <2>5 DEF Readable
<1>20. Durable'
  <2>1. KeptRootsIntact'
    BY <1>1 DEF Inv, Durable, KeptRootsIntact, Intact
  <2>2. resolved' <= Current'.sequence
    BY <1>1, <1>4, <1>9
  <2>3. ASSUME NEW a \in 0 .. 1
        PROVE  DOMAIN slots'[a].root \subseteq DOMAIN root' \cup Recent'
    <3>1. slots[a] = Current \/ slots[a] = Previous
      BY SlotFacts DEF Inv, Current, Previous
    <3>2. DOMAIN previousRoot' \subseteq DOMAIN root' \cup Recent'
      BY <1>19 DEF Readable
    <3> QED
      BY <3>1, <3>2, <1>1, <1>3
  <2> QED
    BY <2>1, <2>2, <2>3, <1>1 DEF Inv, Durable
<1>21. Remembered'
  <2>1. generation' <= Current'.sequence
    BY <1>1, <1>3, <1>4, <1>9 DEF next
  <2>2. Current'.root = root' /\ Previous'.root = previousRoot'
    BY <1>1, <1>3, <1>9
  <2>3. status' # "publishing" /\ publishing' = NoPublish
    BY <1>1, <1>3
  <2> QED
    BY <2>1, <2>2, <2>3 DEF Remembered
<1>22. Written'
  <2> SUFFICES ASSUME NEW w \in Writers
               PROVE  Built(w)'
    BY DEF Written
  <2>1. CASE w \in ws
    <3>1. writers'[w] = Gone
      BY <2>1, <1>10
    <3> QED
      BY <3>1, GoneType DEF Built
  <2>2. CASE w \notin ws
    <3>1. writers'[w] = writers[w] /\ data' = data
      BY <2>2, <1>1, <1>10
    <3>2. Built(w)
      BY DEF Inv, Written
    <3> QED
      BY <3>1, <3>2 DEF Built
  <2> QED
    BY <2>1, <2>2
<1>23. Forgotten'
  BY <1>1, <1>3 DEF Forgotten
<1> QED
  BY <1>12, <1>15, <1>17, <1>18, <1>19, <1>20, <1>21, <1>22, <1>23 DEF Inv
-------------------------------------------------------------------------------
(***************************************************************************)
(* Opening, and the ends of a process.                                     *)
(***************************************************************************)
LEMMA OpenKeeps ==
  ASSUME Inv, Open
  PROVE  Inv'
<1> DEFINE cur == Current.root
           prev == Previous.root
           gone == DOMAIN prev \ DOMAIN cur
           e == [generation |-> 0, units |-> gone]
<1>1. /\ status = "closed" /\ opens < MaxOpens /\ opens' = opens + 1 /\ status' = "open"
      /\ root' = cur /\ previousRoot' = prev /\ allocated' = DOMAIN cur \cup DOMAIN prev
      /\ retired' = gone
      /\ waiting' = IF gone = {} THEN << >> ELSE <<e>>
      /\ data' = [u \in Units |-> IF u \in allocated' THEN data[u] ELSE Junk]
      /\ unflushed' = unflushed \cap allocated'
      /\ UNCHANGED <<slots, slotsFlushed, resolved, generation, pins, releasing, writers, publishing>>
  <2>1. retired' = gone
    BY DEF Open
  <2>2. waiting' = IF retired' = {} THEN << >> ELSE <<[generation |-> 0, units |-> retired']>>
    BY DEF Open
  <2> QED
    BY <2>1, <2>2 DEF Open, Specified
<1>2. /\ generation = 0 /\ releasing = {} /\ publishing = NoPublish
      /\ \A p \in Pins : pins[p] = Unpinned
      /\ \A w \in Writers : writers[w].state \in {"new", "gone"}
  BY <1>1 DEF Inv, Forgotten
<1>3. /\ CurrentSlot \in 0 .. 1 /\ 1 - CurrentSlot \in 0 .. 1
      /\ \A a \in 0 .. 1 : a = CurrentSlot \/ a = 1 - CurrentSlot
      /\ Current \in Slots /\ Previous \in Slots
  BY SlotFacts DEF Inv
<1>4. cur \in Roots /\ prev \in Roots /\ Intact(cur) /\ Intact(prev)
  <2>1. cur \in Roots /\ prev \in Roots
    BY <1>3 DEF Slots
  <2> QED
    BY <2>1, <1>3 DEF Inv, Durable, KeptRootsIntact, Current, Previous
<1>5. DOMAIN cur \subseteq Units /\ DOMAIN prev \subseteq Units
  BY <1>4, RootType
<1>6. Current' = Current /\ Previous' = Previous
  BY <1>1 DEF Current, Previous, CurrentSlot
<1> HIDE DEF cur, prev
<1>7. \A u \in DOMAIN cur \cup DOMAIN prev : data'[u] = data[u]
  BY <1>1, <1>5
<1>8. /\ waiting' \in Seq(Entry) /\ Len(waiting') \in 0 .. 1
      /\ \A i \in 1 .. Len(waiting') : waiting'[i].generation = 0
      /\ UNION {waiting'[i].units : i \in 1 .. Len(waiting')} = gone
  <2>1. CASE gone = {}
    <3>1. waiting' = << >>
      BY <2>1, <1>1
    <3> QED
      BY <3>1, <2>1
  <2>2. CASE gone # {}
    <3>1. e \in Entry /\ e.generation = 0 /\ e.units = gone
      <4>1. 0 \in 0 .. MaxPublishes
        BY Constants
      <4> QED
        BY <4>1, <1>5 DEF Entry
    <3> HIDE DEF e, gone
    <3>2. waiting' = <<e>>
      BY <2>2, <1>1
    <3>3. waiting' \in Seq(Entry) /\ Len(waiting') = 1 /\ waiting'[1] = e
      BY <3>1, <3>2
    <3>4. \A i \in 1 .. 1 : i = 1
      OBVIOUS
    <3> QED
      BY <3>1, <3>3, <3>4
  <2> QED
    BY <2>1, <2>2
<1>9. Waiting' = gone /\ Recent' = gone
  <2>1. Waiting' = gone
    BY <1>8 DEF Waiting
  <2>2. {j \in 1 .. Len(waiting') : waiting'[j].generation >= generation'} = 1 .. Len(waiting')
    BY <1>1, <1>2, <1>8
  <2>3. Recent' = UNION {waiting'[i].units : i \in 1 .. Len(waiting')}
    BY <2>2 DEF Recent
  <2> QED
    BY <2>1, <2>3, <1>8
<1>10. /\ \A w \in Writers : Held(w) = {} /\ Held(w)' = {} /\ Built(w)'
       /\ Writing' = {} /\ Releasing' = {} /\ Collected' = {}
  <2>1. ASSUME NEW w \in Writers
        PROVE  Held(w) = {} /\ Held(w)' = {} /\ Built(w)'
    <3>1. /\ Built(w) /\ writers[w] \in WriterType
          /\ Held(w) = {writers[w].reserved[i] : i \in 1 .. Len(writers[w].reserved)}
                         \cup writers[w].extent
      BY WriterFacts
    <3>2. /\ writers[w].reserved = << >> /\ writers[w].extent = {} /\ writers[w].call = "none"
          /\ ~writers[w].failed
      BY <3>1, <1>2 DEF Built
    <3>3. writers[w].written = 0
      BY <3>1, <3>2 DEF Built, WriterType
    <3>4. Held(w) = {}
      BY <3>1, <3>2
    <3>5. writers'[w] = writers[w] /\ Held(w)' = Held(w)
      BY <1>1 DEF Held
    <3> QED
      BY <3>2, <3>3, <3>4, <3>5 DEF Built
  <2> QED
    BY <2>1, <1>1, <1>2 DEF Writing, Releasing, Collected
<1>11. TypeOK'
  <2>1. TypeOK
    BY DEF Inv
  <2>2. waiting' \in Seq([generation : 0 .. MaxPublishes, units : SUBSET Units])
    BY <1>8 DEF Entry
  <2>3. data' \in [Units -> Writers \cup {Junk}]
    BY <2>1, <1>1 DEF TypeOK
  <2>4. opens' \in 0 .. MaxOpens
    BY <2>1, <1>1, Constants DEF TypeOK
  <2> QED
    BY <2>1, <2>2, <2>3, <2>4, <1>1, <1>4, <1>5 DEF TypeOK
<1>12. Apart'
  <2>1. (\A i, j \in 1 .. Len(waiting) : i # j => waiting[i].units \cap waiting[j].units = {})'
    BY <1>8
  <2> QED
    BY <2>1, <1>1, <1>2, <1>9, <1>10 DEF Apart
<1>13. Covered' /\ Retirement'
  BY <1>1, <1>9, <1>10 DEF Covered, Retirement
<1>14. Ledger'
  BY <1>1, <1>2, <1>8 DEF Ledger, NothingWaitsInVain
<1>15. Readable'
  <2>1. (\A p \in Pins : DOMAIN pins[p].root \subseteq DOMAIN root \cup After(pins[p].generation))'
        /\ PinnedIntact'
    <3>1. \A p \in Pins : DOMAIN pins'[p].root = {}
      BY <1>1, <1>2, PinFacts DEF Inv
    <3> QED
      BY <3>1 DEF PinnedIntact, Intact
  <2>2. Intact(root)' /\ Intact(previousRoot)'
    BY <1>1, <1>4, <1>7 DEF Intact
  <2> QED
    BY <2>1, <2>2, <1>1, <1>9 DEF Readable
<1>16. Durable'
  <2>1. \A a \in 0 .. 1 : slots[a].root = cur \/ slots[a].root = prev
    BY <1>3 DEF cur, prev, Current, Previous
  <2>2. ASSUME NEW a \in 0 .. 1
        PROVE  /\ Intact(slots[a].root)' /\ DOMAIN slots'[a].root \cap unflushed' = {}
               /\ DOMAIN slots'[a].root \subseteq DOMAIN root' \cup Recent'
    <3>1. Intact(slots[a].root)'
      BY <2>1, <1>1, <1>4, <1>7 DEF Intact
    <3>2. DOMAIN slots[a].root \cap unflushed = {}
      BY DEF Inv, Durable
    <3> QED
      BY <3>1, <3>2, <2>1, <1>1, <1>9
  <2> QED
    BY <2>2, <1>1, <1>6 DEF Inv, Durable, KeptRootsIntact
<1>17. Remembered'
  <2>1. generation' <= Current'.sequence
    BY <1>1, <1>2, <1>3, <1>6 DEF Slots
  <2> QED
    BY <2>1, <1>1, <1>2, <1>6 DEF Remembered, cur, prev
<1>18. Written' /\ Forgotten'
  BY <1>1, <1>10 DEF Written, Forgotten
<1> QED
  BY <1>11, <1>12, <1>13, <1>14, <1>15, <1>16, <1>17, <1>18 DEF Inv

(* A process that ended remembers nothing; what holds of the disk goes on holding. *)
LEMMA ForgetKeeps ==
  ASSUME Inv, Forget, Durable',
         data' \in [Units -> Writers \cup {Junk}], unflushed' \subseteq Units,
         slots' \in [0 .. 1 -> Slots], slotsFlushed' \in [0 .. 1 -> Slots],
         resolved' = resolved, opens' = opens
  PROVE  Inv'
<1>1. /\ status' = "closed" /\ root' = NoRoot /\ previousRoot' = NoRoot
      /\ allocated' = {} /\ retired' = {} /\ generation' = 0 /\ waiting' = << >>
      /\ pins' = [p \in Pins |-> Unpinned] /\ releasing' = {} /\ publishing' = NoPublish
      /\ writers' = [w \in Writers |-> IF writers[w].state = "new" THEN NewWriter ELSE Gone]
  BY DEF Forget, Gone
<1>2. /\ NewWriter \in WriterType /\ Gone \in WriterType
      /\ NewWriter.state = "new" /\ Gone.state = "gone"
      /\ \A s \in {NewWriter, Gone} :
           s.call = "none" /\ s.reserved = << >> /\ s.written = 0 /\ s.extent = {} /\ s.failed = FALSE
  BY GoneType
<1>3. \A w \in Writers : writers'[w] \in {NewWriter, Gone}
  BY <1>1
<1>4. ASSUME NEW w \in Writers
      PROVE  Held(w)' = {} /\ Built(w)' /\ writers'[w].state \in {"new", "gone"}
  <2>1. Held(w)' = {}
    <3>1. writers'[w] \in WriterType /\ writers'[w].reserved = << >> /\ writers'[w].extent = {}
      BY <1>2, <1>3
    <3>2. Held(w)' = {writers'[w].reserved[i] : i \in 1 .. Len(writers'[w].reserved)}
                       \cup writers'[w].extent
      BY <3>1, HeldAfter
    <3> QED
      BY <3>1, <3>2
  <2>2. Built(w)'
    BY <1>2, <1>3 DEF Built
  <2> QED
    BY <2>1, <2>2, <1>2, <1>3
<1>5. NoRoot \in Roots /\ DOMAIN NoRoot = {} /\ MaxPublishes \in Nat
  BY Constants
<1>6. Unpinned \in PinType /\ DOMAIN Unpinned.root = {}
  BY PinFacts DEF Inv
<1>7. /\ Waiting' = {} /\ Releasing' = {} /\ Collected' = {} /\ Writing' = {} /\ Recent' = {}
  BY <1>1, <1>4 DEF Waiting, Releasing, Collected, Writing, Recent
<1>8. TypeOK'
  <2>1. TypeOK
    BY DEF Inv
  <2>2. writers' \in [Writers -> WriterType] /\ pins' \in [Pins -> PinType]
    BY <1>1, <1>2, <1>6
  <2>3. << >> \in Seq([generation : 0 .. MaxPublishes, units : SUBSET Units])
    OBVIOUS
  <2> QED
    BY <2>1, <2>2, <2>3, <1>1, <1>5 DEF TypeOK, WriterType, PinType
<1>9. Apart' /\ Covered' /\ Retirement'
  BY <1>1, <1>4, <1>5, <1>7 DEF Apart, Covered, Retirement
<1>10. Ledger'
  BY <1>1 DEF Ledger, NothingWaitsInVain
<1>11. Readable'
  BY <1>1, <1>5, <1>6 DEF Readable, PinnedIntact, Intact
<1>12. Remembered' /\ Written' /\ Forgotten'
  BY <1>1, <1>4 DEF Remembered, Written, Forgotten
<1> QED
  BY <1>8, <1>9, <1>10, <1>11, <1>12 DEF Inv

(* close, and a kill. *)
LEMMA LeaveKeeps ==
  ASSUME Inv, Leave
  PROVE  Inv'
<1>1. Forget /\ UNCHANGED disk
  BY DEF Leave
<1>2. Durable'
  <2>1. status' = "closed"
    BY <1>1 DEF Forget
  <2> QED
    BY <2>1, <1>1 DEF Inv, Durable, KeptRootsIntact, Intact, Current, CurrentSlot, disk
<1> QED
  BY <1>1, <1>2, ForgetKeeps DEF Inv, TypeOK, disk

(* A power failure loses what was not flushed, which no slot reaches. *)
LEMMA PowerFailsKeeps ==
  ASSUME Inv, PowerFails
  PROVE  Inv'
<1>1. /\ data' = [u \in Units |-> IF u \in unflushed THEN Junk ELSE data[u]] /\ unflushed' = {}
      /\ slots' \in Survivors(slots) /\ slotsFlushed' = slots'
      /\ Forget /\ UNCHANGED <<resolved, opens>>
  BY DEF PowerFails
<1>2. slots = slotsFlushed /\ slots \in [0 .. 1 -> Slots]
  BY DEF Inv, Durable, TypeOK
<1>3. slots' = slots
  <2>1. slots'[0] = slots[0] /\ slots'[1] = slots[1] /\ slots' = [a \in 0 .. 1 |-> slots'[a]]
    BY <1>1, <1>2 DEF Survivors
  <2>2. \A a \in 0 .. 1 : a = 0 \/ a = 1
    OBVIOUS
  <2> QED
    BY <2>1, <2>2, <1>2
<1>4. Durable'
  <2>1. status' = "closed"
    BY <1>1 DEF Forget
  <2>2. ASSUME NEW a \in 0 .. 1
        PROVE  Intact(slots[a].root)'
    <3>1. Intact(slots[a].root) /\ DOMAIN slots[a].root \cap unflushed = {}
      BY DEF Inv, Durable, KeptRootsIntact
    <3>2. DOMAIN slots[a].root \subseteq Units
      <4>1. slots[a].root \in Roots
        BY <1>2 DEF Slots
      <4> QED
        BY <4>1, RootType
    <3> QED
      BY <3>1, <3>2, <1>1, <1>3 DEF Intact
  <2>3. Current' = Current
    BY <1>3 DEF Current, CurrentSlot
  <2> QED
    BY <2>1, <2>2, <2>3, <1>1, <1>3 DEF Inv, Durable, KeptRootsIntact
<1>5. data' \in [Units -> Writers \cup {Junk}]
  BY <1>1 DEF Inv, TypeOK
<1> QED
  BY <1>1, <1>2, <1>3, <1>4, <1>5, ForgetKeeps

(* One in a publish leaves the slot that was current whole. *)
LEMMA PowerFailsInPublishKeeps ==
  ASSUME Inv, NEW ws \in SUBSET Writers, NEW gone, PowerFailsInPublish(ws, gone)
  PROVE  Inv'
<1> DEFINE x == NextRootSlot(ws, gone)
           written == [slots EXCEPT ![NextSlot] = x]
<1>1. /\ Publishable(ws, gone) /\ unflushed' = {}
      /\ slots' \in Survivors(written) /\ slotsFlushed' = slots'
      /\ Forget /\ UNCHANGED <<data, resolved, opens>>
  BY DEF PowerFailsInPublish
<1>2. slots = slotsFlushed /\ slots \in [0 .. 1 -> Slots] /\ KeptRootsIntact
      /\ resolved <= Current.sequence
  BY DEF Inv, Durable, TypeOK
<1>3. x \in Slots /\ Intact(x.root)
  <2>1. x \in Slots /\ x.root = NextRoot(ws, gone) /\ Intact(NextRoot(ws, gone))
    BY <1>1, NextRootFacts
  <2> QED
    BY <2>1 DEF Intact
<1>4. /\ CurrentSlot \in 0 .. 1 /\ NextSlot # CurrentSlot /\ NextSlot \in 0 .. 1
      /\ \A a \in 0 .. 1 : a = CurrentSlot \/ a = NextSlot
  BY SlotFacts DEF Inv
<1> HIDE DEF x
<1>5. /\ slots' = [a \in 0 .. 1 |-> slots'[a]]
      /\ \A a \in 0 .. 1 : slots'[a] \in {written[a], slots[a]} \cup
                             (IF written[a] = slots[a] THEN {} ELSE {Torn})
  <2>1. \A a \in 0 .. 1 : a = 0 \/ a = 1
    OBVIOUS
  <2>2. PICK first \in {written[0], slots[0]} \cup (IF written[0] = slots[0] THEN {} ELSE {Torn}),
             second \in {written[1], slots[1]} \cup (IF written[1] = slots[1] THEN {} ELSE {Torn}) :
          slots' = [a \in 0 .. 1 |-> IF a = 0 THEN first ELSE second]
    BY <1>1, <1>2 DEF Survivors
  <2> QED
    BY <2>1, <2>2
<1>6. slots'[CurrentSlot] = Current
  <2>1. written[CurrentSlot] = slots[CurrentSlot]
    BY <1>2, <1>4
  <2> QED
    BY <2>1, <1>4, <1>5 DEF Current
<1>7. slots'[NextSlot] \in {x, slots[NextSlot], Torn}
  <2>1. written[NextSlot] = x
    BY <1>2, <1>4
  <2> QED
    BY <2>1, <1>4, <1>5
<1>8. Torn \in Slots /\ Intact(Torn.root)
  BY Constants DEF Torn, Slots, Intact
<1>9. \A a \in 0 .. 1 : slots'[a] \in Slots /\ Intact(slots'[a].root)
  <2>1. \A a \in 0 .. 1 : slots[a] \in Slots /\ Intact(slots[a].root)
    BY <1>2 DEF KeptRootsIntact
  <2> QED
    BY <2>1, <1>3, <1>4, <1>6, <1>7, <1>8 DEF Current
<1>10. slots' \in [0 .. 1 -> Slots]
  BY <1>5, <1>9
<1>11. resolved' <= Current'.sequence
  <2>1. \A s \in Slots : s.sequence \in Nat
    BY DEF Slots
  <2>2. slots'[0].sequence \in Nat /\ slots'[1].sequence \in Nat /\ resolved \in Nat
        /\ Current.sequence \in Nat
    BY <2>1, <1>9, SlotFacts DEF Inv, TypeOK
  <2>3. slots'[0].sequence <= Current'.sequence /\ slots'[1].sequence <= Current'.sequence
        /\ Current'.sequence \in Nat
    BY <2>2 DEF Current, CurrentSlot
  <2>4. Current.sequence <= Current'.sequence
    BY <2>3, <1>4, <1>6
  <2> QED
    BY <2>2, <2>3, <2>4, <1>1, <1>2
<1>12. Durable'
  <2>1. status' = "closed"
    BY <1>1 DEF Forget
  <2>2. KeptRootsIntact'
    BY <1>1, <1>9 DEF KeptRootsIntact, Intact
  <2> QED
    BY <2>1, <2>2, <1>1, <1>11 DEF Durable
<1>13. data' \in [Units -> Writers \cup {Junk}]
  BY <1>1 DEF Inv, TypeOK
<1> QED
  BY <1>1, <1>10, <1>12, <1>13, ForgetKeeps
-------------------------------------------------------------------------------
(***************************************************************************)
(* The theorems.                                                           *)
(***************************************************************************)
LEMMA InitInv == Init => Inv
<1> SUFFICES ASSUME Init
             PROVE  Inv
  OBVIOUS
<1> USE DEF Init
<1>1. /\ NewWriter \in WriterType /\ NewWriter.state = "new"
      /\ NewWriter.call = "none" /\ NewWriter.reserved = << >> /\ NewWriter.written = 0
      /\ NewWriter.extent = {} /\ NewWriter.failed = FALSE
  BY GoneType
<1>2. /\ NoRoot \in Roots /\ DOMAIN NoRoot = {} /\ MaxPublishes \in Nat /\ MaxOpens \in Nat
      /\ Unpinned \in PinType /\ Unpinned.root = NoRoot
  <2>1. NoRoot \in Roots /\ DOMAIN NoRoot = {} /\ MaxPublishes \in Nat /\ MaxOpens \in Nat
    BY Constants
  <2>2. MaxPublishes + 1 \in 0 .. MaxPublishes + 1
    BY <2>1
  <2> QED
    BY <2>1, <2>2 DEF Unpinned, PinType
<1>3. Torn \in Slots /\ Torn.sequence = 0 /\ Torn.root = NoRoot
  BY <1>2 DEF Torn, Slots
<1>4. \A w \in Writers : Held(w) = {} /\ Built(w) /\ writers[w].state = "new"
  BY <1>1 DEF Held, Range, Built
<1>5. Waiting = {} /\ Releasing = {} /\ Collected = {} /\ Writing = {} /\ Recent = {}
  BY <1>4 DEF Waiting, Releasing, Collected, Writing, Recent
<1>6. slots \in [0 .. 1 -> Slots] /\ \A a \in 0 .. 1 : slots[a] = Torn
  BY <1>3
<1>7. TypeOK
  <2>1. << >> \in Seq([generation : 0 .. MaxPublishes, units : SUBSET Units])
    OBVIOUS
  <2>2. writers \in [Writers -> WriterType] /\ pins \in [Pins -> PinType]
    BY <1>1, <1>2
  <2> QED
    BY <2>1, <2>2, <1>2, <1>6 DEF TypeOK, WriterType, PinType
<1>8. Apart /\ Covered /\ Retirement
  BY <1>2, <1>4, <1>5 DEF Apart, Covered, Retirement
<1>9. Ledger
  BY DEF Ledger, NothingWaitsInVain
<1>10. Readable
  BY <1>2 DEF Readable, PinnedIntact, Intact
<1>11. Durable
  <2>1. Current = Torn
    BY <1>6 DEF Current, CurrentSlot
  <2> QED
    BY <2>1, <1>2, <1>3, <1>6 DEF Durable, KeptRootsIntact, Intact
<1>12. Remembered /\ Written /\ Forgotten
  BY <1>4 DEF Remembered, Written, Forgotten
<1> QED
  BY <1>7, <1>8, <1>9, <1>10, <1>11, <1>12 DEF Inv

(* One step per action of Next. *)
LEMMA InvStep == Inv /\ [Next]_vars => Inv'
<1> SUFFICES ASSUME Inv, [Next]_vars
             PROVE  Inv'
  OBVIOUS
<1>1. CASE Open
  BY <1>1, OpenKeeps
<1>2. CASE Leave
  BY <1>2, LeaveKeeps
<1>3. CASE PowerFails
  BY <1>3, PowerFailsKeeps
<1>4. CASE PublishDone
  BY <1>4, PublishDoneKeeps
<1>5. CASE \E batch \in releasing : FreeDone(batch) \/ FreeFails(batch)
  BY <1>5, FreeDoneKeeps, FreeFailsKeeps
<1>6. CASE \E p \in Pins : Pin(p) \/ Release(p)
  BY <1>6, PinKeeps, ReleaseKeeps
<1>7. CASE \E w \in Writers : WriterStep(w)
  BY <1>7, WriterStepKeeps
<1>8. CASE \E ws \in SUBSET Writers, dropped \in SUBSET Range(root) :
             PublishStep(ws, Extents(dropped))
  BY <1>8, PublishKeeps, PublishFailsKeeps, PowerFailsInPublishKeeps DEF PublishStep
<1>9. CASE UNCHANGED vars
  <2>1. /\ UNCHANGED <<data, unflushed, slots, slotsFlushed, resolved, opens, status, root,
                       previousRoot, allocated, retired, generation, waiting, pins, releasing,
                       writers, publishing>>
    BY <1>9 DEF vars, disk, ledger
  <2>2. /\ Waiting' = Waiting /\ Releasing' = Releasing /\ Collected' = Collected
        /\ Writing' = Writing /\ Recent' = Recent /\ Sealed' = Sealed
        /\ (\A g : After(g)' = After(g)) /\ \A w \in Writers : Held(w)' = Held(w)
        /\ Current' = Current /\ Previous' = Previous
    BY <2>1 DEF Waiting, Releasing, Collected, Writing, Recent, Sealed, After, Held, Current,
                Previous, CurrentSlot
  <2>3. TypeOK' /\ Forgotten'
    BY <2>1 DEF Inv, TypeOK, Forgotten
  <2>4. Apart' /\ Covered' /\ Retirement'
    BY <2>1, <2>2 DEF Inv, Apart, Covered, Retirement
  <2>5. Ledger' /\ Readable'
    BY <2>1, <2>2 DEF Inv, Ledger, NothingWaitsInVain, Readable, Intact, PinnedIntact
  <2>6. Durable' /\ Remembered'
    BY <2>1, <2>2 DEF Inv, Durable, KeptRootsIntact, Intact, Remembered, Published
  <2>7. Written'
    BY <2>1 DEF Inv, Written, Built
  <2> QED
    BY <2>3, <2>4, <2>5, <2>6, <2>7 DEF Inv
<1> QED
  BY <1>1, <1>2, <1>3, <1>4, <1>5, <1>6, <1>7, <1>8, <1>9 DEF Next

(* The invariant holds, and the state of the space is well formed with it. *)
THEOREM SpaceInv == Spec => []Inv
BY InitInv, InvStep, PTL DEF Spec

(* The state of a space stays well formed (space.ts, free-space.ts, reclaim.ts). *)
THEOREM TypeCorrect == Spec => []TypeOK
<1>1. Inv => TypeOK
  BY DEF Inv
<1> QED
  BY <1>1, SpaceInv, PTL

(* Both roots the slots hold read back whole, at any time and after any end *)
(* of a process: what a kept root reaches is in the current root, waits in  *)
(* an entry of this generation or is sealed, so free never gets it, and it  *)
(* was flushed before the slot (space.ts publish, reclaim.ts).              *)
THEOREM RootsStayIntact == Spec => []KeptRootsIntact
<1>1. Inv => KeptRootsIntact
  BY DEF Inv, Durable
<1> QED
  BY <1>1, SpaceInv, PTL

(* The root a reopen finds is at least as new as the last publish that      *)
(* resolved (space.ts publish, root-slot.ts chooseRoot).                    *)
THEOREM ResolvedStays == Spec => []ResolvedSurvives
<1>1. Inv => ResolvedSurvives
  <2> SUFFICES ASSUME Inv
               PROVE  ResolvedSurvives
    OBVIOUS
  <2>1. resolved <= Current.sequence /\ resolved \in Nat /\ Current.sequence \in Nat
    BY SlotFacts DEF Inv, Durable, TypeOK, Slots
  <2> QED
    BY <2>1 DEF ResolvedSurvives
<1> QED
  BY <1>1, SpaceInv, PTL

(* What a pin reads stays readable until it is released: it is in the       *)
(* current root or waits in an entry newer than the pin (reclaim.ts drain). *)
THEOREM PinnedStays == Spec => []PinnedIntact
<1>1. Inv => PinnedIntact
  BY DEF Inv, Readable
<1> QED
  BY <1>1, SpaceInv, PTL

(* Nothing waits in the ledger that may be reused (reclaim.ts drain). *)
THEOREM NothingStranded == Spec => []NothingWaitsInVain
<1>1. Inv => NothingWaitsInVain
  BY DEF Inv, Ledger
<1> QED
  BY <1>1, SpaceInv, PTL

(* The contract's accounting holds in every open space, in the middle of a  *)
(* relocation and after a failed one too: every allocated unit has exactly *)
(* one holder, and what only the previous root reaches is retired.  It says *)
(* nothing of #auditNow in space.ts, which counts fewer holders.            *)
THEOREM SpaceAlwaysAccounted == Spec => []SpaceAccounted
<1>1. Inv => SpaceAccounted
  <2> SUFFICES ASSUME Inv, status = "open"
               PROVE  SpaceAccounted
    BY DEF SpaceAccounted
  <2> DEFINE loose == UNION {b.units : b \in {c \in releasing : c.owner # Collector}}
             parts == <<DOMAIN root, retired, loose>>
             accounted == UNION (Range(parts) \cup {Held(w) : w \in Writers})
  <2>1. Releasing = Collected \cup loose /\ Collected \cap loose = {}
    <3>1. \A b, c \in releasing : b # c => b.units \cap c.units = {}
      BY DEF Inv, Apart
    <3>2. Collected \cap loose = {}
      BY <3>1 DEF Collected
    <3> QED
      BY <3>2 DEF Releasing, Collected
  <2>2. retired = Waiting \cup Collected
    BY DEF Inv, Retirement
  <2>3. /\ DOMAIN root \cap Waiting = {} /\ DOMAIN root \cap Releasing = {}
        /\ Waiting \cap Releasing = {}
        /\ \A w \in Writers : Held(w) \cap (DOMAIN root \cup Waiting \cup Releasing) = {}
        /\ \A v, w \in Writers : v # w => Held(v) \cap Held(w) = {}
    BY DEF Inv, Apart
  <2>4. allocated = DOMAIN root \cup Waiting \cup Releasing \cup Writing
    BY DEF Inv, Covered
  <2>5. DOMAIN previousRoot \ DOMAIN root \subseteq retired
    BY <2>2, HeldAllocated DEF Inv, Readable
  <2> HIDE DEF loose
  <2>6. Range(parts) = {DOMAIN root, retired, loose}
    <3>1. DOMAIN parts = 1 .. 3 /\ parts[1] = DOMAIN root /\ parts[2] = retired /\ parts[3] = loose
      OBVIOUS
    <3>2. \A i \in 1 .. 3 : i = 1 \/ i = 2 \/ i = 3
      OBVIOUS
    <3>3. 1 \in 1 .. 3 /\ 2 \in 1 .. 3 /\ 3 \in 1 .. 3
      OBVIOUS
    <3> HIDE DEF parts
    <3> QED
      BY <3>1, <3>2, <3>3 DEF Range
  <2>7. allocated = accounted
    BY <2>1, <2>2, <2>4, <2>6 DEF Writing
  <2>8. /\ DOMAIN root \cap retired = {} /\ DOMAIN root \cap loose = {} /\ retired \cap loose = {}
    BY <2>1, <2>2, <2>3
  <2>9. \A i, j \in 1 .. 3 : i # j => parts[i] \cap parts[j] = {}
    <3>1. \A i \in 1 .. 3 : i = 1 \/ i = 2 \/ i = 3
      OBVIOUS
    <3>2. parts[1] = DOMAIN root /\ parts[2] = retired /\ parts[3] = loose
      OBVIOUS
    <3> HIDE DEF parts
    <3> QED
      BY <3>1, <3>2, <2>8
  <2>10. \A w \in Writers :
             /\ Held(w) \cap UNION Range(parts) = {}
             /\ \A v \in Writers \ {w} : Held(v) \cap Held(w) = {}
    BY <2>1, <2>2, <2>3, <2>6
  <2> QED
    BY <2>5, <2>7, <2>9, <2>10 DEF SpaceAccounted, loose
<1> QED
  BY <1>1, SpaceInv, PTL
================================================================================
