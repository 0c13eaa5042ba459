--------------------------- MODULE LiveQueriesProofs ---------------------------
(***************************************************************************)
(* Proofs about LiveQueries for any statements, tables and subscribers,    *)
(* any number of commits, schema changes and failures, and any schema, for *)
(* casts in which the subscribers of a statement are of one kind.          *)
(***************************************************************************)
EXTENDS LiveQueries, TLAPS

(* The result subscribers of a statement and its observers never meet. *)
OneKind ==
    \A cast \in Casts : \A s \in cast \ Observers, o \in cast \cap Observers : QueryOf[s] # QueryOf[o]

(***************************************************************************)
(* Moments, as functions of a history and an epoch.                        *)
(***************************************************************************)
Commits == [table : Tables, shows : BOOLEAN, epoch : Nat]
Sweeps == [pc : {"idle", "planning", "next", "resolving", "waiting"}, last : Probes \cup {None},
           current : Probes \cup {None}, todo : SUBSET Queries, at : Queries \cup {None},
           before : Probes \cup {None},
           pending : SUBSET [to : Subscribers, result : Results \cup {None}, base : Results \cup {None}]]
Subs == [pc : {"new", "joining", "closed"} \cup Attached, fresh : BOOLEAN, delivered : BOOLEAN,
         seenDelivery : Int, behind : {"none", "queued", "running"}]
Receipts == [result : Results \cup {None}, told : Probes \cup {None}, adrift : BOOLEAN, reflects : BOOLEAN,
             fits : BOOLEAN]

(* The epochs of a history do not go back, nor beyond the present one. *)
Timeline(h, e) ==
    /\ h \in Seq(Commits) /\ e \in Nat
    /\ \A i, j \in 1 .. Len(h) : i <= j => h[i].epoch <= h[j].epoch
    /\ \A i \in 1 .. Len(h) : h[i].epoch <= e

(* A moment of this history. *)
Moment(h, e, m) ==
    /\ m \in Probes /\ m.version <= Len(h) /\ m.epoch <= e
    /\ m.version # 0 => h[m.version].epoch <= m.epoch
    /\ m.version # Len(h) => m.epoch <= h[m.version + 1].epoch

AtLeast(m, p) == m.version >= p.version /\ m.epoch >= p.epoch

Shown(h, tables, after, until) == {v \in after + 1 .. until : h[v].shows /\ h[v].table \in tables}
At(h, q, m) == [tables |-> Reads[m.epoch][q], rows |-> Shown(h, Reads[m.epoch][q], 0, m.version)]

(* A result of q that some moment since the probe gives. *)
Mirrors(h, e, q, result, probe) ==
    \E m \in [version : 0 .. Len(h), epoch : 0 .. e] :
        Moment(h, e, m) /\ AtLeast(m, probe) /\ result = At(h, q, m)

(* What is known of q at a is as good as known at b: nothing that q shows came between. *)
Carries(h, q, a, b) ==
    \/ AtLeast(a, b)
    \/ /\ a.version <= b.version /\ a.epoch = b.epoch
       /\ Shown(h, Reads[b.epoch][q], a.version, b.version) = {}

(***************************************************************************)
(* The invariant.                                                          *)
(***************************************************************************)
Types ==
    /\ history \in Seq(Commits) /\ epoch \in 0 .. MaxEpoch
    /\ groups \in [Queries -> Groups \cup {None}] /\ opening \in [Queries -> Probes \cup {None}]
    /\ lagging \subseteq Queries /\ lastProbe \in Probes \cup {None}
    /\ sweepQueued \in BOOLEAN /\ retryTimer \in BOOLEAN
    /\ sweep \in Sweeps /\ sub \in [Subscribers -> Subs] /\ got \in [Subscribers -> Receipts]
    /\ missed \subseteq Subscribers /\ faults \in Nat

(* The store only goes forward. *)
Story ==
    /\ Timeline(history, epoch)
    /\ lastProbe # None => Moment(history, epoch, lastProbe)
    /\ sweep.pc # "idle" => Moment(history, epoch, sweep.current)

(* A statement that results are delivered of.  No observer meets it. *)
Asked(q) == \E s \in Subscribers \ Observers : QueryOf[s] = q /\ sub[s].pc # "closed"

(* Who is there. *)
Cast ==
    /\ \A s \in Subscribers \ Observers, o \in Observers :
          QueryOf[s] = QueryOf[o] => sub[s].pc = "closed" \/ sub[o].pc = "closed"
    /\ \A s \in Subscribers : sub[s].pc \in Attached => groups[QueryOf[s]] # None
    /\ \A q \in lagging : groups[q] # None
    /\ \A q \in Queries :
          /\ groups[q] # None => In(sub, q) # {} /\ lastProbe # None
          /\ opening[q] # None => groups[q] = None /\ \E s \in Subscribers : QueryOf[s] = q /\ sub[s].pc = "joining"

(* Where the sweep is. *)
Course ==
    /\ sweep.pc = "idle" => sweep = IdleSweep
    /\ sweep.pc # "idle" => sweep.last = lastProbe /\ lastProbe # None /\ AtLeast(sweep.current, lastProbe)
    /\ sweep.pc = "planning" =>
          sweep.todo = {} /\ sweep.pending = {} /\ sweep.last.epoch = sweep.current.epoch
    /\ sweep.pc = "resolving" => sweep.before # None
    /\ sweep.at # None <=> sweep.pc \in {"resolving", "waiting"}
    /\ sweep.at # None => groups[sweep.at] # None /\ sweep.at \notin sweep.todo
    /\ \A q \in sweep.todo : groups[q] # None

(* A group is maintained from a result, and patched for the sweep that waits. *)
Patches(q, g, sw) ==
    /\ g.maintained => g.result # None
    /\ g.execution # None /\ g.execution.phase = "patching" =>
          g.result # None /\ sw.pc = "waiting" /\ sw.at = q

Patched == \A q \in Queries : groups[q] # None => Patches(q, groups[q], sweep)

(* What a group knows. *)
Knows(q, g, h, e) ==
    /\ Moment(h, e, g.seenProbe)
    /\ g.result # None => g.adrift \/ Mirrors(h, e, q, g.result, g.seenProbe)
    /\ g.dependencies = Reads[g.seenProbe.epoch][q] \/ g.seenProbe.epoch < e

(* A patch continues the result from the moment its window begins. *)
Continues(q, g, h, e) ==
    LET x == g.execution
        prior == [version |-> x.after, epoch |-> x.probe.epoch] IN
    /\ x.after <= x.probe.version /\ g.dependencies = Reads[x.probe.epoch][q]
    /\ Moment(h, e, prior)
    /\ g.adrift \/ Mirrors(h, e, q, g.result, prior)

(* Its execution: for the sweep that waits, or the first. *)
Executes(q, g, h, e, sw) ==
    IF sw.pc = "waiting" /\ sw.at = q
    THEN /\ g.execution # None /\ g.execution.phase \in {"running", "patching"}
         /\ g.execution.probe = sw.current
         /\ g.adrift \/ AtLeast(sw.current, g.seenProbe)
         /\ g.dependencies = Reads[sw.current.epoch][q] \/ sw.current.epoch < e
         /\ g.execution.phase = "patching" => Continues(q, g, h, e)
    ELSE g.execution # None =>
         /\ g.execution.phase = "running" /\ g.result = None
         /\ Moment(h, e, g.execution.probe) /\ Carries(h, q, g.execution.probe, g.seenProbe)

(* What it knows is good at the last sweep's probe, and at this one's once it is passed. *)
Keeps(q, g, h, late, last, sw) ==
    /\ ~late /\ q # sw.at => Carries(h, q, g.seenProbe, last)
    /\ sw.pc = "planning" \/ q \in sw.todo =>
          g.dependencies = Reads[g.seenProbe.epoch][q] \/ g.seenProbe.epoch < sw.current.epoch
    /\ sw.pc \notin {"idle", "planning"} /\ ~late /\ q \notin sw.todo /\ q # sw.at =>
          Carries(h, q, g.seenProbe, sw.current)

Fine(q, g, h, e, late, last, sw) == Knows(q, g, h, e) /\ Executes(q, g, h, e, sw) /\ Keeps(q, g, h, late, last, sw)

Known ==
    \A q \in Queries : Asked(q) /\ groups[q] # None =>
        Fine(q, groups[q], history, epoch, q \in lagging, lastProbe, sweep)

(* A result subscriber, its group and what it was handed. *)
Follows(d, g, have) ==
    /\ d.pc \in Attached =>
          /\ d.pc = "executing" => g.execution # None /\ g.result = None
          /\ d.pc \in {"refreshing", "live"} => g.result # None
          /\ d.seenDelivery <= g.deliveries
          /\ d.seenDelivery # -1 => g.result # None
          /\ d.seenDelivery = g.deliveries => have.result = g.result
    /\ d.pc \in {"new", "joining"} => d.seenDelivery = -1

(* What a sweep still has to deliver to a subscriber of q. *)
Due(p, q, d, g, have, sw) ==
    /\ d.pc \in Attached /\ q \notin sw.todo /\ q # sw.at
    /\ g.execution = None /\ g.result # None /\ g.result = p.result /\ g.seenProbe = sw.current
    /\ d.seenDelivery = g.deliveries - 1 => p.base \in {None, have.result}

Awaits(s, q, d, g, have, sw) ==
    d.pc # "closed" => \A p \in sw.pending : p.to = s => Due(p, q, d, g, have, sw)

Delivers ==
    \A s \in Subscribers \ Observers :
        /\ Follows(sub[s], groups[QueryOf[s]], got[s])
        /\ Awaits(s, QueryOf[s], sub[s], groups[QueryOf[s]], got[s], sweep)

(* The inductive invariant. *)
Inv == Types /\ Story /\ Cast /\ Course /\ Patched /\ Known /\ Delivers /\ DeliveryTrue /\ MapsFit
-------------------------------------------------------------------------------
(***************************************************************************)
(* Histories and moments.                                                  *)
(***************************************************************************)
(* What lies between two moments of a history keeps their order. *)
LEMMA Chain ==
  ASSUME NEW h, NEW e, Timeline(h, e), NEW a, NEW b,
         Moment(h, e, a), Moment(h, e, b), a.version < b.version
  PROVE  a.epoch <= b.epoch
<1>1. a.version \in Nat /\ b.version \in Nat /\ a.epoch \in Nat /\ b.epoch \in Nat /\ Len(h) \in Nat
  BY DEF Moment, Probes, Timeline
<1>2. a.version + 1 \in 1 .. Len(h) /\ b.version \in 1 .. Len(h) /\ a.version + 1 <= b.version
  BY <1>1 DEF Moment
<1>3. h[a.version + 1] \in Commits /\ h[b.version] \in Commits
  BY <1>2 DEF Timeline
<1>4. a.epoch <= h[a.version + 1].epoch /\ h[b.version].epoch <= b.epoch
  <2>1. a.version # Len(h) /\ b.version # 0
    BY <1>1, <1>2
  <2> QED
    BY <2>1 DEF Moment
<1>5. h[a.version + 1].epoch <= h[b.version].epoch
  BY <1>2 DEF Timeline
<1>6. h[a.version + 1].epoch \in Nat /\ h[b.version].epoch \in Nat
  BY <1>3 DEF Commits
<1>7. PICK x \in Nat, y \in Nat : a.epoch <= x /\ x <= y /\ y <= b.epoch
  BY <1>4, <1>5, <1>6
<1> QED
  BY <1>1, <1>7

(* The present is a moment, and the last one. *)
LEMMA Present ==
  ASSUME NEW h, NEW e, Timeline(h, e)
  PROVE  LET n == [version |-> Len(h), epoch |-> e] IN
         /\ Moment(h, e, n)
         /\ \A m : Moment(h, e, m) => AtLeast(n, m)
<1> DEFINE n == [version |-> Len(h), epoch |-> e]
<1>1. n \in Probes /\ n.version = Len(h) /\ n.epoch = e /\ Len(h) \in Nat /\ e \in Nat
  BY DEF Probes, Timeline
<1>2. Len(h) # 0 => h[Len(h)].epoch <= e
  BY <1>1 DEF Timeline
<1> HIDE DEF n
<1>3. Moment(h, e, n)
  BY <1>1, <1>2 DEF Moment
<1>4. ASSUME NEW m, Moment(h, e, m) PROVE AtLeast(n, m)
  BY <1>1, <1>4 DEF Moment, AtLeast, Probes
<1> QED
  BY <1>3, <1>4 DEF n

LEMMA ShownSplit ==
  ASSUME NEW h, NEW T, NEW a \in Nat, NEW b \in Nat, NEW c \in Nat, a <= b, b <= c
  PROVE  Shown(h, T, a, c) = Shown(h, T, a, b) \cup Shown(h, T, b, c)
BY DEF Shown

(* Two moments between which nothing of q shows give the same answer. *)
LEMMA SameAnswer ==
  ASSUME NEW h, NEW q, NEW a \in Probes, NEW b \in Probes,
         a.version <= b.version, a.epoch = b.epoch, Shown(h, Reads[b.epoch][q], a.version, b.version) = {}
  PROVE  At(h, q, a) = At(h, q, b)
<1> DEFINE T == Reads[b.epoch][q]
<1>1. Shown(h, T, 0, b.version) = Shown(h, T, 0, a.version) \cup Shown(h, T, a.version, b.version)
  <2> HIDE DEF T
  <2> QED
    BY ShownSplit DEF Probes
<1> QED
  BY <1>1 DEF At

(* Knowledge is carried on. *)
LEMMA CarriesOn ==
  ASSUME NEW h, NEW e, Timeline(h, e), NEW q, NEW a, NEW b, NEW c,
         Moment(h, e, a), Moment(h, e, b), Moment(h, e, c), Carries(h, q, a, b), Carries(h, q, b, c)
  PROVE  Carries(h, q, a, c)
<1>1. /\ a.version \in Nat /\ b.version \in Nat /\ c.version \in Nat
      /\ a.epoch \in Nat /\ b.epoch \in Nat /\ c.epoch \in Nat
  BY DEF Moment, Probes
<1>2. a.version < c.version => a.epoch <= c.epoch
  BY Chain
<1>t. PICK T : T = Reads[c.epoch][q]
  OBVIOUS
<1>3. SUFFICES ASSUME ~AtLeast(a, c) PROVE a.version <= c.version /\ a.epoch = c.epoch /\ Shown(h, T, a.version, c.version) = {}
  BY <1>t DEF Carries
<1>4. CASE AtLeast(a, b) /\ AtLeast(b, c)
  BY <1>1, <1>3, <1>4 DEF AtLeast
<1>5. CASE AtLeast(a, b) /\ ~AtLeast(b, c)
  <2>1. b.version <= c.version /\ b.epoch = c.epoch /\ Shown(h, T, b.version, c.version) = {}
    BY <1>5, <1>t DEF Carries
  <2>2. a.version < c.version /\ a.epoch = c.epoch /\ b.version <= a.version
    BY <1>1, <1>2, <1>3, <1>5, <2>1 DEF AtLeast
  <2>3. Shown(h, T, b.version, c.version) = Shown(h, T, b.version, a.version) \cup Shown(h, T, a.version, c.version)
    BY <1>1, <2>2 DEF Shown
  <2> QED
    BY <1>1, <1>t, <2>1, <2>2, <2>3
<1>6. CASE ~AtLeast(a, b) /\ AtLeast(b, c)
  <2>1. a.version <= b.version /\ a.epoch = b.epoch /\ Shown(h, Reads[b.epoch][q], a.version, b.version) = {}
    BY <1>6 DEF Carries
  <2>2. a.version < c.version /\ a.epoch = c.epoch /\ c.version <= b.version
    BY <1>1, <1>2, <1>3, <1>6, <2>1 DEF AtLeast
  <2>3. Shown(h, T, a.version, b.version) = Shown(h, T, a.version, c.version) \cup Shown(h, T, c.version, b.version)
    BY <1>1, <2>2 DEF Shown
  <2> QED
    BY <1>1, <1>t, <2>1, <2>2, <2>3
<1>7. CASE ~AtLeast(a, b) /\ ~AtLeast(b, c)
  <2>1. /\ a.version <= b.version /\ a.epoch = b.epoch /\ Shown(h, Reads[b.epoch][q], a.version, b.version) = {}
        /\ b.version <= c.version /\ b.epoch = c.epoch /\ Shown(h, T, b.version, c.version) = {}
    BY <1>7, <1>t DEF Carries
  <2>2. Shown(h, T, a.version, c.version) = Shown(h, T, a.version, b.version) \cup Shown(h, T, b.version, c.version)
    BY <1>1, <2>1 DEF Shown
  <2> QED
    BY <1>1, <1>t, <2>1, <2>2
<1> QED
  BY <1>4, <1>5, <1>6, <1>7

(* A result that is good at a moment is so wherever the moment is carried. *)
LEMMA MirrorsOn ==
  ASSUME NEW h, NEW e, Timeline(h, e), NEW q, NEW r, NEW a, NEW b,
         Moment(h, e, a), Moment(h, e, b), Carries(h, q, a, b), Mirrors(h, e, q, r, a)
  PROVE  Mirrors(h, e, q, r, b)
<1>1. PICK m \in [version : 0 .. Len(h), epoch : 0 .. e] : Moment(h, e, m) /\ AtLeast(m, a) /\ r = At(h, q, m)
  BY DEF Mirrors
<1>2. /\ a.version \in Nat /\ b.version \in Nat /\ m.version \in Nat
      /\ a.epoch \in Nat /\ b.epoch \in Nat /\ m.epoch \in Nat
      /\ m \in Probes /\ b \in Probes /\ a \in Probes
  BY <1>1 DEF Moment, Probes
<1>3. CASE AtLeast(m, b)
  BY <1>1, <1>3 DEF Mirrors
<1>4. CASE ~AtLeast(m, b)
  <2>1. a.version <= b.version /\ a.epoch = b.epoch /\ Shown(h, Reads[b.epoch][q], a.version, b.version) = {}
    BY <1>1, <1>2, <1>4 DEF Carries, AtLeast
  <2>2. m.version < b.version
    BY <1>1, <1>2, <1>4, <2>1 DEF AtLeast
  <2>3. m.epoch = b.epoch /\ a.version <= m.version
    BY <1>1, <1>2, <2>1, <2>2, Chain DEF AtLeast
  <2>t. PICK T : T = Reads[b.epoch][q]
    OBVIOUS
  <2>4. Shown(h, T, a.version, b.version) = Shown(h, T, a.version, m.version) \cup Shown(h, T, m.version, b.version)
    BY <1>2, <2>2, <2>3 DEF Shown
  <2>5. At(h, q, m) = At(h, q, b)
    BY <1>2, <2>t, <2>1, <2>2, <2>3, <2>4, SameAnswer
  <2>6. b \in [version : 0 .. Len(h), epoch : 0 .. e] /\ AtLeast(b, b)
    BY <1>2 DEF Moment, Probes, AtLeast, Timeline
  <2> QED
    BY <1>1, <2>5, <2>6 DEF Mirrors
<1> QED
  BY <1>3, <1>4

LEMMA WithRows ==
  ASSUME NEW S, NEW R, NEW r \in [tables : S, rows : R], NEW z
  PROVE  [r EXCEPT !.rows = @ \cup z] = [tables |-> r.tables, rows |-> r.rows \cup z]
OBVIOUS

(* A patch of the rows of a window gives the result at its end, or one that is newer. *)
LEMMA PatchMirrors ==
  ASSUME NEW h, NEW e, Timeline(h, e), NEW q, NEW r, NEW a, NEW b,
         Moment(h, e, a), Moment(h, e, b), a.version <= b.version, a.epoch = b.epoch, Mirrors(h, e, q, r, a)
  PROVE  Mirrors(h, e, q, [tables |-> r.tables,
                           rows |-> r.rows \cup Shown(h, r.tables \cap Reads[b.epoch][q], a.version, b.version)], b)
<1> DEFINE T == Reads[b.epoch][q]
           new == [tables |-> r.tables, rows |-> r.rows \cup Shown(h, r.tables \cap T, a.version, b.version)]
<1>1. PICK m \in [version : 0 .. Len(h), epoch : 0 .. e] : Moment(h, e, m) /\ AtLeast(m, a) /\ r = At(h, q, m)
  BY DEF Mirrors
<1>2. /\ a.version \in Nat /\ b.version \in Nat /\ m.version \in Nat
      /\ a.epoch \in Nat /\ b.epoch \in Nat /\ m.epoch \in Nat
      /\ m \in Probes /\ b \in Probes /\ a \in Probes
  BY <1>1 DEF Moment, Probes
<1>3. m.version >= a.version /\ m.epoch >= a.epoch
  BY <1>1 DEF AtLeast
<1>4. r.tables = Reads[m.epoch][q] /\ r.rows = Shown(h, Reads[m.epoch][q], 0, m.version)
  BY <1>1 DEF At
<1>6. CASE m.version >= b.version
  <2>1. Shown(h, r.tables \cap T, a.version, b.version) \subseteq Shown(h, Reads[m.epoch][q], 0, m.version)
    BY <1>2, <1>4, <1>6 DEF Shown
  <2>2. new = r
    BY <1>1, <1>4, <2>1 DEF At
  <2>3. AtLeast(m, b)
    BY <1>2, <1>3, <1>6 DEF AtLeast
  <2> QED
    BY <1>1, <2>2, <2>3 DEF Mirrors
<1>7. CASE m.version < b.version
  <2>1. m.epoch = b.epoch
    BY <1>1, <1>2, <1>3, <1>7, Chain
  <2>2. PICK S : S = Reads[b.epoch][q]
    OBVIOUS
  <2>3. Shown(h, S, 0, m.version) \cup Shown(h, S, a.version, b.version) = Shown(h, S, 0, b.version)
    BY <1>2, <1>3, <1>7 DEF Shown
  <2>4. new = At(h, q, b)
    BY <1>4, <2>1, <2>2, <2>3 DEF At
  <2>5. b \in [version : 0 .. Len(h), epoch : 0 .. e] /\ AtLeast(b, b)
    BY <1>2 DEF Moment, Probes, AtLeast, Timeline
  <2> QED
    BY <2>4, <2>5 DEF Mirrors
<1> QED
  BY <1>2, <1>6, <1>7

(* A window that holds no commit to the tables of q. *)
LEMMA QuietWindow ==
  ASSUME NEW h, NEW e, Timeline(h, e), NEW q, NEW g, NEW a, NEW b, NEW c,
         Moment(h, e, a), Moment(h, e, b), Moment(h, e, c), Carries(h, q, a, b),
         b.version <= c.version, b.epoch = c.epoch,
         g = Reads[a.epoch][q] \/ a.epoch < c.epoch,
         Shown(h, g, b.version, c.version) = {}
  PROVE  Carries(h, q, a, c)
<1>1. /\ a.version \in Nat /\ b.version \in Nat /\ c.version \in Nat
      /\ a.epoch \in Nat /\ b.epoch \in Nat /\ c.epoch \in Nat
  BY DEF Moment, Probes
<1>2. a.epoch >= c.epoch
  BY <1>1 DEF Carries, AtLeast
<1>3. CASE a.epoch = c.epoch
  <2>1. g = Reads[c.epoch][q]
    BY <1>1, <1>3
  <2>2. Carries(h, q, b, c)
    BY <2>1 DEF Carries
  <2> QED
    BY <2>2, CarriesOn
<1>4. CASE a.epoch > c.epoch
  <2>1. a.version >= c.version
    BY <1>1, <1>4, Chain
  <2> QED
    BY <1>1, <1>4, <2>1 DEF Carries, AtLeast
<1> QED
  BY <1>1, <1>2, <1>3, <1>4

(***************************************************************************)
(* The store goes forward.                                                 *)
(***************************************************************************)
Grows(h, e, h2, e2) ==
    /\ Timeline(h, e) /\ Timeline(h2, e2) /\ Len(h) <= Len(h2) /\ e <= e2
    /\ \A i \in 1 .. Len(h) : h2[i] = h[i]
    /\ \A i \in Len(h) + 1 .. Len(h2) : e <= h2[i].epoch

LEMMA MomentGrows ==
  ASSUME NEW h, NEW e, NEW h2, NEW e2, Grows(h, e, h2, e2), NEW m, Moment(h, e, m)
  PROVE  Moment(h2, e2, m)
<1>1. m \in Probes /\ m.version \in Nat /\ m.epoch \in Nat /\ Len(h) \in Nat /\ Len(h2) \in Nat /\ e \in Nat /\ e2 \in Nat
  BY DEF Moment, Probes, Grows, Timeline
<1>2. m.version <= Len(h2) /\ m.epoch <= e2
  BY <1>1 DEF Moment, Grows
<1>3. m.version # 0 => h2[m.version].epoch <= m.epoch
  BY <1>1 DEF Moment, Grows
<1>4. ASSUME m.version # Len(h2) PROVE m.epoch <= h2[m.version + 1].epoch
  <2>1. CASE m.version # Len(h)
    BY <1>1, <2>1 DEF Moment, Grows
  <2>2. CASE m.version = Len(h)
    <3>1. m.version + 1 \in Len(h) + 1 .. Len(h2)
      BY <1>1, <1>2, <1>4, <2>2
    <3>2. h2[m.version + 1] \in Commits
      BY <1>1, <3>1 DEF Grows, Timeline
    <3> QED
      BY <1>1, <3>1, <3>2 DEF Moment, Grows, Commits
  <2> QED
    BY <2>1, <2>2
<1> QED
  BY <1>1, <1>2, <1>3, <1>4 DEF Moment

LEMMA ShownGrows ==
  ASSUME NEW h, NEW e, NEW h2, NEW e2, Grows(h, e, h2, e2), NEW T, NEW a \in Nat, NEW b \in Nat, b <= Len(h)
  PROVE  Shown(h2, T, a, b) = Shown(h, T, a, b)
<1>1. \A v \in a + 1 .. b : v \in 1 .. Len(h)
  BY DEF Grows, Timeline
<1> QED
  BY <1>1 DEF Shown, Grows

LEMMA MirrorsGrow ==
  ASSUME NEW h, NEW e, NEW h2, NEW e2, Grows(h, e, h2, e2), NEW q, NEW r, NEW p, Mirrors(h, e, q, r, p)
  PROVE  Mirrors(h2, e2, q, r, p)
<1>1. PICK m \in [version : 0 .. Len(h), epoch : 0 .. e] : Moment(h, e, m) /\ AtLeast(m, p) /\ r = At(h, q, m)
  BY DEF Mirrors
<1>2. Moment(h2, e2, m)
  BY <1>1, MomentGrows
<1>3. m \in [version : 0 .. Len(h2), epoch : 0 .. e2]
  BY DEF Grows, Timeline
<1>4. m.version \in Nat /\ m.version <= Len(h)
  BY <1>1 DEF Moment, Probes
<1>5. At(h2, q, m) = At(h, q, m)
  BY <1>4, ShownGrows DEF At
<1> QED
  BY <1>1, <1>2, <1>3, <1>5 DEF Mirrors

LEMMA CarriesGrow ==
  ASSUME NEW h, NEW e, NEW h2, NEW e2, Grows(h, e, h2, e2), NEW q, NEW a, NEW b,
         Moment(h, e, a), Moment(h, e, b), Carries(h, q, a, b)
  PROVE  Carries(h2, q, a, b)
<1>1. a.version \in Nat /\ b.version \in Nat /\ b.version <= Len(h)
  BY DEF Moment, Probes
<1>2. \A T : Shown(h2, T, a.version, b.version) = Shown(h, T, a.version, b.version)
  BY <1>1, ShownGrows
<1> QED
  BY <1>2 DEF Carries

LEMMA FineGrows ==
  ASSUME NEW h, NEW e, NEW h2, NEW e2, Grows(h, e, h2, e2), NEW q, NEW g \in Groups, NEW late, NEW last, NEW sw,
         Moment(h, e, last), sw.pc # "idle" => Moment(h, e, sw.current), Fine(q, g, h, e, late, last, sw)
  PROVE  Fine(q, g, h2, e2, late, last, sw)
<1>1. /\ g.seenProbe \in Probes /\ g.seenProbe.epoch \in Nat /\ e \in Nat /\ e2 \in Nat /\ e <= e2
      /\ Moment(h, e, g.seenProbe) /\ Moment(h2, e2, g.seenProbe)
  BY MomentGrows DEF Groups, Probes, Grows, Timeline, Fine, Knows
<1>2. Knows(q, g, h2, e2)
  <2>1. g.result # None => g.adrift \/ Mirrors(h2, e2, q, g.result, g.seenProbe)
    BY MirrorsGrow DEF Fine, Knows
  <2>2. g.dependencies = Reads[g.seenProbe.epoch][q] \/ g.seenProbe.epoch < e2
    BY <1>1 DEF Fine, Knows
  <2> QED
    BY <1>1, <2>1, <2>2 DEF Knows
<1>3. Executes(q, g, h2, e2, sw)
  <2>1. CASE sw.pc = "waiting" /\ sw.at = q
    <3>1. Moment(h, e, sw.current) /\ sw.current.epoch \in Nat
      BY <2>1 DEF Moment, Probes
    <3>2. g.dependencies = Reads[sw.current.epoch][q] \/ sw.current.epoch < e2
      BY <1>1, <2>1, <3>1 DEF Fine, Executes
    <3>3. g.execution.phase = "patching" => Continues(q, g, h2, e2)
      BY <2>1, MomentGrows, MirrorsGrow DEF Fine, Executes, Continues
    <3> QED
      BY <2>1, <3>2, <3>3 DEF Fine, Executes
  <2>2. CASE ~(sw.pc = "waiting" /\ sw.at = q)
    BY <1>1, <2>2, MomentGrows, CarriesGrow DEF Fine, Executes
  <2> QED
    BY <2>1, <2>2
<1>4. Keeps(q, g, h2, late, last, sw)
  BY <1>1, CarriesGrow DEF Fine, Keeps
<1> QED
  BY <1>2, <1>3, <1>4 DEF Fine

(***************************************************************************)
(* The steps of the host.                                                  *)
(***************************************************************************)
LEMMA Here ==
  ASSUME Types, Story
  PROVE  /\ Timeline(history, epoch) /\ epoch \in Nat /\ Len(history) \in Nat
         /\ Moment(history, epoch, Now) /\ \A m : Moment(history, epoch, m) => AtLeast(Now, m)
         /\ Now \in Probes /\ Now # None /\ Now.version = Len(history) /\ Now.epoch = epoch
<1>1. Timeline(history, epoch) /\ epoch \in Nat /\ Len(history) \in Nat
  BY DEF Types, Story, Timeline
<1>2. Now \in Probes /\ Now.version = Len(history) /\ Now.epoch = epoch
  BY <1>1 DEF Now, Probes
<1> QED
  BY <1>1, <1>2, Present, NoneAssumption DEF Now

(* A group whose query is still asked was asked before. *)
LEMMA KnownOf ==
  ASSUME Inv, NEW q \in Queries, Asked(q), groups[q] # None
  PROVE  /\ groups[q] \in Groups /\ lastProbe # None /\ Moment(history, epoch, lastProbe)
         /\ Fine(q, groups[q], history, epoch, q \in lagging, lastProbe, sweep)
         /\ Knows(q, groups[q], history, epoch)
         /\ Executes(q, groups[q], history, epoch, sweep)
         /\ Keeps(q, groups[q], history, q \in lagging, lastProbe, sweep)
BY DEF Inv, Known, Fine, Types, Cast, Story

LEMMA HintsMove ==
  ASSUME Inv, UNCHANGED <<storeVars, groups, opening, lagging, lastProbe, sweep, sub, got, missed, faults>>,
         sweepQueued' \in BOOLEAN, retryTimer' \in BOOLEAN
  PROVE  Inv'
<1> USE DEF Inv, storeVars
<1>1. Types'
  BY DEF Types
<1>2. Story' /\ Course'
  BY DEF Story, Course
<1>3. Cast'
  BY DEF Cast, In
<1>4. Patched' /\ Known'
  BY DEF Patched, Known, Asked
<1>5. Delivers'
  BY DEF Delivers
<1>6. DeliveryTrue' /\ MapsFit'
  BY DEF DeliveryTrue, MapsFit
<1> QED
  BY <1>1, <1>2, <1>3, <1>4, <1>5, <1>6

LEMMA StoreMoves ==
  ASSUME Inv, Grows(history, epoch, history', epoch'), epoch' \in 0 .. MaxEpoch,
         UNCHANGED <<groups, opening, lagging, lastProbe, hintVars, sweep, sub, got, missed, faults>>
  PROVE  Inv'
<1> USE DEF Inv, hintVars
<1>1. Types'
  BY DEF Types, Grows, Timeline
<1>2. Story'
  BY MomentGrows DEF Story, Grows
<1>3. Cast' /\ Course'
  BY DEF Cast, Course, In
<1>4. Patched'
  BY DEF Patched
<1>5. Known'
  <2> SUFFICES ASSUME NEW q \in Queries, Asked(q), groups[q] # None
               PROVE  Fine(q, groups[q], history', epoch', q \in lagging, lastProbe, sweep)
    BY DEF Known, Asked
  <2>1. sweep.pc # "idle" => Moment(history, epoch, sweep.current)
    BY DEF Story
  <2> QED
    BY <2>1, KnownOf, FineGrows
<1>6. Delivers'
  BY DEF Delivers
<1>7. DeliveryTrue' /\ MapsFit'
  BY DEF DeliveryTrue, MapsFit
<1> QED
  BY <1>1, <1>2, <1>3, <1>4, <1>5, <1>6, <1>7

LEMMA CommitKeeps ==
  ASSUME Inv, NEW c \in Changes, Commit(c)
  PROVE  Inv'
<1> DEFINE x == [table |-> c.table, shows |-> c.shows, epoch |-> epoch]
<1>1. /\ Timeline(history, epoch) /\ epoch \in Nat /\ Len(history) \in Nat /\ epoch \in 0 .. MaxEpoch
      /\ history \in Seq(Commits)
  BY Here DEF Inv, Types
<1>2. x \in Commits /\ x.epoch = epoch
  BY <1>1, LiveQueriesAssumption DEF Commits
<1> HIDE DEF x
<1>3. history' = Append(history, x) /\ epoch' = epoch
  BY DEF Commit, x
<1>4. /\ history' \in Seq(Commits) /\ Len(history') = Len(history) + 1
      /\ \A i \in 1 .. Len(history) : history'[i] = history[i]
      /\ history'[Len(history) + 1] = x
  BY <1>1, <1>2, <1>3
<1>5. \A i \in 1 .. Len(history') : history'[i].epoch <= epoch
  BY <1>1, <1>2, <1>4 DEF Timeline
<1>6. \A i, j \in 1 .. Len(history') : i <= j => history'[i].epoch <= history'[j].epoch
  <2> SUFFICES ASSUME NEW i \in 1 .. Len(history'), NEW j \in 1 .. Len(history'), i <= j
               PROVE  history'[i].epoch <= history'[j].epoch
    OBVIOUS
  <2>1. CASE j = Len(history) + 1
    BY <1>2, <1>4, <1>5, <2>1
  <2>2. CASE j # Len(history) + 1
    <3>1. i \in 1 .. Len(history) /\ j \in 1 .. Len(history)
      BY <1>1, <1>4, <2>2
    <3> QED
      BY <1>1, <1>4, <3>1 DEF Timeline
  <2> QED
    BY <2>1, <2>2
<1>7. Grows(history, epoch, history', epoch')
  <2>1. Timeline(history', epoch')
    BY <1>1, <1>3, <1>4, <1>5, <1>6 DEF Timeline
  <2>2. \A i \in Len(history) + 1 .. Len(history') : epoch <= history'[i].epoch
    BY <1>1, <1>2, <1>4
  <2> QED
    BY <1>1, <1>3, <1>4, <2>1, <2>2 DEF Grows
<1> QED
  BY <1>1, <1>3, <1>7, StoreMoves DEF Commit

LEMMA AlterKeeps ==
  ASSUME Inv, Alter
  PROVE  Inv'
<1>1. /\ Timeline(history, epoch) /\ epoch \in Nat /\ Len(history) \in Nat
      /\ history' = history /\ epoch' = epoch + 1 /\ epoch' \in 0 .. MaxEpoch
  BY Here, LiveQueriesAssumption DEF Inv, Types, Alter
<1>2. Timeline(history, epoch + 1)
  <2>0. \A i \in 1 .. Len(history) : history[i] \in Commits
    BY <1>1 DEF Timeline
  <2>1. \A i \in 1 .. Len(history) : history[i].epoch \in Nat
    BY <2>0 DEF Commits
  <2> QED
    BY <1>1, <2>1 DEF Timeline
<1>3. Grows(history, epoch, history', epoch')
  BY <1>1, <1>2 DEF Grows
<1> QED
  BY <1>1, <1>3, StoreMoves DEF Alter

(***************************************************************************)
(* Subscribers come and go.                                                *)
(***************************************************************************)
LEMMA Blank ==
  /\ NewSubscriber \in Subs /\ NewSubscriber.pc = "new" /\ NewSubscriber.seenDelivery = -1
  /\ Gone \in Subs /\ Gone.pc = "closed"
  /\ NothingYet \in Receipts /\ NothingYet.reflects /\ NothingYet.fits
  /\ IdleSweep \in Sweeps /\ IdleSweep.pc = "idle" /\ IdleSweep.todo = {} /\ IdleSweep.at = None
  /\ IdleSweep.pending = {}
<1>1. NewSubscriber \in Subs /\ NewSubscriber.pc = "new" /\ NewSubscriber.seenDelivery = -1
  BY DEF NewSubscriber, Subs
<1>2. Gone \in Subs /\ Gone.pc = "closed"
  BY <1>1 DEF Gone, Subs
<1>3. NothingYet \in Receipts /\ NothingYet.reflects /\ NothingYet.fits
  BY DEF NothingYet, Receipts
<1>4. /\ IdleSweep \in Sweeps /\ IdleSweep.pc = "idle" /\ IdleSweep.todo = {} /\ IdleSweep.at = None
      /\ IdleSweep.pending = {}
  BY DEF IdleSweep, Sweeps
<1> QED
  BY <1>1, <1>2, <1>3, <1>4

LEMMA Begins ==
  ASSUME OneKind, Init
  PROVE  Inv
<1> USE DEF Init
<1>1. PICK cast \in Casts : sub = [s \in Subscribers |-> IF s \in cast THEN NewSubscriber ELSE Gone]
  OBVIOUS
<1>2. \A s \in Subscribers : sub[s].pc = IF s \in cast THEN "new" ELSE "closed"
  BY <1>1, Blank
<1>3. Types
  <2>1. sub \in [Subscribers -> Subs] /\ got \in [Subscribers -> Receipts] /\ sweep \in Sweeps
    BY <1>1, Blank
  <2>2. history \in Seq(Commits) /\ epoch \in 0 .. MaxEpoch /\ faults \in Nat
    BY LiveQueriesAssumption
  <2> QED
    BY <2>1, <2>2 DEF Types
<1>4. Story
  <2>1. history \in Seq(Commits) /\ Len(history) = 0 /\ epoch \in Nat
    OBVIOUS
  <2>2. Timeline(history, epoch)
    BY <2>1 DEF Timeline
  <2> QED
    BY <2>2, Blank DEF Story
<1>5. Cast
  <2>1. \A s \in Subscribers : sub[s].pc \notin Attached
    BY <1>2 DEF Attached
  <2>2. \A s \in Subscribers \ Observers, o \in Observers :
           QueryOf[s] = QueryOf[o] => sub[s].pc = "closed" \/ sub[o].pc = "closed"
    BY <1>2, LiveQueriesAssumption DEF OneKind
  <2> QED
    BY <2>1, <2>2 DEF Cast
<1>6. Course
  BY Blank DEF Course
<1>7. Patched /\ Known
  BY DEF Patched, Known
<1>8. Delivers
  <2>1. \A s \in Subscribers : sub[s].pc \notin Attached
    BY <1>2 DEF Attached
  <2>2. \A s \in Subscribers : sub[s].pc \in {"new", "joining"} => sub[s].seenDelivery = -1
    BY <1>1, <1>2, Blank
  <2>3. sweep.pending = {}
    BY Blank
  <2> QED
    BY <2>1, <2>2, <2>3 DEF Delivers, Follows, Awaits
<1>9. DeliveryTrue /\ MapsFit
  BY Blank DEF DeliveryTrue, MapsFit
<1> QED
  BY <1>3, <1>4, <1>5, <1>6, <1>7, <1>8, <1>9 DEF Inv

(* Nothing else moves while a subscriber that has no group comes, goes or joins. *)
LEMMA SubscribeKeeps ==
  ASSUME Inv, NEW s \in Subscribers, Subscribe(s)
  PROVE  Inv'
<1> DEFINE q == QueryOf[s]
<1> USE DEF Inv
<1>1. /\ q \in Queries /\ sub[s].pc = "new" /\ sub \in [Subscribers -> Subs] /\ sub[s] \in Subs
      /\ UNCHANGED <<history, epoch, groups, lagging, lastProbe, sweepQueued, retryTimer, sweep, got, missed, faults>>
  BY LiveQueriesAssumption DEF Subscribe, Types, storeVars, hintVars
<1>2. PICK d \in Subs :
         /\ sub' = [sub EXCEPT ![s] = d] /\ d.pc \in {"installed", "joining"} /\ d.seenDelivery = sub[s].seenDelivery
         /\ \/ d.pc = "installed" /\ groups[q] # None /\ opening' = opening
            \/ d.pc = "joining" /\ groups[q] = None /\ opening[q] # None /\ opening' = opening
            \/ /\ d.pc = "joining" /\ groups[q] = None /\ opening' = [opening EXCEPT ![q] = Now]
  <2>1. CASE groups[q] # None /\ sub' = [sub EXCEPT ![s].pc = "installed"] /\ UNCHANGED opening
    <3>1. [sub[s] EXCEPT !.pc = "installed"] \in Subs
      BY <1>1 DEF Subs, Attached
    <3> QED
      BY <1>1, <2>1, <3>1 DEF Subs
  <2>2. CASE groups[q] = None /\ opening[q] # None /\ sub' = [sub EXCEPT ![s].pc = "joining"] /\ UNCHANGED opening
    <3>1. [sub[s] EXCEPT !.pc = "joining"] \in Subs
      BY <1>1 DEF Subs, Attached
    <3> QED
      BY <1>1, <2>2, <3>1 DEF Subs
  <2>3. CASE /\ groups[q] = None /\ opening[q] = None /\ opening' = [opening EXCEPT ![q] = Now]
             /\ sub' = [sub EXCEPT ![s].pc = "joining", ![s].fresh = TRUE]
    <3>1. [sub[s] EXCEPT !.pc = "joining", !.fresh = TRUE] \in Subs
      BY <1>1 DEF Subs, Attached
    <3>2. sub' = [sub EXCEPT ![s] = [sub[s] EXCEPT !.pc = "joining", !.fresh = TRUE]]
      BY <1>1, <2>3
    <3> QED
      BY <1>1, <2>3, <3>1, <3>2 DEF Subs
  <2> QED
    BY <2>1, <2>2, <2>3 DEF Subscribe
<1>3. /\ \A t \in Subscribers : sub'[t].pc # "closed" => sub[t].pc # "closed"
      /\ \A t \in Subscribers : t # s => sub'[t] = sub[t]
      /\ sub'[s] = d
  BY <1>1, <1>2
<1>4. Types'
  BY <1>1, <1>2, Here DEF Types
<1>5. Story' /\ Course' /\ Patched' /\ DeliveryTrue' /\ MapsFit'
  BY <1>1 DEF Story, Course, Patched, DeliveryTrue, MapsFit
<1>6. Cast'
  <2>1. \A t \in Subscribers : sub'[t].pc \in Attached => groups[QueryOf[t]] # None
    BY <1>2, <1>3 DEF Cast, Attached
  <2>2. \A p \in Queries : In(sub, p) \subseteq In(sub', p)
    BY <1>1, <1>3 DEF In, Attached
  <2>3. ASSUME NEW p \in Queries, opening'[p] # None
        PROVE  groups[p] = None /\ \E t \in Subscribers : QueryOf[t] = p /\ sub'[t].pc = "joining"
    <3>1. CASE p = q /\ d.pc = "joining"
      BY <1>2, <1>3, <3>1
    <3>2. CASE opening'[p] = opening[p]
      <4>1. groups[p] = None /\ \E t \in Subscribers : QueryOf[t] = p /\ sub[t].pc = "joining"
        BY <2>3, <3>2 DEF Cast
      <4> QED
        BY <1>1, <1>3, <4>1
    <3>3. opening'[p] = opening[p] \/ (p = q /\ d.pc = "joining")
      BY <1>2, <1>1 DEF Types
    <3> QED
      BY <3>1, <3>2, <3>3
  <2>4. \A t \in Subscribers \ Observers, o \in Observers :
           QueryOf[t] = QueryOf[o] => sub'[t].pc = "closed" \/ sub'[o].pc = "closed"
    BY <1>3, LiveQueriesAssumption DEF Cast
  <2> QED
    BY <1>1, <2>1, <2>2, <2>3, <2>4 DEF Cast
<1>7. Known'
  BY <1>1, <1>3 DEF Known, Asked
<1>8. Delivers'
  <2> SUFFICES ASSUME NEW t \in Subscribers \ Observers
               PROVE  /\ Follows(sub'[t], groups[QueryOf[t]], got[t])
                      /\ Awaits(t, QueryOf[t], sub'[t], groups[QueryOf[t]], got[t], sweep)
    BY <1>1 DEF Delivers
  <2>1. CASE t # s
    BY <1>3, <2>1 DEF Delivers
  <2>2. CASE t = s
    <3>1. d.seenDelivery = -1
      BY <1>1, <1>2, <2>2 DEF Delivers, Follows
    <3>2. \A p \in sweep.pending : p.to # s
      BY <1>1, <2>2 DEF Delivers, Awaits, Due, Attached
    <3>3. Awaits(t, QueryOf[t], sub'[t], groups[QueryOf[t]], got[t], sweep)
      BY <2>2, <3>2 DEF Awaits
    <3>4. d.pc \in Attached => d.pc = "installed" /\ groups[q] \in Groups
      BY <1>1, <1>2 DEF Attached, Types
    <3>5. Follows(d, groups[q], got[t])
      BY <1>2, <3>1, <3>4 DEF Follows, Groups
    <3> QED
      BY <1>3, <2>2, <3>3, <3>5
  <2> QED
    BY <2>1, <2>2
<1> QED
  BY <1>4, <1>5, <1>6, <1>7, <1>8

(* A registration that waits for a group has received nothing. *)
LEMMA OpenGroupKeeps ==
  ASSUME Inv, NEW q \in Queries, OpenGroup(q)
  PROVE  Inv'
<1> USE DEF Inv
<1>1. /\ opening[q] # None /\ groups[q] = None /\ opening[q] \in Probes
      /\ sub \in [Subscribers -> Subs] /\ groups \in [Queries -> Groups \cup {None}]
      /\ opening \in [Queries -> Probes \cup {None}]
      /\ UNCHANGED <<history, epoch, sweepQueued, retryTimer, sweep, got, missed, faults>>
  BY DEF OpenGroup, Types, Cast, storeVars, hintVars
<1>2. /\ Timeline(history, epoch) /\ epoch \in Nat /\ epoch \in 0 .. MaxEpoch
      /\ Moment(history, epoch, Now) /\ \A m : Moment(history, epoch, m) => AtLeast(Now, m)
      /\ Now \in Probes /\ Now # None /\ Now.version = Len(history) /\ Now.epoch = epoch
  BY Here DEF Types
<1>3. CASE ~Stable(opening[q])
  <2>1. opening' = [opening EXCEPT ![q] = Now] /\ UNCHANGED <<groups, lagging, lastProbe, sub>>
    BY <1>3 DEF OpenGroup
  <2>2. Types'
    BY <1>1, <1>2, <2>1 DEF Types
  <2>3. Story' /\ Course' /\ Patched' /\ Delivers' /\ DeliveryTrue' /\ MapsFit'
    BY <1>1, <2>1 DEF Story, Course, Patched, Delivers, DeliveryTrue, MapsFit
  <2>4. Cast'
    BY <1>1, <2>1 DEF Cast, In
  <2>5. Known'
    BY <1>1, <2>1 DEF Known, Asked
  <2> QED
    BY <2>2, <2>3, <2>4, <2>5
<1>4. CASE Stable(opening[q])
  <2>1. PICK e \in opening[q].epoch .. epoch : groups' = [groups EXCEPT ![q] = NewGroup(Reads[e][q], Now)]
    BY <1>4 DEF OpenGroup
  <2>2. e = epoch /\ e \in 0 .. MaxEpoch /\ Reads[e][q] \in SUBSET Tables
    BY <1>1, <1>2, <1>4, LiveQueriesAssumption DEF Stable, CatalogChangedBetween, Probes
  <2> DEFINE g == NewGroup(Reads[e][q], Now)
  <2>3. /\ g \in Groups /\ g # None /\ g.seenProbe = Now /\ g.dependencies = Reads[Now.epoch][q]
        /\ g.result = None /\ g.execution = None /\ g.deliveries = 0 /\ ~g.maintained
    <3>1. g \in Groups
      BY <1>2, <2>2 DEF NewGroup, Groups
    <3>2. None \notin Groups
      BY NoneAssumption
    <3>3. g.seenProbe = Now /\ g.dependencies = Reads[Now.epoch][q]
      BY <1>2, <2>2 DEF NewGroup
    <3> QED
      BY <3>1, <3>2, <3>3 DEF NewGroup
  <2> HIDE DEF g
  <2>4. /\ opening' = [opening EXCEPT ![q] = None]
        /\ groups' = [groups EXCEPT ![q] = g]
        /\ lastProbe' = IF lastProbe = None THEN Now ELSE lastProbe
        /\ lagging' \in {lagging, lagging \cup {q}}
        /\ sub' = [s \in Subscribers |-> IF QueryOf[s] = q /\ sub[s].pc = "joining"
                                         THEN [sub[s] EXCEPT !.pc = "installed"] ELSE sub[s]]
    BY <1>4, <2>1 DEF OpenGroup, g
  <2>5. /\ groups'[q] = g /\ \A p \in Queries \ {q} : groups'[p] = groups[p]
    BY <1>1, <2>4
  <2>6. \A s \in Subscribers :
           /\ sub'[s] \in Subs
           /\ sub'[s].seenDelivery = sub[s].seenDelivery
           /\ \/ sub'[s] = sub[s] /\ ~(QueryOf[s] = q /\ sub[s].pc = "joining")
              \/ QueryOf[s] = q /\ sub[s].pc = "joining" /\ sub'[s].pc = "installed"
    <3> SUFFICES ASSUME NEW s \in Subscribers, QueryOf[s] = q, sub[s].pc = "joining"
                 PROVE  /\ [sub[s] EXCEPT !.pc = "installed"] \in Subs
                        /\ [sub[s] EXCEPT !.pc = "installed"].pc = "installed"
                        /\ [sub[s] EXCEPT !.pc = "installed"].seenDelivery = sub[s].seenDelivery
      BY <1>1, <2>4
    <3>1. sub[s] \in Subs
      BY <1>1
    <3> QED
      BY <3>1 DEF Subs, Attached
  <2>7. \A s \in Subscribers : QueryOf[s] = q => sub[s].pc \notin Attached
    BY <1>1 DEF Cast
  <2>8. \A s \in Subscribers : sub'[s].pc # "closed" => sub[s].pc # "closed"
    BY <2>6
  <2>9. lastProbe = None => sweep = IdleSweep /\ \A p \in Queries : groups[p] = None
    BY DEF Course, Cast
  <2>10. lastProbe' \in Probes /\ lastProbe' # None /\ Moment(history, epoch, lastProbe')
    BY <1>2, <2>4 DEF Types, Story
  <2>11. Types'
    <3>1. sub' \in [Subscribers -> Subs]
      BY <2>4, <2>6
    <3> QED
      BY <1>1, <2>3, <2>4, <2>10, <3>1 DEF Types
  <2>12. Story'
    BY <1>1, <2>10 DEF Story
  <2>13. q \notin sweep.todo /\ q # sweep.at
    <3>1. sweep.at # None => groups[sweep.at] # None
      BY DEF Course
    <3>2. q # None
      BY NoneAssumption
    <3> QED
      BY <1>1, <3>1, <3>2 DEF Course
  <2>14. Course'
    <3>1. sweep.pc # "idle" => lastProbe' = lastProbe
      BY <2>4 DEF Course
    <3>2. sweep \in Sweeps
      BY DEF Types
    <3>3. \A p \in sweep.todo : groups'[p] # None
      BY <2>5, <2>13, <3>2 DEF Course, Sweeps
    <3>4. sweep.at # None => groups'[sweep.at] # None
      BY <2>5, <2>13, <3>2 DEF Course, Sweeps
    <3> QED
      BY <1>1, <3>1, <3>3, <3>4 DEF Course
  <2>15. Cast'
    <3>1. \A s \in Subscribers : sub'[s].pc \in Attached => groups'[QueryOf[s]] # None
      <4> SUFFICES ASSUME NEW s \in Subscribers, sub'[s].pc \in Attached PROVE groups'[QueryOf[s]] # None
        OBVIOUS
      <4>1. CASE QueryOf[s] = q
        BY <2>3, <2>5, <4>1
      <4>2. CASE QueryOf[s] # q
        BY <2>5, <2>6, <4>2, LiveQueriesAssumption DEF Cast
      <4> QED
        BY <4>1, <4>2
    <3>2. \A p \in lagging' : groups'[p] # None
      BY <2>3, <2>4, <2>5 DEF Cast, Types
    <3>3. ASSUME NEW p \in Queries, groups'[p] # None PROVE In(sub', p) # {}
      <4>1. CASE p = q
        <5>1. PICK s \in Subscribers : QueryOf[s] = q /\ sub[s].pc = "joining"
          BY <1>1 DEF Cast
        <5> QED
          BY <2>6, <4>1, <5>1 DEF In, Attached
      <4>2. CASE p # q
        <5>1. PICK s \in Subscribers : QueryOf[s] = p /\ sub[s].pc \in Attached
          BY <2>5, <3>3, <4>2 DEF Cast, In
        <5> QED
          BY <2>6, <4>2, <5>1 DEF In
      <4> QED
        BY <4>1, <4>2
    <3>4. ASSUME NEW p \in Queries, opening'[p] # None
          PROVE  groups'[p] = None /\ \E s \in Subscribers : QueryOf[s] = p /\ sub'[s].pc = "joining"
      <4>1. p # q /\ opening[p] # None
        BY <1>1, <2>4, <3>4
      <4>2. PICK s \in Subscribers : QueryOf[s] = p /\ sub[s].pc = "joining"
        BY <4>1 DEF Cast
      <4>3. groups'[p] = None
        BY <2>5, <4>1 DEF Cast
      <4> QED
        BY <2>6, <4>1, <4>2, <4>3
    <3>5. \A s \in Subscribers \ Observers, o \in Observers :
             QueryOf[s] = QueryOf[o] => sub'[s].pc = "closed" \/ sub'[o].pc = "closed"
      BY <2>8, LiveQueriesAssumption DEF Cast
    <3> QED
      BY <2>10, <3>1, <3>2, <3>3, <3>4, <3>5 DEF Cast
  <2>16. Patched'
    BY <1>1, <2>3, <2>5 DEF Patched, Patches
  <2>17. Known'
    <3> SUFFICES ASSUME NEW p \in Queries, Asked(p)', groups'[p] # None
                 PROVE  Fine(p, groups'[p], history, epoch, p \in lagging', lastProbe', sweep)
      BY <1>1 DEF Known
    <3>1. CASE p # q
      <4>1. Asked(p) /\ groups[p] # None /\ groups'[p] = groups[p] /\ (p \in lagging' <=> p \in lagging)
        BY <2>4, <2>5, <2>8, <3>1 DEF Asked
      <4>2. lastProbe' = lastProbe
        BY <2>4, <2>9, <4>1
      <4> QED
        BY <4>1, <4>2 DEF Known
    <3>2. CASE p = q
      <4>1. Knows(q, g, history, epoch)
        BY <1>2, <2>3 DEF Knows
      <4>2. Executes(q, g, history, epoch, sweep)
        BY <2>3, <2>13 DEF Executes
      <4>3. Carries(history, q, Now, lastProbe')
        BY <1>2, <2>10 DEF Carries
      <4>4. sweep.pc # "idle" => Carries(history, q, Now, sweep.current)
        BY <1>2 DEF Carries, Story
      <4>5. Keeps(q, g, history, q \in lagging', lastProbe', sweep)
        BY <2>3, <4>3, <4>4 DEF Keeps
      <4> QED
        BY <2>5, <3>2, <4>1, <4>2, <4>5 DEF Fine
    <3> QED
      BY <3>1, <3>2
  <2>18. Delivers'
    <3> SUFFICES ASSUME NEW t \in Subscribers \ Observers
                 PROVE  /\ Follows(sub'[t], groups'[QueryOf[t]], got[t])
                        /\ Awaits(t, QueryOf[t], sub'[t], groups'[QueryOf[t]], got[t], sweep)
      BY <1>1 DEF Delivers
    <3>1. QueryOf[t] \in Queries /\ sub[t] \in Subs
      BY <1>1, LiveQueriesAssumption
    <3>2. CASE QueryOf[t] # q
      BY <2>5, <2>6, <3>1, <3>2 DEF Delivers
    <3>3. CASE QueryOf[t] = q
      <4>1. sub[t].pc \notin Attached
        BY <2>7, <3>3
      <4>2. sub[t].pc # "closed" => \A p \in sweep.pending : p.to # t
        BY <4>1 DEF Delivers, Awaits, Due
      <4>3. Awaits(t, QueryOf[t], sub'[t], groups'[QueryOf[t]], got[t], sweep)
        BY <2>8, <4>2 DEF Awaits
      <4>4. CASE sub'[t].pc = "installed" /\ sub[t].pc = "joining"
        <5>1. sub'[t].seenDelivery = -1
          BY <2>6, <4>4 DEF Delivers, Follows
        <5> QED
          BY <2>3, <2>5, <3>3, <4>3, <4>4, <5>1 DEF Follows
      <4>5. CASE sub'[t] = sub[t]
        <5>1. sub'[t].pc \in {"new", "joining"} => sub'[t].seenDelivery = -1
          BY <4>5 DEF Delivers, Follows
        <5> QED
          BY <4>1, <4>3, <4>5, <5>1 DEF Follows
      <4> QED
        BY <2>6, <4>4, <4>5
    <3> QED
      BY <3>2, <3>3
  <2>19. DeliveryTrue' /\ MapsFit'
    BY <1>1 DEF DeliveryTrue, MapsFit
  <2> QED
    BY <2>11, <2>12, <2>14, <2>15, <2>16, <2>17, <2>18, <2>19
<1> QED
  BY <1>3, <1>4

LEMMA OpenFailsKeeps ==
  ASSUME Inv, NEW q \in Queries, OpenFails(q)
  PROVE  Inv'
<1> USE DEF Inv
<1>1. /\ opening[q] # None /\ groups[q] = None /\ sub \in [Subscribers -> Subs]
      /\ opening \in [Queries -> Probes \cup {None}] /\ opening' = [opening EXCEPT ![q] = None]
      /\ faults' \in Nat
      /\ UNCHANGED <<history, epoch, groups, lagging, lastProbe, sweepQueued, retryTimer, sweep, got, missed>>
  BY DEF OpenFails, Fault, Types, Cast, storeVars, hintVars
<1>2. \A s \in Subscribers :
         /\ sub'[s] \in Subs
         /\ \/ sub'[s] = sub[s] /\ ~(QueryOf[s] = q /\ sub[s].pc = "joining")
            \/ QueryOf[s] = q /\ sub[s].pc = "joining" /\ sub'[s].pc = "closed"
  <2> SUFFICES ASSUME NEW s \in Subscribers, QueryOf[s] = q, sub[s].pc = "joining"
               PROVE  /\ [sub[s] EXCEPT !.pc = "closed"] \in Subs
                      /\ [sub[s] EXCEPT !.pc = "closed"].pc = "closed"
    BY <1>1 DEF OpenFails
  <2>1. sub[s] \in Subs
    BY <1>1
  <2> QED
    BY <2>1 DEF Subs
<1>3. \A s \in Subscribers : sub'[s].pc # "closed" => sub'[s] = sub[s]
  BY <1>2
<1>4. \A s \in Subscribers : sub[s].pc \in Attached => sub'[s] = sub[s]
  BY <1>2 DEF Attached
<1>5. Types'
  <2>1. sub' \in [Subscribers -> Subs]
    BY <1>2 DEF OpenFails
  <2> QED
    BY <1>1, <2>1 DEF Types
<1>6. Story' /\ Course' /\ Patched' /\ DeliveryTrue' /\ MapsFit'
  BY <1>1 DEF Story, Course, Patched, DeliveryTrue, MapsFit
<1>7. Cast'
  <2>1. \A p \in Queries : In(sub, p) \subseteq In(sub', p)
    BY <1>4 DEF In
  <2>2. \A p \in Queries : opening'[p] # None =>
           groups[p] = None /\ \E s \in Subscribers : QueryOf[s] = p /\ sub'[s].pc = "joining"
    BY <1>1, <1>2 DEF Cast
  <2>3. \A s \in Subscribers : sub'[s].pc \in Attached => sub[s].pc \in Attached
    BY <1>2 DEF Attached
  <2>4. \A s \in Subscribers \ Observers, o \in Observers :
           QueryOf[s] = QueryOf[o] => sub'[s].pc = "closed" \/ sub'[o].pc = "closed"
    BY <1>2, LiveQueriesAssumption DEF Cast
  <2> QED
    BY <1>1, <2>1, <2>2, <2>3, <2>4 DEF Cast
<1>8. Known'
  BY <1>1, <1>3 DEF Known, Asked
<1>9. Delivers'
  <2> SUFFICES ASSUME NEW t \in Subscribers \ Observers
               PROVE  /\ Follows(sub'[t], groups[QueryOf[t]], got[t])
                      /\ Awaits(t, QueryOf[t], sub'[t], groups[QueryOf[t]], got[t], sweep)
    BY <1>1 DEF Delivers
  <2>1. CASE sub'[t] = sub[t]
    BY <2>1 DEF Delivers
  <2>2. CASE sub'[t].pc = "closed"
    BY <2>2 DEF Follows, Awaits, Attached
  <2> QED
    BY <1>2, <2>1, <2>2
<1> QED
  BY <1>5, <1>6, <1>7, <1>8, <1>9

LEMMA CloseKeeps ==
  ASSUME Inv, Close
  PROVE  Inv'
<1> USE DEF Inv
<1>1. /\ groups' = [q \in Queries |-> None] /\ opening' = [q \in Queries |-> None]
      /\ lagging' = {} /\ sweep' = IdleSweep /\ sweepQueued' = FALSE /\ retryTimer' = FALSE
      /\ sub' = [s \in Subscribers |-> Gone] /\ got' = [s \in Subscribers |-> NothingYet] /\ missed' = {}
      /\ UNCHANGED <<history, epoch, lastProbe, faults>>
  BY DEF Close, Drop, Forget, storeVars
<1>2. Types'
  BY <1>1, Blank DEF Types
<1>3. Story' /\ Course'
  BY <1>1, Blank DEF Story, Course
<1>4. Cast'
  BY <1>1, Blank, LiveQueriesAssumption DEF Cast, Attached
<1>5. Patched' /\ Known'
  BY <1>1 DEF Patched, Known
<1>6. Delivers'
  BY <1>1, Blank DEF Delivers, Follows, Awaits, Attached
<1>7. DeliveryTrue' /\ MapsFit'
  BY <1>1, Blank DEF DeliveryTrue, MapsFit
<1> QED
  BY <1>2, <1>3, <1>4, <1>5, <1>6, <1>7

(***************************************************************************)
(* What subscribers are handed.                                            *)
(***************************************************************************)
LEMMA SinceIsMoment ==
  ASSUME Types, Story, NEW p \in Probes, NEW q
  PROVE  /\ \A m \in MomentsSince(p) :
               Moment(history, epoch, m) /\ AtLeast(m, p) /\ Answer(q, m) = At(history, q, m)
         /\ \A r : Reflects(q, r, p) <=> Mirrors(history, epoch, q, r, p)
<1>1. epoch \in Nat /\ Len(history) \in Nat
  BY Here
<1>2. \A m : Answer(q, m) = At(history, q, m)
  BY DEF Answer, At, Rows, Shown
<1>3. ASSUME NEW m \in MomentsSince(p)
      PROVE  Moment(history, epoch, m) /\ AtLeast(m, p) /\ m \in [version : 0 .. Len(history), epoch : 0 .. epoch]
  <2>1. m \in [version : p.version .. Len(history), epoch : p.epoch .. epoch]
    BY <1>3 DEF MomentsSince
  <2>2. /\ m.version \in Nat /\ m.epoch \in Nat /\ m.version <= Len(history) /\ m.epoch <= epoch
        /\ m.version >= p.version /\ m.epoch >= p.epoch /\ m \in Probes
    BY <1>1, <2>1 DEF Probes
  <2>3. m \in [version : 0 .. Len(history), epoch : 0 .. epoch]
    BY <1>1, <2>1, <2>2 DEF Probes
  <2>4. /\ m.version # 0 => history[m.version].epoch <= m.epoch
        /\ m.version # Len(history) => m.epoch <= history[m.version + 1].epoch
    BY <1>3 DEF MomentsSince
  <2> QED
    BY <2>2, <2>3, <2>4 DEF Moment, AtLeast
<1>4. ASSUME NEW m, Moment(history, epoch, m), AtLeast(m, p) PROVE m \in MomentsSince(p)
  <2>1. m \in [version : p.version .. Len(history), epoch : p.epoch .. epoch]
    BY <1>1, <1>4 DEF Moment, AtLeast, Probes
  <2> QED
    BY <1>4, <2>1 DEF MomentsSince, Moment
<1>5. ASSUME NEW r PROVE Reflects(q, r, p) <=> Mirrors(history, epoch, q, r, p)
  BY <1>2, <1>3, <1>4 DEF Reflects, Mirrors
<1> QED
  BY <1>2, <1>3, <1>5

LEMMA ReceiptIs ==
  ASSUME Types, Story, NEW s \in Subscribers, NEW r \in Results \cup {None}, NEW p \in Probes, NEW base,
         NEW have, s \notin Observers => groups[QueryOf[s]] \in Groups
  PROVE  LET new == Receipt(s, r, p, base, have) IN
         /\ new \in Receipts
         /\ s \in Observers => new.reflects /\ new.fits
         /\ s \notin Observers =>
               /\ new.result = r /\ new.adrift = groups[QueryOf[s]].adrift
               /\ new.fits <=> base \in {None, have.result}
               /\ new.reflects <=> Mirrors(history, epoch, QueryOf[s], r, p)
<1>1. CASE s \in Observers
  <2>1. Now \in Probes
    BY Here
  <2>2. [NothingYet EXCEPT !.told = Now] \in Receipts
    BY <2>1 DEF NothingYet, Receipts
  <2>3. [NothingYet EXCEPT !.told = Now].reflects /\ [NothingYet EXCEPT !.told = Now].fits
    BY DEF NothingYet
  <2> QED
    BY <1>1, <2>2, <2>3 DEF Receipt
<1>2. CASE s \notin Observers
  <2> DEFINE x == [result |-> r, told |-> None, adrift |-> groups[QueryOf[s]].adrift,
                   reflects |-> Reflects(QueryOf[s], r, p), fits |-> base \in {None, have.result}]
  <2>1. groups[QueryOf[s]].adrift \in BOOLEAN
    BY <1>2 DEF Groups
  <2>2. Reflects(QueryOf[s], r, p) \in BOOLEAN
    BY DEF Reflects
  <2>3. x \in Receipts
    BY <2>1, <2>2 DEF Receipts
  <2>4. Reflects(QueryOf[s], r, p) <=> Mirrors(history, epoch, QueryOf[s], r, p)
    BY SinceIsMoment
  <2>5. Receipt(s, r, p, base, have) = x
    BY <1>2 DEF Receipt
  <2>6. /\ x.result = r /\ x.adrift = groups[QueryOf[s]].adrift
        /\ x.fits <=> base \in {None, have.result}
        /\ x.reflects <=> Reflects(QueryOf[s], r, p)
    OBVIOUS
  <2> HIDE DEF x
  <2> QED
    BY <1>2, <2>3, <2>4, <2>5, <2>6
<1> QED
  BY <1>1, <1>2

LEMMA RegisteredIs ==
  ASSUME NEW s, NEW d \in Subs, NEW g \in Groups
  PROVE  LET new == Registered(s, d, g) IN
         /\ new \in Subs /\ new.pc = "live"
         /\ d.delivered => new.seenDelivery = d.seenDelivery
         /\ ~d.delivered /\ s \notin Observers => new.seenDelivery = g.deliveries
<1>1. PICK n : n = IF d.delivered \/ s \in Observers THEN d.seenDelivery ELSE g.deliveries
  OBVIOUS
<1>2. n \in Int
  BY <1>1 DEF Subs, Groups
<1> DEFINE x == [d EXCEPT !.pc = "live", !.fresh = FALSE, !.delivered = TRUE, !.behind = "none", !.seenDelivery = n]
<1>3. x \in Subs /\ x.pc = "live" /\ x.seenDelivery = n
  BY <1>2 DEF Subs, Attached
<1>4. Registered(s, d, g) = x
  BY <1>1 DEF Registered
<1> HIDE DEF x
<1> QED
  BY <1>1, <1>3, <1>4

(* What a registration is given by the group it found. *)
LEMMA HandedIs ==
  ASSUME Types, Story, NEW s \in Subscribers, NEW d \in Subs, NEW g \in Groups, NEW have \in Receipts,
         have.fits, have.reflects \/ have.adrift,
         s \notin Observers => /\ groups[QueryOf[s]] \in Groups
                               /\ groups[QueryOf[s]].adrift \/ Mirrors(history, epoch, QueryOf[s], g.result, g.seenProbe)
  PROVE  LET new == Handed(s, d, g, have) IN
         /\ new \in Receipts /\ new.fits /\ (new.reflects \/ new.adrift)
         /\ d.delivered => new = have
         /\ ~d.delivered /\ s \notin Observers => new.result = g.result
<1>1. CASE d.delivered
  BY <1>1 DEF Handed
<1>2. CASE ~d.delivered
  <2>1. g.result \in Results \cup {None} /\ g.seenProbe \in Probes
    BY DEF Groups
  <2>2. Handed(s, d, g, have) = Receipt(s, g.result, g.seenProbe, None, have)
    BY <1>2 DEF Handed
  <2> QED
    BY <1>2, <2>1, <2>2, ReceiptIs
<1> QED
  BY <1>1, <1>2

LEMMA GoOnEach ==
  ASSUME Inv, NEW S \in SUBSET Subscribers, NEW gs, GoOn(S, gs),
         \A s \in S : /\ gs[QueryOf[s]] \in Groups
                      /\ s \notin Observers =>
                            /\ groups[QueryOf[s]] \in Groups
                            /\ \/ groups[QueryOf[s]].adrift
                               \/ Mirrors(history, epoch, QueryOf[s], gs[QueryOf[s]].result, gs[QueryOf[s]].seenProbe)
  PROVE  /\ sub' \in [Subscribers -> Subs] /\ got' \in [Subscribers -> Receipts] /\ sweepQueued' \in BOOLEAN
         /\ DeliveryTrue' /\ MapsFit'
         /\ \A s \in Subscribers \ S : sub'[s] = sub[s] /\ got'[s] = got[s]
         /\ \A s \in S : sub'[s].pc \in {"live", "refreshing"}
         /\ \A s \in S \ Observers :
               \/ sub'[s].seenDelivery = sub[s].seenDelivery /\ got'[s] = got[s]
               \/ sub'[s].seenDelivery = gs[QueryOf[s]].deliveries /\ got'[s].result = gs[QueryOf[s]].result
<1> USE DEF Inv
<1>1. /\ sub' = [s \in Subscribers |-> IF s \notin S THEN sub[s]
                                       ELSE IF AtOnce(s) THEN Registered(s, sub[s], gs[QueryOf[s]])
                                       ELSE Refreshing(s)]
      /\ got' = [s \in Subscribers |-> IF s \in S /\ AtOnce(s) THEN Handed(s, sub[s], gs[QueryOf[s]], got[s])
                                       ELSE got[s]]
  BY DEF GoOn
<1>2. sweepQueued' \in BOOLEAN
  BY DEF GoOn, Hinted, Types
<1>3. ASSUME NEW s \in S
      PROVE  /\ sub'[s] \in Subs /\ got'[s] \in Receipts /\ got'[s].fits /\ (got'[s].reflects \/ got'[s].adrift)
             /\ sub'[s].pc \in {"live", "refreshing"}
             /\ s \notin Observers =>
                   \/ sub'[s].seenDelivery = sub[s].seenDelivery /\ got'[s] = got[s]
                   \/ sub'[s].seenDelivery = gs[QueryOf[s]].deliveries /\ got'[s].result = gs[QueryOf[s]].result
  <2>1. /\ s \in Subscribers /\ sub[s] \in Subs /\ got[s] \in Receipts /\ got[s].fits
        /\ got[s].reflects \/ got[s].adrift
    BY DEF Types, DeliveryTrue, MapsFit
  <2>2. CASE AtOnce(s)
    <3> DEFINE g == gs[QueryOf[s]]
               d == Registered(s, sub[s], g)
               h == Handed(s, sub[s], g, got[s])
    <3>1. sub'[s] = d /\ got'[s] = h
      BY <1>1, <2>1, <2>2
    <3>2. /\ d \in Subs /\ d.pc = "live"
          /\ sub[s].delivered => d.seenDelivery = sub[s].seenDelivery
          /\ ~sub[s].delivered /\ s \notin Observers => d.seenDelivery = g.deliveries
      BY <2>1, RegisteredIs
    <3>3. /\ h \in Receipts /\ h.fits /\ (h.reflects \/ h.adrift)
          /\ sub[s].delivered => h = got[s]
          /\ ~sub[s].delivered /\ s \notin Observers => h.result = g.result
      BY <2>1, HandedIs
    <3>4. sub[s].delivered \in BOOLEAN
      BY <2>1 DEF Subs
    <3> HIDE DEF d, h
    <3> QED
      BY <3>1, <3>2, <3>3, <3>4
  <2>3. CASE ~AtOnce(s)
    <3>1. sub'[s] = Refreshing(s) /\ got'[s] = got[s]
      BY <1>1, <2>1, <2>3
    <3>2. /\ Refreshing(s) \in Subs /\ Refreshing(s).pc = "refreshing"
          /\ Refreshing(s).seenDelivery = sub[s].seenDelivery
      BY <2>1 DEF Refreshing, Subs, Attached
    <3> QED
      BY <2>1, <3>1, <3>2
  <2> QED
    BY <2>2, <2>3
<1>4. \A s \in Subscribers \ S : sub'[s] = sub[s] /\ got'[s] = got[s]
  BY <1>1
<1>5. sub' \in [Subscribers -> Subs]
  <2>1. \A s \in Subscribers : sub'[s] \in Subs
    BY <1>3, <1>4 DEF Types
  <2> QED
    BY <1>1, <2>1
<1>6. got' \in [Subscribers -> Receipts]
  <2>1. \A s \in Subscribers : got'[s] \in Receipts
    BY <1>3, <1>4 DEF Types
  <2> QED
    BY <1>1, <2>1
<1>7. DeliveryTrue' /\ MapsFit'
  BY <1>3, <1>4 DEF DeliveryTrue, MapsFit
<1> QED
  BY <1>2, <1>3, <1>4, <1>5, <1>6, <1>7

LEMMA ExecutionIs ==
  ASSUME NEW p \in Probes, NEW after \in Nat
  PROVE  /\ Running(p) \in Executions /\ Running(p) # None /\ Running(p).phase = "running" /\ Running(p).probe = p
         /\ Patching(p, after) \in Executions /\ Patching(p, after) # None
         /\ Patching(p, after).phase = "patching" /\ Patching(p, after).probe = p /\ Patching(p, after).after = after
<1>1. Running(p) \in Executions /\ Running(p).phase = "running" /\ Running(p).probe = p
  BY DEF Running, Executions
<1>2. /\ Patching(p, after) \in Executions /\ Patching(p, after).phase = "patching"
      /\ Patching(p, after).probe = p /\ Patching(p, after).after = after
  BY <1>1 DEF Patching, Executions
<1>3. None \notin Executions
  BY NoneAssumption
<1> QED
  BY <1>1, <1>2, <1>3

LEMMA WithExecution ==
  ASSUME NEW g \in Groups, NEW x \in Executions \cup {None}
  PROVE  LET new == [g EXCEPT !.execution = x] IN
         /\ new \in Groups /\ new # None /\ new.execution = x
         /\ new.dependencies = g.dependencies /\ new.seenProbe = g.seenProbe /\ new.result = g.result
         /\ new.maintained = g.maintained /\ new.deliveries = g.deliveries /\ new.adrift = g.adrift
<1> DEFINE new == [g EXCEPT !.execution = x]
<1>1. /\ new \in Groups /\ new.execution = x
      /\ new.dependencies = g.dependencies /\ new.seenProbe = g.seenProbe /\ new.result = g.result
      /\ new.maintained = g.maintained /\ new.deliveries = g.deliveries /\ new.adrift = g.adrift
  BY DEF Groups
<1>2. None \notin Groups
  BY NoneAssumption
<1> QED
  BY <1>1, <1>2

(* Subscribers move between the steps of a registration, or leave; groups empty with them. *)
LEMMA CastKeeps ==
  ASSUME Inv, opening' = opening, lastProbe # None => lastProbe' # None,
         \A s \in Subscribers : \/ sub'[s].pc = sub[s].pc
                                \/ sub[s].pc \in Attached /\ sub'[s].pc \in Attached \cup {"closed"},
         \A s \in Subscribers : sub'[s].pc \in Attached => groups'[QueryOf[s]] # None,
         \A q \in Queries : groups'[q] # None => groups[q] # None /\ In(sub', q) # {},
         \A q \in lagging' : groups'[q] # None
  PROVE  Cast'
<1> USE DEF Inv
<1>1. \A s \in Subscribers : sub'[s].pc # "closed" => sub[s].pc # "closed"
  BY DEF Attached
<1>2. \A s \in Subscribers : sub[s].pc = "joining" => sub'[s].pc = "joining"
  BY DEF Attached
<1>3. \A s \in Subscribers \ Observers, o \in Observers :
         QueryOf[s] = QueryOf[o] => sub'[s].pc = "closed" \/ sub'[o].pc = "closed"
  BY <1>1, LiveQueriesAssumption DEF Cast
<1>4. \A q \in Queries : opening'[q] # None =>
         groups'[q] = None /\ \E s \in Subscribers : QueryOf[s] = q /\ sub'[s].pc = "joining"
  BY <1>2 DEF Cast
<1> QED
  BY <1>3, <1>4 DEF Cast

LEMMA SettleKeeps ==
  ASSUME Inv, NEW s \in Subscribers, Settle(s)
  PROVE  Inv'
<1> DEFINE q == QueryOf[s]
           g == groups[q]
<1> USE DEF Inv
<1>1. /\ q \in Queries /\ sub[s].pc = "installed" /\ sub \in [Subscribers -> Subs] /\ sub[s] \in Subs
      /\ groups \in [Queries -> Groups \cup {None}]
      /\ UNCHANGED <<history, epoch, opening, lagging, lastProbe, retryTimer, sweep, missed, faults>>
  BY LiveQueriesAssumption DEF Settle, Types, storeVars
<1>2. g \in Groups /\ g # None
  BY <1>1 DEF Cast, Attached
<1> HIDE DEF q, g
<1>3. CASE Wants(s) /\ g.result = None
  <2>1. /\ sub' = [sub EXCEPT ![s].pc = "executing"]
        /\ groups' = IF g.execution # None THEN groups
                     ELSE [groups EXCEPT ![q].execution = Running(g.seenProbe)]
        /\ UNCHANGED <<sweepQueued, got>>
    BY <1>1, <1>3 DEF Settle, q, g
  <2>2. /\ [sub[s] EXCEPT !.pc = "executing"] \in Subs /\ [sub[s] EXCEPT !.pc = "executing"].pc = "executing"
        /\ [sub[s] EXCEPT !.pc = "executing"].seenDelivery = sub[s].seenDelivery
    BY <1>1 DEF Subs, Attached
  <2>3. /\ sub' \in [Subscribers -> Subs] /\ sub'[s].pc = "executing" /\ sub'[s].seenDelivery = sub[s].seenDelivery
        /\ \A t \in Subscribers : t # s => sub'[t] = sub[t]
    BY <1>1, <2>1, <2>2
  <2>4. PICK n \in Groups :
           /\ groups' = [groups EXCEPT ![q] = n] /\ n # None
           /\ n.execution # None
           /\ n.execution = g.execution \/ (g.execution = None /\ n.execution = Running(g.seenProbe))
           /\ n.dependencies = g.dependencies /\ n.seenProbe = g.seenProbe /\ n.result = g.result
           /\ n.maintained = g.maintained /\ n.deliveries = g.deliveries /\ n.adrift = g.adrift
    <3>1. CASE g.execution # None
      <4>1. groups' = [groups EXCEPT ![q] = g]
        BY <1>1, <2>1, <3>1 DEF g
      <4> QED
        BY <1>2, <3>1, <4>1
    <3>2. CASE g.execution = None
      <4>1. g.seenProbe \in Probes
        BY <1>2 DEF Groups
      <4>2. Running(g.seenProbe) \in Executions /\ Running(g.seenProbe) # None
        BY <4>1, ExecutionIs
      <4>3. groups' = [groups EXCEPT ![q] = [g EXCEPT !.execution = Running(g.seenProbe)]]
        BY <1>1, <2>1, <3>2 DEF g
      <4> DEFINE n == [g EXCEPT !.execution = Running(g.seenProbe)]
      <4>4. /\ n \in Groups /\ n # None /\ n.execution = Running(g.seenProbe)
            /\ n.dependencies = g.dependencies /\ n.seenProbe = g.seenProbe /\ n.result = g.result
            /\ n.maintained = g.maintained /\ n.deliveries = g.deliveries /\ n.adrift = g.adrift
        BY <1>2, <4>2, WithExecution
      <4>5. groups' = [groups EXCEPT ![q] = n]
        BY <4>3
      <4> HIDE DEF n
      <4> QED
        BY <3>2, <4>2, <4>4, <4>5
    <3> QED
      BY <3>1, <3>2
  <2>5. groups'[q] = n /\ \A p \in Queries : p # q => groups'[p] = groups[p]
    BY <1>1, <2>4
  <2>6. g.seenProbe \in Probes /\ Running(g.seenProbe).phase = "running" /\ Running(g.seenProbe).probe = g.seenProbe
    <3>1. g.seenProbe \in Probes
      BY <1>2 DEF Groups
    <3> QED
      BY <3>1, ExecutionIs
  <2>7. Types'
    BY <1>1, <2>1, <2>3, <2>4 DEF Types
  <2>8. Story' /\ DeliveryTrue' /\ MapsFit'
    BY <1>1, <2>1 DEF Story, DeliveryTrue, MapsFit
  <2>9. \A p \in Queries : groups'[p] # None <=> groups[p] # None
    BY <1>2, <2>4, <2>5 DEF g
  <2>10. Course'
    <3>1. sweep \in Sweeps
      BY DEF Types
    <3> QED
      BY <1>1, <2>9, <3>1 DEF Course, Sweeps
  <2>11. \A t \in Subscribers : sub'[t].pc = sub[t].pc \/ (sub[t].pc \in Attached /\ sub'[t].pc \in Attached)
    BY <1>1, <2>3 DEF Attached
  <2>12. Cast'
    <3>1. \A t \in Subscribers : sub'[t].pc \in Attached => groups'[QueryOf[t]] # None
      BY <2>9, <2>11, LiveQueriesAssumption DEF Cast
    <3>2. \A p \in Queries : groups'[p] # None => groups[p] # None /\ In(sub', p) # {}
      BY <2>9, <2>11 DEF Cast, In
    <3>3. \A p \in lagging' : groups'[p] # None
      BY <1>1, <2>9 DEF Cast, Types
    <3> QED
      BY <1>1, <2>11, <3>1, <3>2, <3>3, CastKeeps
  <2>13. Patched'
    <3> SUFFICES ASSUME NEW p \in Queries, groups'[p] # None PROVE Patches(p, groups'[p], sweep)
      BY <1>1 DEF Patched
    <3>1. CASE p # q
      BY <2>5, <3>1 DEF Patched
    <3>2. CASE p = q
      <4>1. Patches(q, g, sweep)
        BY <1>1, <1>2 DEF Patched, g, q
      <4> QED
        BY <2>4, <2>5, <2>6, <3>2, <4>1 DEF Patches
    <3> QED
      BY <3>1, <3>2
  <2>14. Known'
    <3> SUFFICES ASSUME NEW p \in Queries, Asked(p)', groups'[p] # None
                 PROVE  Fine(p, groups'[p], history, epoch, p \in lagging, lastProbe, sweep)
      BY <1>1 DEF Known
    <3>1. Asked(p) /\ groups[p] # None
      BY <2>9, <2>11 DEF Asked, Attached
    <3>2. CASE p # q
      BY <2>5, <3>1, <3>2 DEF Known
    <3>3. CASE p = q
      <4>1. /\ Knows(q, g, history, epoch) /\ Executes(q, g, history, epoch, sweep)
            /\ Keeps(q, g, history, q \in lagging, lastProbe, sweep)
        BY <3>1, <3>3, KnownOf DEF g
      <4>2. Knows(q, n, history, epoch)
        BY <2>4, <4>1 DEF Knows
      <4>3. Keeps(q, n, history, q \in lagging, lastProbe, sweep)
        BY <2>4, <4>1 DEF Keeps
      <4>4. Executes(q, n, history, epoch, sweep)
        <5>1. CASE n.execution = g.execution
          BY <2>4, <4>1, <5>1 DEF Executes, Continues
        <5>2. CASE g.execution = None /\ n.execution = Running(g.seenProbe)
          <6>1. ~(sweep.pc = "waiting" /\ sweep.at = q)
            BY <4>1, <5>2 DEF Executes
          <6>2. Moment(history, epoch, g.seenProbe) /\ AtLeast(g.seenProbe, g.seenProbe)
            BY <2>6, <4>1 DEF Knows, AtLeast, Probes
          <6> QED
            BY <1>3, <2>4, <2>6, <5>2, <6>1, <6>2 DEF Executes, Carries
        <5> QED
          BY <2>4, <5>1, <5>2
      <4> QED
        BY <2>5, <3>3, <4>2, <4>3, <4>4 DEF Fine
    <3> QED
      BY <3>2, <3>3
  <2>15. Delivers'
    <3> SUFFICES ASSUME NEW t \in Subscribers \ Observers
                 PROVE  /\ Follows(sub'[t], groups'[QueryOf[t]], got[t])
                        /\ Awaits(t, QueryOf[t], sub'[t], groups'[QueryOf[t]], got[t], sweep)
      BY <1>1, <2>1 DEF Delivers
    <3>1. /\ QueryOf[t] \in Queries /\ Follows(sub[t], groups[QueryOf[t]], got[t])
          /\ Awaits(t, QueryOf[t], sub[t], groups[QueryOf[t]], got[t], sweep)
      BY <1>1, LiveQueriesAssumption DEF Delivers
    <3>2. CASE QueryOf[t] # q
      BY <2>3, <2>5, <3>1, <3>2 DEF q
    <3>3. CASE QueryOf[t] = q
      <4>1. sub[t].pc # "closed" => \A p \in sweep.pending : p.to # t
        BY <1>3, <3>1, <3>3 DEF Awaits, Due, g
      <4>2. sub'[t].pc # "closed" => sub[t].pc # "closed"
        BY <1>1, <2>3
      <4>3. Awaits(t, QueryOf[t], sub'[t], groups'[QueryOf[t]], got[t], sweep)
        BY <4>1, <4>2 DEF Awaits
      <4>4. CASE t # s
        BY <1>3, <2>3, <2>4, <2>5, <3>1, <3>3, <4>3, <4>4 DEF Follows, g
      <4>5. CASE t = s
        BY <1>1, <1>3, <2>3, <2>4, <2>5, <3>1, <3>3, <4>3, <4>5 DEF Follows, g, Attached
      <4> QED
        BY <4>4, <4>5
    <3> QED
      BY <3>2, <3>3
  <2> QED
    BY <2>7, <2>8, <2>10, <2>12, <2>13, <2>14, <2>15
<1>4. CASE ~(Wants(s) /\ g.result = None)
  <2>1. GoOn({s}, groups) /\ UNCHANGED groups
    BY <1>1, <1>4 DEF Settle, q, g
  <2>2. s \notin Observers => Asked(q) /\ g.result # None
    BY <1>1, <1>4 DEF Asked, Wants, q
  <2>3. s \notin Observers => Knows(q, g, history, epoch)
    BY <1>1, <1>2, <2>2, KnownOf DEF g
  <2>4. s \notin Observers => g.adrift \/ Mirrors(history, epoch, q, g.result, g.seenProbe)
    BY <2>2, <2>3 DEF Knows
  <2>5. \A t \in {s} : /\ groups[QueryOf[t]] \in Groups
                       /\ t \notin Observers =>
                            /\ groups[QueryOf[t]] \in Groups
                            /\ \/ groups[QueryOf[t]].adrift
                               \/ Mirrors(history, epoch, QueryOf[t], groups[QueryOf[t]].result,
                                          groups[QueryOf[t]].seenProbe)
    BY <1>2, <2>4 DEF g, q
  <2>6. /\ sub' \in [Subscribers -> Subs] /\ got' \in [Subscribers -> Receipts] /\ sweepQueued' \in BOOLEAN
        /\ DeliveryTrue' /\ MapsFit'
        /\ \A t \in Subscribers \ {s} : sub'[t] = sub[t] /\ got'[t] = got[t]
        /\ sub'[s].pc \in {"live", "refreshing"}
        /\ s \notin Observers =>
              \/ sub'[s].seenDelivery = sub[s].seenDelivery /\ got'[s] = got[s]
              \/ sub'[s].seenDelivery = g.deliveries /\ got'[s].result = g.result
    <3> DEFINE S == {s}
    <3>1. S \in SUBSET Subscribers /\ s \in S /\ \A t \in S : t = s
      OBVIOUS
    <3>2. GoOn(S, groups) /\ \A t \in S :
                /\ groups[QueryOf[t]] \in Groups
                /\ t \notin Observers =>
                     /\ groups[QueryOf[t]] \in Groups
                     /\ \/ groups[QueryOf[t]].adrift
                        \/ Mirrors(history, epoch, QueryOf[t], groups[QueryOf[t]].result,
                                   groups[QueryOf[t]].seenProbe)
      BY <2>1, <2>5
    <3> HIDE DEF S, Inv
    <3>3. /\ sub' \in [Subscribers -> Subs] /\ got' \in [Subscribers -> Receipts] /\ sweepQueued' \in BOOLEAN
          /\ DeliveryTrue' /\ MapsFit'
          /\ \A t \in Subscribers \ S : sub'[t] = sub[t] /\ got'[t] = got[t]
          /\ \A t \in S : sub'[t].pc \in {"live", "refreshing"}
          /\ \A t \in S \ Observers :
                \/ sub'[t].seenDelivery = sub[t].seenDelivery /\ got'[t] = got[t]
                \/ sub'[t].seenDelivery = groups[QueryOf[t]].deliveries /\ got'[t].result = groups[QueryOf[t]].result
      BY <3>1, <3>2, GoOnEach
    <3> QED
      BY <3>1, <3>3 DEF g, q, S
  <2>7. Types'
    BY <1>1, <2>1, <2>6 DEF Types
  <2>8. Story' /\ Course' /\ Patched'
    BY <1>1, <2>1 DEF Story, Course, Patched
  <2>9. \A t \in Subscribers : sub'[t].pc = sub[t].pc \/ (sub[t].pc \in Attached /\ sub'[t].pc \in Attached)
    BY <1>1, <2>6 DEF Attached
  <2>10. Cast'
    <3>1. \A t \in Subscribers : sub'[t].pc \in Attached => groups'[QueryOf[t]] # None
      BY <2>1, <2>9 DEF Cast
    <3>2. \A p \in Queries : groups'[p] # None => groups[p] # None /\ In(sub', p) # {}
      BY <2>1, <2>9 DEF Cast, In
    <3>3. \A p \in lagging' : groups'[p] # None
      BY <1>1, <2>1 DEF Cast
    <3> QED
      BY <1>1, <2>9, <3>1, <3>2, <3>3, CastKeeps
  <2>11. Known'
    <3>1. \A p \in Queries : Asked(p)' => Asked(p)
      BY <2>9 DEF Asked, Attached
    <3> QED
      BY <1>1, <2>1, <3>1 DEF Known
  <2>12. Delivers'
    <3> SUFFICES ASSUME NEW t \in Subscribers \ Observers
                 PROVE  /\ Follows(sub'[t], groups[QueryOf[t]], got'[t])
                        /\ Awaits(t, QueryOf[t], sub'[t], groups[QueryOf[t]], got'[t], sweep)
      BY <1>1, <2>1 DEF Delivers
    <3>1. /\ Follows(sub[t], groups[QueryOf[t]], got[t])
          /\ Awaits(t, QueryOf[t], sub[t], groups[QueryOf[t]], got[t], sweep)
      BY DEF Delivers
    <3>2. CASE t # s
      BY <2>6, <3>1, <3>2
    <3>3. CASE t = s
      <4>1. g.result # None /\ g.deliveries \in Nat
        BY <1>2, <2>2, <3>3 DEF Groups
      <4>2. Follows(sub'[t], g, got'[t])
        BY <1>1, <2>6, <3>1, <3>3, <4>1 DEF Follows, g, q, Attached
      <4>3. Awaits(t, q, sub'[t], g, got'[t], sweep)
        <5> SUFFICES ASSUME NEW p \in sweep.pending, p.to = t PROVE Due(p, q, sub'[t], g, got'[t], sweep)
          BY DEF Awaits
        <5>1. Due(p, q, sub[t], g, got[t], sweep)
          BY <1>1, <3>1, <3>3 DEF Awaits, g, q
        <5>2. sub'[t].pc \in Attached
          BY <2>6, <3>3 DEF Attached
        <5> QED
          BY <2>6, <3>3, <4>1, <5>1, <5>2 DEF Due
      <4> QED
        BY <3>3, <4>2, <4>3 DEF g, q
    <3> QED
      BY <3>2, <3>3
  <2> QED
    BY <2>6, <2>7, <2>8, <2>10, <2>11, <2>12
<1> QED
  BY <1>3, <1>4

(***************************************************************************)
(* A group is removed with its last subscriber.                            *)
(***************************************************************************)
LEMMA SweepFields ==
  ASSUME Types
  PROVE  /\ sweep \in Sweeps /\ sweep.todo \subseteq Queries /\ sweep.at \in Queries \cup {None}
         /\ \A q \in Queries : q # None
         /\ \A p \in sweep.pending :
               p.to \in Subscribers /\ p.result \in Results \cup {None} /\ p.base \in Results \cup {None}
<1>1. sweep \in Sweeps
  BY DEF Types
<1>2. \A q \in Queries : q # None
  BY NoneAssumption
<1> QED
  BY <1>1, <1>2 DEF Sweeps

LEMMA WithoutIs ==
  ASSUME Inv, NEW q \in Queries
  PROVE  LET w == Without(q) IN
         /\ w \in Sweeps /\ w.last = sweep.last /\ w.current = sweep.current /\ w.pending = sweep.pending
         /\ w.todo = sweep.todo \ {q}
         /\ \/ w.pc = sweep.pc /\ w.at = sweep.at /\ w.before = sweep.before /\ sweep.at # q
            \/ w.pc = "next" /\ w.at = None /\ sweep.at = q /\ sweep.pc \in {"resolving", "waiting"}
         /\ sweep.pc = "idle" => w = IdleSweep
<1> USE DEF Inv
<1>1. sweep \in Sweeps /\ q # None
  BY SweepFields
<1>2. CASE sweep.at # q
  <2> DEFINE w == [sweep EXCEPT !.todo = @ \ {q}]
  <2>1. w = Without(q)
    BY <1>2 DEF Without
  <2>2. /\ w \in Sweeps /\ w.last = sweep.last /\ w.current = sweep.current /\ w.pending = sweep.pending
        /\ w.todo = sweep.todo \ {q} /\ w.pc = sweep.pc /\ w.at = sweep.at /\ w.before = sweep.before
    BY <1>1 DEF Sweeps
  <2>3. sweep.pc = "idle" => w = IdleSweep
    <3> SUFFICES ASSUME sweep.pc = "idle" PROVE w = IdleSweep
      OBVIOUS
    <3>1. sweep = IdleSweep /\ sweep.todo = {}
      BY Blank DEF Course
    <3>2. w = [sweep EXCEPT !.todo = {}]
      BY <3>1
    <3>3. w = sweep
      BY <1>1, <3>1, <3>2 DEF Sweeps
    <3> QED
      BY <3>1, <3>3
  <2> HIDE DEF w
  <2> QED
    BY <1>2, <2>1, <2>2, <2>3
<1>3. CASE sweep.at = q
  <2> DEFINE w == [sweep EXCEPT !.pc = "next", !.at = None, !.before = None]
  <2>1. w = Without(q)
    BY <1>3 DEF Without
  <2>2. /\ w \in Sweeps /\ w.last = sweep.last /\ w.current = sweep.current /\ w.pending = sweep.pending
        /\ w.todo = sweep.todo /\ w.pc = "next" /\ w.at = None
    BY <1>1 DEF Sweeps
  <2>3. sweep.pc \in {"resolving", "waiting"} /\ q \notin sweep.todo
    BY <1>1, <1>3 DEF Course
  <2> HIDE DEF w
  <2> QED
    BY <1>3, <2>1, <2>2, <2>3
<1> QED
  BY <1>2, <1>3

LEMMA WithoutKeeps ==
  ASSUME Inv, NEW q \in Queries, sweep' = Without(q), lastProbe' = lastProbe, history' = history, epoch' = epoch,
         groups' = [groups EXCEPT ![q] = None]
  PROVE  /\ Story' /\ Course' /\ Patched'
         /\ \A p \in Queries : \A g, late : p # q /\ Fine(p, g, history, epoch, late, lastProbe, sweep)
               => Fine(p, g, history, epoch, late, lastProbe, sweep')
         /\ \A p \in sweep.pending : \A t, d, g, have : QueryOf[t] # q /\ Due(p, QueryOf[t], d, g, have, sweep)
               => Due(p, QueryOf[t], d, g, have, sweep') \/ QueryOf[t] = None
<1>1. /\ sweep' \in Sweeps /\ sweep'.last = sweep.last /\ sweep'.current = sweep.current
      /\ sweep'.pending = sweep.pending /\ sweep'.todo = sweep.todo \ {q}
      /\ \/ sweep'.pc = sweep.pc /\ sweep'.at = sweep.at /\ sweep'.before = sweep.before /\ sweep.at # q
         \/ sweep'.pc = "next" /\ sweep'.at = None /\ sweep.at = q /\ sweep.pc \in {"resolving", "waiting"}
      /\ sweep.pc = "idle" => sweep' = IdleSweep
  BY WithoutIs
<1>2. /\ sweep \in Sweeps /\ sweep.todo \subseteq Queries /\ sweep.at \in Queries \cup {None}
      /\ \A p \in Queries : p # None
  BY SweepFields DEF Inv
<1> USE DEF Inv
<1>3. groups'[q] = None /\ \A p \in Queries : p # q => groups'[p] = groups[p]
  BY DEF Types
<1>4. Story'
  BY <1>1 DEF Story
<1>5. Course'
  <2>1. sweep'.pc = "idle" => sweep' = IdleSweep
    BY <1>1
  <2>2. sweep'.pc # "idle" => sweep'.last = lastProbe' /\ lastProbe' # None /\ AtLeast(sweep'.current, lastProbe')
    BY <1>1 DEF Course
  <2>3. sweep'.pc = "planning" =>
          sweep'.todo = {} /\ sweep'.pending = {} /\ sweep'.last.epoch = sweep'.current.epoch
    BY <1>1 DEF Course
  <2>4. sweep'.pc = "resolving" => sweep'.before # None
    BY <1>1 DEF Course
  <2>5. sweep'.at # None <=> sweep'.pc \in {"resolving", "waiting"}
    BY <1>1 DEF Course
  <2>6. sweep'.at # None => groups'[sweep'.at] # None /\ sweep'.at \notin sweep'.todo
    BY <1>1, <1>2, <1>3 DEF Course
  <2>7. \A p \in sweep'.todo : groups'[p] # None
    BY <1>1, <1>2, <1>3 DEF Course
  <2> QED
    BY <2>1, <2>2, <2>3, <2>4, <2>5, <2>6, <2>7 DEF Course
<1>6. Patched'
  BY <1>1, <1>2, <1>3 DEF Patched, Patches
<1>7. ASSUME NEW p \in Queries, NEW g, NEW late, p # q, Fine(p, g, history, epoch, late, lastProbe, sweep)
      PROVE  Fine(p, g, history, epoch, late, lastProbe, sweep')
  <2>1. Executes(p, g, history, epoch, sweep')
    <3>1. (sweep'.pc = "waiting" /\ sweep'.at = p) <=> (sweep.pc = "waiting" /\ sweep.at = p)
      BY <1>1, <1>2, <1>7
    <3> QED
      BY <1>1, <1>7, <3>1 DEF Fine, Executes
  <2>2. Keeps(p, g, history, late, lastProbe, sweep')
    <3>1. p # sweep'.at => p # sweep.at
      BY <1>1, <1>7
    <3>2. sweep'.pc = "planning" \/ p \in sweep'.todo => sweep.pc = "planning" \/ p \in sweep.todo
      BY <1>1
    <3>3. sweep'.pc \notin {"idle", "planning"} => sweep.pc \notin {"idle", "planning"}
      BY <1>1
    <3>4. p \notin sweep'.todo => p \notin sweep.todo
      BY <1>1, <1>7
    <3> QED
      BY <1>1, <1>7, <3>1, <3>2, <3>3, <3>4 DEF Fine, Keeps
  <2> QED
    BY <1>7, <2>1, <2>2 DEF Fine
<1>8. ASSUME NEW p \in sweep.pending, NEW t, NEW d, NEW g, NEW have, QueryOf[t] # q,
             Due(p, QueryOf[t], d, g, have, sweep), QueryOf[t] # None
      PROVE  Due(p, QueryOf[t], d, g, have, sweep')
  BY <1>1, <1>8 DEF Due
<1> QED
  BY <1>4, <1>5, <1>6, <1>7, <1>8

LEMMA UnsubscribeKeeps ==
  ASSUME Inv, NEW s \in Subscribers, Unsubscribe(s)
  PROVE  Inv'
<1> DEFINE q == QueryOf[s]
<1>1. /\ q \in Queries /\ sub[s].pc = "live"
      /\ sub' = [t \in Subscribers |-> IF t \in {s} THEN Gone ELSE sub[t]]
      /\ got' = [t \in Subscribers |-> IF t \in {s} THEN NothingYet ELSE got[t]]
      /\ missed' = missed \ {s}
      /\ \/ /\ Empty(q, sub') /\ groups' = [groups EXCEPT ![q] = None]
            /\ lagging' = lagging \ {q} /\ sweep' = Without(q)
         \/ ~Empty(q, sub') /\ UNCHANGED <<groups, lagging, sweep>>
      /\ UNCHANGED <<history, epoch, opening, lastProbe, sweepQueued, retryTimer, faults>>
  BY LiveQueriesAssumption DEF Unsubscribe, Drop, Forget, storeVars, hintVars
<1> HIDE DEF q
<1>2. /\ sub'[s] = Gone /\ got'[s] = NothingYet
      /\ \A t \in Subscribers : t # s => sub'[t] = sub[t] /\ got'[t] = got[t]
      /\ \A t \in Subscribers : sub'[t].pc # "closed" => t # s
  BY <1>1, Blank
<1>3. /\ sub' \in [Subscribers -> Subs] /\ got' \in [Subscribers -> Receipts] /\ missed' \subseteq Subscribers
      /\ DeliveryTrue' /\ MapsFit'
  BY <1>1, <1>2, Blank DEF Inv, Types, DeliveryTrue, MapsFit
<1>4. \A t \in Subscribers : sub'[t].pc = sub[t].pc \/ (sub[t].pc \in Attached /\ sub'[t].pc \in Attached \cup {"closed"})
  BY <1>1, <1>2, Blank DEF Attached
<1>5. \A p \in Queries : Asked(p)' => Asked(p)
  BY <1>4 DEF Asked, Attached
<1>6. CASE /\ Empty(q, sub') /\ groups' = [groups EXCEPT ![q] = None]
           /\ lagging' = lagging \ {q} /\ sweep' = Without(q)
  <2>1. groups'[q] = None /\ \A p \in Queries : p # q => groups'[p] = groups[p]
    BY <1>1, <1>6 DEF Inv, Types
  <2>2. Story' /\ Course' /\ Patched'
    BY <1>1, <1>6, WithoutKeeps
  <2>3. /\ \A p \in Queries : \A g, late : p # q /\ Fine(p, g, history, epoch, late, lastProbe, sweep)
              => Fine(p, g, history, epoch, late, lastProbe, sweep')
        /\ \A p \in sweep.pending : \A t, d, g, have : QueryOf[t] # q /\ Due(p, QueryOf[t], d, g, have, sweep)
               => Due(p, QueryOf[t], d, g, have, sweep') \/ QueryOf[t] = None
    BY <1>1, <1>6, WithoutKeeps
  <2>4. sweep' \in Sweeps /\ sweep'.pending = sweep.pending /\ \A p \in Queries : p # None
    BY <1>1, <1>6, WithoutIs, SweepFields DEF Inv
  <2>5. Types'
    BY <1>1, <1>3, <1>6, <2>4 DEF Inv, Types
  <2>6. \A t \in Subscribers : QueryOf[t] = q => sub'[t].pc \notin Attached
    BY <1>6 DEF Empty, In
  <2>7. Cast'
    <3>1. \A t \in Subscribers : sub'[t].pc \in Attached => groups'[QueryOf[t]] # None
      <4>1. ASSUME NEW t \in Subscribers, sub'[t].pc \in Attached PROVE groups[QueryOf[t]] # None
        BY <1>4, <4>1 DEF Inv, Cast
      <4>2. \A t \in Subscribers : QueryOf[t] \in Queries
        BY LiveQueriesAssumption
      <4> QED
        BY <2>1, <2>6, <4>1, <4>2
    <3>2. ASSUME NEW p \in Queries, groups'[p] # None PROVE groups[p] # None /\ In(sub', p) # {}
      <4>1. p # q /\ groups[p] # None /\ In(sub, p) # {}
        BY <2>1, <3>2 DEF Inv, Cast
      <4>2. In(sub, p) \subseteq In(sub', p)
        BY <1>2, <4>1 DEF In, q
      <4> QED
        BY <4>1, <4>2
    <3>3. \A p \in lagging' : groups'[p] # None
      BY <1>6, <2>1 DEF Inv, Cast, Types
    <3> QED
      BY <1>1, <1>4, <3>1, <3>2, <3>3, CastKeeps
  <2>8. Known'
    <3> SUFFICES ASSUME NEW p \in Queries, Asked(p)', groups'[p] # None
                 PROVE  Fine(p, groups'[p], history, epoch, p \in lagging', lastProbe, sweep')
      BY <1>1 DEF Known
    <3>1. p # q /\ groups'[p] = groups[p] /\ groups[p] # None /\ Asked(p) /\ (p \in lagging' <=> p \in lagging)
      BY <1>5, <1>6, <2>1
    <3>2. Fine(p, groups[p], history, epoch, p \in lagging, lastProbe, sweep)
      BY <3>1, KnownOf
    <3>3. Fine(p, groups[p], history, epoch, p \in lagging', lastProbe, sweep)
      BY <3>1, <3>2
    <3> QED
      BY <2>3, <3>1, <3>3
  <2>9. Delivers'
    <3> SUFFICES ASSUME NEW t \in Subscribers \ Observers
                 PROVE  /\ Follows(sub'[t], groups'[QueryOf[t]], got'[t])
                        /\ Awaits(t, QueryOf[t], sub'[t], groups'[QueryOf[t]], got'[t], sweep')
      BY DEF Delivers
    <3>1. /\ QueryOf[t] \in Queries /\ Follows(sub[t], groups[QueryOf[t]], got[t])
          /\ Awaits(t, QueryOf[t], sub[t], groups[QueryOf[t]], got[t], sweep)
      BY LiveQueriesAssumption DEF Inv, Delivers
    <3>2. CASE QueryOf[t] # q
      <4>1. t # s /\ sub'[t] = sub[t] /\ got'[t] = got[t] /\ groups'[QueryOf[t]] = groups[QueryOf[t]]
        BY <1>2, <2>1, <3>1, <3>2 DEF q
      <4>2. Awaits(t, QueryOf[t], sub[t], groups[QueryOf[t]], got[t], sweep')
        BY <2>3, <2>4, <3>1, <3>2 DEF Awaits
      <4> QED
        BY <3>1, <4>1, <4>2
    <3>3. CASE QueryOf[t] = q
      <4>1. sub'[t].pc \notin Attached
        BY <2>6, <3>3
      <4>2. (sub[t].pc \notin Attached /\ sub'[t] = sub[t]) \/ sub'[t].pc = "closed"
        BY <1>2, <4>1, Blank
      <4>3. Follows(sub'[t], groups'[QueryOf[t]], got'[t])
        BY <3>1, <4>1, <4>2 DEF Follows
      <4>4. Awaits(t, QueryOf[t], sub'[t], groups'[QueryOf[t]], got'[t], sweep')
        BY <2>4, <3>1, <4>2 DEF Awaits, Due
      <4> QED
        BY <4>3, <4>4
    <3> QED
      BY <3>2, <3>3
  <2> QED
    BY <1>3, <2>2, <2>5, <2>7, <2>8, <2>9 DEF Inv
<1>7. CASE ~Empty(q, sub') /\ UNCHANGED <<groups, lagging, sweep>>
  <2>1. Types'
    BY <1>1, <1>3, <1>7 DEF Inv, Types
  <2>2. Story' /\ Course' /\ Patched'
    BY <1>1, <1>7 DEF Inv, Story, Course, Patched
  <2>3. Cast'
    <3>1. \A t \in Subscribers : sub'[t].pc \in Attached => groups'[QueryOf[t]] # None
      BY <1>2, <1>7, Blank DEF Inv, Cast, Attached
    <3>2. ASSUME NEW p \in Queries, groups'[p] # None PROVE groups[p] # None /\ In(sub', p) # {}
      <4>1. groups[p] # None /\ In(sub, p) # {}
        BY <1>7, <3>2 DEF Inv, Cast
      <4>2. CASE p = q
        BY <1>7, <4>1, <4>2 DEF Empty
      <4>3. CASE p # q
        <5>1. In(sub, p) \subseteq In(sub', p)
          BY <1>2, <4>3 DEF In, q
        <5> QED
          BY <4>1, <5>1
      <4> QED
        BY <4>2, <4>3
    <3>3. \A p \in lagging' : groups'[p] # None
      BY <1>7 DEF Inv, Cast
    <3> QED
      BY <1>1, <1>4, <3>1, <3>2, <3>3, CastKeeps
  <2>4. Known'
    BY <1>1, <1>5, <1>7 DEF Inv, Known
  <2>5. Delivers'
    <3> SUFFICES ASSUME NEW t \in Subscribers \ Observers
                 PROVE  /\ Follows(sub'[t], groups[QueryOf[t]], got'[t])
                        /\ Awaits(t, QueryOf[t], sub'[t], groups[QueryOf[t]], got'[t], sweep)
      BY <1>7 DEF Delivers
    <3>1. CASE t # s
      BY <1>2, <3>1 DEF Inv, Delivers
    <3>2. CASE t = s
      BY <1>2, <3>2, Blank DEF Follows, Awaits, Attached
    <3> QED
      BY <3>1, <3>2
  <2> QED
    BY <1>3, <2>1, <2>2, <2>3, <2>4, <2>5 DEF Inv
<1> QED
  BY <1>1, <1>6, <1>7

(***************************************************************************)
(* The sweep comes to a group, and goes on from it.                        *)
(***************************************************************************)
(* The group the sweep is at, or comes to next. *)
Turn(q, sw) ==
    /\ sw.pc \in {"next", "resolving", "waiting"}
    /\ IF sw.pc = "next" THEN q \in sw.todo ELSE sw.at = q

(* A step of the sweep that moves only the group whose turn it is, and delivers to observers at most. *)
Turns(q, n) ==
    /\ groups' = [groups EXCEPT ![q] = n]
    /\ lagging' \in {lagging, lagging \cup {q}, lagging \ {q}}
    /\ sweep' \in Sweeps /\ sweep'.last = sweep.last /\ sweep'.current = sweep.current
    /\ sweep'.todo = sweep.todo \ {q} /\ sweep.pending \subseteq sweep'.pending
    /\ \A p \in sweep'.pending : p \in sweep.pending \/ p.to \in Observers
    /\ \/ sweep'.pc = "next" /\ sweep'.at = None
       \/ sweep'.pc = "resolving" /\ sweep'.at = q /\ sweep'.before # None
       \/ sweep'.pc = "waiting" /\ sweep'.at = q
    /\ UNCHANGED <<storeVars, opening, lastProbe, hintVars, sub, got, missed>> /\ faults' \in Nat

(* In a turn, the other groups are as they were. *)
LEMMA OthersFine ==
  ASSUME Types, Course, NEW q \in Queries, Turn(q, sweep), NEW sw,
         sw.current = sweep.current, sw.todo = sweep.todo \ {q},
         \/ sw.pc = "next" /\ sw.at = None
         \/ sw.pc \in {"resolving", "waiting"} /\ sw.at = q,
         NEW p \in Queries, p # q, NEW g, NEW h, NEW e, NEW late, NEW last, Fine(p, g, h, e, late, last, sweep)
  PROVE  Fine(p, g, h, e, late, last, sw)
<1>1. /\ sweep.pc \in {"next", "resolving", "waiting"} /\ sweep.at \in {None, q} /\ p # None /\ sw.at \in {None, q}
      /\ sw.pc \in {"next", "resolving", "waiting"} /\ (p \in sw.todo <=> p \in sweep.todo)
  BY SweepFields DEF Turn, Course
<1>2. ~(sweep.pc = "waiting" /\ sweep.at = p) /\ ~(sw.pc = "waiting" /\ sw.at = p)
  BY <1>1
<1>3. Executes(p, g, h, e, sw)
  BY <1>2 DEF Fine, Executes
<1>4. Keeps(p, g, h, late, last, sw)
  <2>1. p # sweep.at /\ p # sw.at
    BY <1>1
  <2> QED
    BY <1>1, <2>1 DEF Fine, Keeps
<1> QED
  BY <1>3, <1>4 DEF Fine

LEMMA TurnKeeps ==
  ASSUME Inv, NEW q \in Queries, Turn(q, sweep), groups[q] # None, NEW n \in Groups, Turns(q, n),
         n.result = groups[q].result, n.deliveries = groups[q].deliveries,
         groups[q].execution # None => n.execution # None,
         Patches(q, n, sweep'), Asked(q) => Fine(q, n, history, epoch, q \in lagging', lastProbe, sweep')
  PROVE  Inv'
<1>1. /\ n # None /\ groups'[q] = n /\ \A p \in Queries : p # q => groups'[p] = groups[p]
      /\ \A p \in Queries : groups'[p] # None <=> groups[p] # None
  BY NoneAssumption DEF Inv, Types, Turns
<1>2. /\ sweep \in Sweeps /\ sweep.todo \subseteq Queries /\ sweep.at \in Queries \cup {None}
      /\ \A p \in Queries : p # None
  BY SweepFields DEF Inv
<1>3. /\ history' = history /\ epoch' = epoch /\ lastProbe' = lastProbe /\ sub' = sub /\ got' = got
      /\ opening' = opening
  BY DEF Turns, storeVars
<1>4. sweep.pc \in {"next", "resolving", "waiting"} /\ sweep.at \in {None, q}
  BY DEF Turn, Inv, Course
<1>5. Types'
  BY DEF Turns, Inv, Types, storeVars, hintVars
<1>6. Story'
  BY <1>3, <1>4 DEF Turns, Inv, Story
<1>7. Cast'
  BY <1>1, <1>3 DEF Turns, Inv, Cast, In, Types
<1>8. Course'
  <2>1. sweep'.pc \in {"next", "resolving", "waiting"}
    BY DEF Turns
  <2>2. sweep'.last = lastProbe' /\ lastProbe' # None /\ AtLeast(sweep'.current, lastProbe')
    BY <1>3, <1>4 DEF Turns, Inv, Course
  <2>3. sweep'.at # None <=> sweep'.pc \in {"resolving", "waiting"}
    BY <1>2 DEF Turns
  <2>4. sweep'.at # None => groups'[sweep'.at] # None /\ sweep'.at \notin sweep'.todo
    BY <1>1 DEF Turns
  <2>5. \A p \in sweep'.todo : groups'[p] # None
    BY <1>1, <1>2 DEF Turns, Inv, Course
  <2>6. sweep'.pc = "resolving" => sweep'.before # None
    BY DEF Turns
  <2> QED
    BY <2>1, <2>2, <2>3, <2>4, <2>5, <2>6 DEF Course
<1>9. Patched'
  <2> SUFFICES ASSUME NEW p \in Queries, groups'[p] # None, p # q PROVE Patches(p, groups'[p], sweep')
    BY <1>1 DEF Patched
  <2>1. Patches(p, groups[p], sweep) /\ sweep.at # p
    BY <1>1, <1>2, <1>4 DEF Inv, Patched
  <2> QED
    BY <1>1, <2>1 DEF Patches
<1>10. Known'
  <2> SUFFICES ASSUME NEW p \in Queries, Asked(p), groups'[p] # None
               PROVE  Fine(p, groups'[p], history, epoch, p \in lagging', lastProbe, sweep')
    BY <1>3 DEF Known, Asked
  <2>1. CASE p = q
    BY <1>1, <2>1
  <2>2. CASE p # q
    <3>1. Fine(p, groups[p], history, epoch, p \in lagging', lastProbe, sweep)
      <4>1. p \in lagging' <=> p \in lagging
        BY <2>2 DEF Turns
      <4> QED
        BY <1>1, <4>1 DEF Inv, Known
    <3>2. Fine(p, groups[p], history, epoch, p \in lagging', lastProbe, sweep')
      BY <2>2, <3>1, OthersFine DEF Turns, Inv
    <3> QED
      BY <1>1, <2>2, <3>2
  <2> QED
    BY <2>1, <2>2
<1>11. Delivers'
  <2> SUFFICES ASSUME NEW t \in Subscribers \ Observers
               PROVE  /\ Follows(sub[t], groups'[QueryOf[t]], got[t])
                      /\ Awaits(t, QueryOf[t], sub[t], groups'[QueryOf[t]], got[t], sweep')
    BY <1>3 DEF Delivers
  <2>1. /\ QueryOf[t] \in Queries /\ Follows(sub[t], groups[QueryOf[t]], got[t])
        /\ Awaits(t, QueryOf[t], sub[t], groups[QueryOf[t]], got[t], sweep)
    BY LiveQueriesAssumption DEF Inv, Delivers
  <2>2. \A p \in sweep'.pending : p.to = t => p \in sweep.pending
    BY DEF Turns
  <2>3. CASE QueryOf[t] # q
    <3>1. sweep'.at \in {None, q} /\ QueryOf[t] # None /\ sweep'.current = sweep.current
          /\ sweep'.todo \subseteq sweep.todo
      BY <1>2, <2>1 DEF Turns
    <3>2. Awaits(t, QueryOf[t], sub[t], groups[QueryOf[t]], got[t], sweep')
      BY <2>1, <2>2, <2>3, <3>1 DEF Awaits, Due
    <3> QED
      BY <1>1, <2>1, <2>3, <3>2
  <2>4. CASE QueryOf[t] = q
    <3>1. sub[t].pc # "closed" => \A p \in sweep.pending : p.to # t
      BY <2>1, <2>4 DEF Awaits, Due, Turn
    <3>2. Awaits(t, q, sub[t], n, got[t], sweep')
      BY <2>2, <3>1 DEF Awaits
    <3>3. Follows(sub[t], n, got[t])
      BY <2>1, <2>4 DEF Follows
    <3> QED
      BY <1>1, <2>4, <3>2, <3>3
  <2> QED
    BY <2>3, <2>4
<1>12. DeliveryTrue' /\ MapsFit'
  BY <1>3 DEF Inv, DeliveryTrue, MapsFit
<1> QED
  BY <1>5, <1>6, <1>7, <1>8, <1>9, <1>10, <1>11, <1>12 DEF Inv

LEMMA AskedIs ==
  ASSUME Inv, NEW q \in Queries, Asked(q), groups[q] # None
  PROVE  GroupExecutes(q) /\ In(sub, q) \cap Observers = {} /\ \A c : ~GroupMemoizes(q, c)
<1>1. PICK s \in Subscribers \ Observers : QueryOf[s] = q /\ sub[s].pc # "closed"
  BY DEF Asked
<1>2. \A o \in Observers : QueryOf[o] = q => sub[o].pc = "closed"
  BY <1>1 DEF Inv, Cast
<1>3. In(sub, q) \cap Observers = {}
  BY <1>2 DEF In, Attached
<1>4. In(sub, q) # {}
  BY DEF Inv, Cast
<1> QED
  BY <1>3, <1>4 DEF GroupExecutes, GroupMemoizes, Wants

LEMMA VisitedIs ==
  ASSUME Inv, NEW q \in Queries, NEW ns, Visited(q, ns),
         ns \subseteq [to : Subscribers, result : Results \cup {None}, base : Results \cup {None}]
  PROVE  /\ sweep' \in Sweeps /\ sweep'.pc = "next" /\ sweep'.at = None
         /\ sweep'.last = sweep.last /\ sweep'.current = sweep.current
         /\ sweep'.todo = sweep.todo \ {q} /\ sweep'.pending = sweep.pending \cup ns
<1>1. sweep \in Sweeps
  BY DEF Inv, Types
<1> QED
  BY <1>1 DEF Visited, Sweeps

LEMMA NoticesAre ==
  ASSUME NEW q, NEW x, NEW c, NEW r \in Results \cup {None}, NEW b \in Results \cup {None}
  PROVE  /\ Notices(q, x, c, r, b) \subseteq [to : Subscribers, result : Results \cup {None}, base : Results \cup {None}]
         /\ \A p \in Notices(q, x, c, r, b) :
               /\ p.to \in In(sub, q)
               /\ p.to \notin Observers => x /\ c /\ p.result = r /\ p.base = b
BY DEF Notices, In

LEMMA RerunKeeps ==
  ASSUME Inv, NEW q \in Queries, Turn(q, sweep), sweep.pc \in {"next", "resolving"}, groups[q] # None,
         NEW g \in Groups, g.result = groups[q].result, g.deliveries = groups[q].deliveries,
         g.execution = groups[q].execution, g.maintained => g.result # None,
         NEW from, from # None => from \in Probes,
         Asked(q) => /\ Knows(q, g, history, epoch) /\ Executes(q, g, history, epoch, sweep)
                     /\ g.dependencies = Reads[sweep.current.epoch][q] \/ sweep.current.epoch < epoch,
         Asked(q) /\ from # None =>
             /\ Moment(history, epoch, from) /\ from.version <= sweep.current.version
             /\ from.epoch = sweep.current.epoch /\ g.dependencies = Reads[sweep.current.epoch][q]
             /\ AtLeast(sweep.current, g.seenProbe)
             /\ g.result # None => g.adrift \/ Mirrors(history, epoch, q, g.result, from),
         Rerun(q, g, from),
         UNCHANGED <<storeVars, opening, lastProbe, hintVars, sub, got, missed, faults>>
  PROVE  Inv'
<1>1. /\ sweep \in Sweeps /\ sweep.current \in Probes /\ lagging \subseteq Queries
      /\ groups \in [Queries -> Groups \cup {None}] /\ q # None
  BY SweepFields DEF Inv, Types, Story, Moment
<1>2. g.execution # None => g.execution \in Executions /\ g.execution.phase # "patching"
  <2>1. Patches(q, groups[q], sweep)
    BY DEF Inv, Patched
  <2> QED
    BY <2>1 DEF Patches, Groups
<1>3. CASE ~GroupExecutes(q)
  <2> DEFINE n == [g EXCEPT !.seenProbe = sweep.current]
             ns == Notices(q, FALSE, FALSE, None, None)
  <2>1. /\ n \in Groups /\ n.result = g.result /\ n.deliveries = g.deliveries /\ n.execution = g.execution
        /\ n.maintained = g.maintained
    BY <1>1 DEF Groups
  <2>2. groups' = [groups EXCEPT ![q] = n] /\ lagging' = lagging \ {q} /\ Visited(q, ns)
    BY <1>3 DEF Rerun, SettleProbe
  <2> HIDE DEF n, ns
  <2>3. /\ ns \subseteq [to : Subscribers, result : Results \cup {None}, base : Results \cup {None}]
        /\ \A p \in ns : p.to \in Observers
    BY NoticesAre DEF ns
  <2>4. /\ sweep' \in Sweeps /\ sweep'.pc = "next" /\ sweep'.at = None
        /\ sweep'.last = sweep.last /\ sweep'.current = sweep.current
        /\ sweep'.todo = sweep.todo \ {q} /\ sweep'.pending = sweep.pending \cup ns
    BY <2>2, <2>3, VisitedIs
  <2>5. Turns(q, n)
    BY <2>2, <2>3, <2>4 DEF Turns, Inv, Types
  <2>6. Patches(q, n, sweep')
    BY <1>2, <2>1 DEF Patches
  <2>7. ~Asked(q)
    BY <1>3, AskedIs
  <2> QED
    BY <2>1, <2>5, <2>6, <2>7, TurnKeeps
<1>4. CASE GroupExecutes(q) /\ g.result = None /\ g.execution # None
  <2>1. groups' = [groups EXCEPT ![q] = g] /\ lagging' = lagging \cup {q} /\ Visited(q, {})
    BY <1>4 DEF Rerun
  <2>2. /\ sweep' \in Sweeps /\ sweep'.pc = "next" /\ sweep'.at = None
        /\ sweep'.last = sweep.last /\ sweep'.current = sweep.current
        /\ sweep'.todo = sweep.todo \ {q} /\ sweep'.pending = sweep.pending \cup {}
    BY <2>1, VisitedIs
  <2>3. Turns(q, g)
    BY <2>1, <2>2 DEF Turns, Inv, Types
  <2>4. Patches(q, g, sweep')
    BY <1>2 DEF Patches
  <2>5. Asked(q) => Fine(q, g, history, epoch, q \in lagging', lastProbe, sweep')
    <3>1. Asked(q) => Executes(q, g, history, epoch, sweep')
      BY <2>2 DEF Executes
    <3>2. Keeps(q, g, history, q \in lagging', lastProbe, sweep')
      BY <2>1, <2>2 DEF Keeps
    <3> QED
      BY <3>1, <3>2 DEF Fine
  <2> QED
    BY <2>3, <2>4, <2>5, TurnKeeps
<1>5. CASE GroupExecutes(q) /\ ~(g.result = None /\ g.execution # None)
  <2> DEFINE w == [sweep EXCEPT !.pc = "waiting", !.at = q, !.before = None, !.todo = @ \ {q}]
  <2>1. /\ w \in Sweeps /\ w.pc = "waiting" /\ w.at = q /\ w.last = sweep.last /\ w.current = sweep.current
        /\ w.todo = sweep.todo \ {q} /\ w.pending = sweep.pending
    BY <1>1 DEF Sweeps
  <2>2. /\ sweep' = w /\ lagging' = lagging
        /\ groups' = [groups EXCEPT ![q] =
                         IF g.execution # None THEN [g EXCEPT !.adrift = TRUE]
                         ELSE IF from # None /\ g.maintained
                         THEN [g EXCEPT !.execution = Patching(sweep.current, from.version)]
                         ELSE [g EXCEPT !.execution = Running(sweep.current),
                                        !.adrift = @ \/ Older(sweep.current, g.seenProbe)]]
    BY <1>5 DEF Rerun
  <2> HIDE DEF w
  <2>3. /\ Running(sweep.current) \in Executions /\ Running(sweep.current) # None
        /\ Running(sweep.current).phase = "running" /\ Running(sweep.current).probe = sweep.current
    BY <1>1, ExecutionIs DEF Probes
  <2>4. Asked(q) => g.execution = None
    BY <1>5 DEF Executes
  <2>5. ASSUME NEW n \in Groups, groups' = [groups EXCEPT ![q] = n],
               n.result = g.result, n.deliveries = g.deliveries, n.maintained = g.maintained,
               n.seenProbe = g.seenProbe, n.dependencies = g.dependencies, g.adrift => n.adrift,
               n.execution # None, n.execution.phase = "patching" => g.result # None,
               Asked(q) => Executes(q, n, history, epoch, w)
        PROVE  Inv'
    <3>1. Turns(q, n)
      BY <2>1, <2>2, <2>5 DEF Turns, Inv, Types
    <3>2. Patches(q, n, sweep')
      BY <2>1, <2>2, <2>5 DEF Patches
    <3>3. Asked(q) => Knows(q, n, history, epoch)
      BY <2>5 DEF Knows
    <3>4. Keeps(q, n, history, q \in lagging', lastProbe, w)
      BY <2>1 DEF Keeps
    <3>5. Asked(q) => Fine(q, n, history, epoch, q \in lagging', lastProbe, sweep')
      BY <2>2, <2>5, <3>3, <3>4 DEF Fine
    <3> QED
      BY <2>5, <3>1, <3>2, <3>5, TurnKeeps
  <2>6. CASE g.execution # None
    <3> DEFINE n == [g EXCEPT !.adrift = TRUE]
    <3>1. /\ n \in Groups /\ n.result = g.result /\ n.deliveries = g.deliveries /\ n.execution = g.execution
          /\ n.maintained = g.maintained /\ n.seenProbe = g.seenProbe /\ n.dependencies = g.dependencies /\ n.adrift
      BY DEF Groups
    <3>2. groups' = [groups EXCEPT ![q] = n]
      BY <2>2, <2>6
    <3> HIDE DEF n
    <3> QED
      BY <1>2, <2>4, <2>5, <2>6, <3>1, <3>2
  <2>7. CASE g.execution = None /\ from # None /\ g.maintained
    <3> DEFINE x == Patching(sweep.current, from.version)
               n == [g EXCEPT !.execution = x]
    <3>1. /\ x \in Executions /\ x # None /\ x.phase = "patching" /\ x.probe = sweep.current /\ x.after = from.version
      BY <1>1, <2>7, ExecutionIs DEF Probes
    <3>2. groups' = [groups EXCEPT ![q] = n]
      BY <2>2, <2>7
    <3> HIDE DEF x
    <3>3. /\ n \in Groups /\ n.execution = x
          /\ n.dependencies = g.dependencies /\ n.seenProbe = g.seenProbe /\ n.result = g.result
          /\ n.maintained = g.maintained /\ n.deliveries = g.deliveries /\ n.adrift = g.adrift
      BY <3>1, WithExecution
    <3> HIDE DEF n
    <3>4. Asked(q) => Executes(q, n, history, epoch, w)
      <4> SUFFICES ASSUME Asked(q) PROVE Executes(q, n, history, epoch, w)
        OBVIOUS
      <4>1. [version |-> from.version, epoch |-> sweep.current.epoch] = from
        BY <2>7 DEF Probes
      <4>2. Continues(q, n, history, epoch)
        BY <2>7, <3>1, <3>3, <4>1 DEF Continues
      <4> QED
        BY <2>1, <2>7, <3>1, <3>3, <4>2 DEF Executes
    <3> QED
      BY <2>5, <2>7, <3>1, <3>2, <3>3, <3>4
  <2>8. CASE g.execution = None /\ ~(from # None /\ g.maintained)
    <3> DEFINE x == Running(sweep.current)
               n == [g EXCEPT !.execution = x, !.adrift = @ \/ Older(sweep.current, g.seenProbe)]
    <3>1. groups' = [groups EXCEPT ![q] = n]
      BY <2>2, <2>8
    <3> HIDE DEF x
    <3>2. /\ n \in Groups /\ n.execution = x
          /\ n.dependencies = g.dependencies /\ n.seenProbe = g.seenProbe /\ n.result = g.result
          /\ n.maintained = g.maintained /\ n.deliveries = g.deliveries
          /\ n.adrift = (g.adrift \/ Older(sweep.current, g.seenProbe))
      BY <2>3 DEF Groups, x
    <3> HIDE DEF n
    <3>3. n.adrift \/ AtLeast(sweep.current, g.seenProbe)
      BY <1>1, <3>2 DEF Older, AtLeast, Groups, Probes
    <3>4. Asked(q) => Executes(q, n, history, epoch, w)
      BY <2>1, <2>3, <3>2, <3>3 DEF Executes, x
    <3> QED
      BY <2>3, <2>5, <3>1, <3>2, <3>4 DEF x
  <2> QED
    BY <2>6, <2>7, <2>8
<1> QED
  BY <1>3, <1>4, <1>5

LEMMA RefreshDependenciesKeeps ==
  ASSUME Inv, RefreshDependencies
  PROVE  Inv'
<1> DEFINE q == sweep.at
           g == groups[q]
<1>1. /\ sweep.pc = "resolving" /\ sweep \in Sweeps /\ q \in Queries /\ q # None /\ q \notin sweep.todo
      /\ sweep.before \in Probes /\ groups[q] # None /\ groups[q] \in Groups /\ sweep.current \in Probes
  BY SweepFields DEF RefreshDependencies, Inv, Course, Types, Sweeps, Story, Moment
<1>2. UNCHANGED <<storeVars, opening, lastProbe, hintVars, sub, got, missed, faults>>
  BY DEF RefreshDependencies
<1>3. Turn(q, sweep)
  BY <1>1 DEF Turn
<1>4. /\ epoch \in Nat /\ epoch \in 0 .. MaxEpoch /\ Now \in Probes /\ Now # None
      /\ Now.version = Len(history) /\ Now.epoch = epoch /\ Moment(history, epoch, sweep.current)
  BY <1>1, Here DEF Inv, Types, Story
<1>5. Patches(q, g, sweep)
  BY <1>1 DEF Inv, Patched
<1>6. Asked(q) => Knows(q, g, history, epoch) /\ Executes(q, g, history, epoch, sweep)
  BY <1>1, KnownOf
<1>7. CASE Stable(sweep.before)
  <2>1. PICK e \in sweep.before.epoch .. epoch : Rerun(q, [groups[q] EXCEPT !.dependencies = Reads[e][q]], None)
    BY <1>7 DEF RefreshDependencies
  <2>2. e = epoch /\ Reads[e][q] \in SUBSET Tables
    BY <1>1, <1>4, <1>7, LiveQueriesAssumption DEF Stable, CatalogChangedBetween, Probes
  <2> DEFINE n == [groups[q] EXCEPT !.dependencies = Reads[e][q]]
  <2>3. /\ n \in Groups /\ n.result = g.result /\ n.deliveries = g.deliveries /\ n.execution = g.execution
        /\ n.maintained = g.maintained /\ n.seenProbe = g.seenProbe /\ n.adrift = g.adrift
        /\ n.dependencies = Reads[epoch][q]
    BY <1>1, <2>2 DEF Groups
  <2>4. Rerun(q, n, None)
    BY <2>1
  <2> HIDE DEF n, g, q
  <2>5. Asked(q) => Knows(q, n, history, epoch)
    <3> SUFFICES ASSUME Asked(q) PROVE Knows(q, n, history, epoch)
      OBVIOUS
    <3>1. n.dependencies = Reads[n.seenProbe.epoch][q] \/ n.seenProbe.epoch < epoch
      BY <1>4, <1>6, <2>3 DEF Knows, Moment, Probes
    <3> QED
      BY <1>6, <2>3, <3>1 DEF Knows
  <2>6. Asked(q) => Executes(q, n, history, epoch, sweep)
    BY <1>1, <1>6, <2>3 DEF Executes
  <2>7. n.dependencies = Reads[sweep.current.epoch][q] \/ sweep.current.epoch < epoch
    BY <1>4, <2>3 DEF Moment, Probes
  <2>8. n.maintained => n.result # None
    BY <1>5, <2>3 DEF Patches
  <2>9. /\ groups[q] # None /\ n.result = groups[q].result /\ n.deliveries = groups[q].deliveries
        /\ n.execution = groups[q].execution
    BY <1>1, <2>3 DEF g
  <2>10. q \in Queries /\ Turn(q, sweep) /\ sweep.pc \in {"next", "resolving"}
    BY <1>1, <1>3 DEF q
  <2> QED
    BY <1>2, <2>3, <2>4, <2>5, <2>6, <2>7, <2>8, <2>9, <2>10, RerunKeeps
<1>8. CASE ~Stable(sweep.before)
  <2>1. sweep' = [sweep EXCEPT !.before = Now] /\ UNCHANGED <<groups, lagging>>
    BY <1>8 DEF RefreshDependencies
  <2>2. /\ sweep' \in Sweeps /\ sweep'.pc = "resolving" /\ sweep'.at = q /\ sweep'.before # None
        /\ sweep'.last = sweep.last /\ sweep'.current = sweep.current
        /\ sweep'.todo = sweep.todo /\ sweep'.pending = sweep.pending
    BY <1>1, <1>4, <2>1 DEF Sweeps
  <2> HIDE DEF q
  <2>3. Turns(q, g)
    BY <1>1, <1>2, <2>1, <2>2 DEF Turns, Inv, Types
  <2>4. Patches(q, g, sweep')
    BY <1>1, <1>5, <2>2 DEF Patches
  <2>5. Asked(q) => Fine(q, g, history, epoch, q \in lagging', lastProbe, sweep')
    <3>1. Asked(q) => Executes(q, g, history, epoch, sweep')
      BY <1>1, <1>6, <2>2 DEF Executes
    <3>2. Keeps(q, g, history, q \in lagging', lastProbe, sweep')
      BY <1>1, <2>2 DEF Keeps
    <3> QED
      BY <1>6, <3>1, <3>2 DEF Fine
  <2> QED
    BY <1>1, <1>3, <2>3, <2>4, <2>5, TurnKeeps
<1> QED
  BY <1>7, <1>8

(* What is known of a group that the sweep can compare with its probe. *)
LEMMA PriorIs ==
  ASSUME Inv, NEW q \in Queries, Asked(q), groups[q] # None, sweep.pc = "next", q \in sweep.todo,
         ~CatalogChangedBetween(Prior(q), sweep.current)
  PROVE  /\ Moment(history, epoch, Prior(q))
         /\ Prior(q).version <= sweep.current.version /\ Prior(q).epoch = sweep.current.epoch
         /\ Carries(history, q, groups[q].seenProbe, Prior(q))
         /\ groups[q].dependencies = Reads[sweep.current.epoch][q]
         /\ AtLeast(sweep.current, groups[q].seenProbe)
<1> DEFINE seen == groups[q].seenProbe
<1>1. /\ Knows(q, groups[q], history, epoch) /\ Keeps(q, groups[q], history, q \in lagging, lastProbe, sweep)
      /\ Moment(history, epoch, lastProbe) /\ Moment(history, epoch, sweep.current) /\ sweep.last = lastProbe
      /\ sweep.at = None /\ q # None
  BY KnownOf, SweepFields DEF Inv, Story, Course
<1>2. Moment(history, epoch, seen)
  BY <1>1 DEF Knows
<1>3. /\ seen.version \in Nat /\ seen.epoch \in Nat /\ lastProbe.version \in Nat /\ lastProbe.epoch \in Nat
      /\ sweep.current.version \in Nat /\ sweep.current.epoch \in Nat
  BY <1>1, <1>2 DEF Moment, Probes
<1>4. groups[q].dependencies = Reads[seen.epoch][q] \/ seen.epoch < sweep.current.epoch
  BY <1>1 DEF Keeps
<1>5. CASE Prior(q) = seen
  <2>1. Carries(history, q, seen, Prior(q))
    BY <1>3, <1>5 DEF Carries, AtLeast
  <2> QED
    BY <1>2, <1>3, <1>4, <1>5, <2>1 DEF CatalogChangedBetween, AtLeast
<1>6. CASE Prior(q) # seen
  <2>1. Prior(q) = lastProbe /\ q \notin lagging /\ seen.version < lastProbe.version
    BY <1>1, <1>3, <1>6 DEF Prior, NewerProbe
  <2>2. Carries(history, q, seen, lastProbe)
    BY <1>1, <2>1 DEF Keeps
  <2>3. seen.epoch = lastProbe.epoch
    BY <1>3, <2>1, <2>2 DEF Carries, AtLeast
  <2> QED
    BY <1>1, <1>3, <1>4, <2>1, <2>2, <2>3 DEF CatalogChangedBetween, AtLeast
<1> QED
  BY <1>5, <1>6

LEMMA VisitKeeps ==
  ASSUME Inv, NEW q \in Queries, Visit(q)
  PROVE  Inv'
<1> DEFINE g == groups[q]
           prior == Prior(q)
           window == ChangedTables(prior.version, sweep.current.version)
           relevant == g.dependencies \cap window
<1>1. /\ sweep.pc = "next" /\ q \in sweep.todo /\ sweep \in Sweeps /\ q # None /\ g # None /\ g \in Groups
      /\ sweep.current \in Probes /\ Moment(history, epoch, sweep.current) /\ Moment(history, epoch, lastProbe)
      /\ AtLeast(sweep.current, lastProbe) /\ lastProbe \in Probes /\ sweep.last = lastProbe /\ sweep.at = None
      /\ Timeline(history, epoch) /\ Now \in Probes /\ Now # None
  BY SweepFields, Here DEF Visit, Inv, Course, Types, Story, Moment
<1>2. UNCHANGED <<storeVars, opening, lastProbe, hintVars, sub, got, missed, faults>>
  BY DEF Visit
<1>3. Turn(q, sweep)
  BY <1>1 DEF Turn
<1>4. Patches(q, g, sweep) /\ (g.execution # None => g.execution.phase # "patching")
  BY <1>1 DEF Inv, Patched, Patches
<1>5. Asked(q) => /\ Knows(q, g, history, epoch) /\ Executes(q, g, history, epoch, sweep)
                  /\ Keeps(q, g, history, q \in lagging, lastProbe, sweep)
  BY <1>1, KnownOf
<1>6. AtLeast(sweep.current, sweep.current) /\ g.seenProbe \in Probes /\ prior \in Probes
  BY <1>1 DEF AtLeast, Probes, Groups, Prior, NewerProbe
<1>7. CASE g.seenProbe = sweep.current /\ lagging' = lagging \ {q} /\ Visited(q, {}) /\ UNCHANGED groups
  <2>1. /\ sweep' \in Sweeps /\ sweep'.pc = "next" /\ sweep'.at = None
        /\ sweep'.last = sweep.last /\ sweep'.current = sweep.current
        /\ sweep'.todo = sweep.todo \ {q} /\ sweep'.pending = sweep.pending \cup {}
    BY <1>7, VisitedIs
  <2>2. Turns(q, g)
    BY <1>1, <1>2, <1>7, <2>1 DEF Turns, Inv, Types
  <2>3. Patches(q, g, sweep')
    BY <1>4 DEF Patches
  <2>4. Asked(q) => Fine(q, g, history, epoch, q \in lagging', lastProbe, sweep')
    <3>1. Asked(q) => Executes(q, g, history, epoch, sweep')
      BY <1>1, <1>5, <2>1 DEF Executes
    <3>2. Keeps(q, g, history, q \in lagging', lastProbe, sweep')
      BY <1>1, <1>6, <1>7, <2>1 DEF Keeps, Carries
    <3> QED
      BY <1>5, <3>1, <3>2 DEF Fine
  <2> QED
    BY <1>1, <1>3, <2>2, <2>3, <2>4, TurnKeeps
<1>8. CASE /\ g.seenProbe # sweep.current /\ CatalogChangedBetween(prior, sweep.current)
           /\ groups' = [groups EXCEPT ![q].maintained = FALSE]
           /\ sweep' = [sweep EXCEPT !.pc = "resolving", !.at = q, !.before = Now, !.todo = @ \ {q}]
           /\ UNCHANGED lagging
  <2> DEFINE n == [g EXCEPT !.maintained = FALSE]
  <2>1. /\ n \in Groups /\ n.result = g.result /\ n.deliveries = g.deliveries /\ n.execution = g.execution
        /\ ~n.maintained /\ n.seenProbe = g.seenProbe /\ n.adrift = g.adrift /\ n.dependencies = g.dependencies
    BY <1>1 DEF Groups
  <2>2. groups' = [groups EXCEPT ![q] = n]
    BY <1>8 DEF Inv, Types
  <2>3. /\ sweep' \in Sweeps /\ sweep'.pc = "resolving" /\ sweep'.at = q /\ sweep'.before # None
        /\ sweep'.last = sweep.last /\ sweep'.current = sweep.current
        /\ sweep'.todo = sweep.todo \ {q} /\ sweep'.pending = sweep.pending
    BY <1>1, <1>8 DEF Sweeps
  <2> HIDE DEF n
  <2>4. Turns(q, n)
    BY <1>2, <1>8, <2>2, <2>3 DEF Turns, Inv, Types
  <2>5. Patches(q, n, sweep')
    BY <1>4, <2>1 DEF Patches
  <2>6. Asked(q) => Fine(q, n, history, epoch, q \in lagging', lastProbe, sweep')
    <3>1. Asked(q) => Executes(q, n, history, epoch, sweep')
      BY <1>1, <1>5, <2>1, <2>3 DEF Executes
    <3>2. Keeps(q, n, history, q \in lagging', lastProbe, sweep')
      BY <2>3 DEF Keeps
    <3>3. Asked(q) => Knows(q, n, history, epoch)
      BY <1>5, <2>1 DEF Knows
    <3> QED
      BY <3>1, <3>2, <3>3 DEF Fine
  <2> QED
    BY <1>1, <1>3, <2>1, <2>4, <2>5, <2>6, TurnKeeps
<1>9. ASSUME NEW gap \in BOOLEAN, NEW proof \in BOOLEAN,
             g.seenProbe # sweep.current, ~CatalogChangedBetween(prior, sweep.current),
             proof => relevant # {} /\ ~gap /\ Rows(relevant, prior.version, sweep.current.version) = {},
             IF proof \/ (~gap /\ relevant = {})
             THEN SettleProbe(q, g) /\ Visited(q, {})
             ELSE Rerun(q, g, IF gap THEN None ELSE prior)
      PROVE  Inv'
  <2>1. Asked(q) => /\ Moment(history, epoch, prior)
                    /\ prior.version <= sweep.current.version /\ prior.epoch = sweep.current.epoch
                    /\ Carries(history, q, g.seenProbe, prior)
                    /\ g.dependencies = Reads[sweep.current.epoch][q]
                    /\ AtLeast(sweep.current, g.seenProbe)
    BY <1>1, <1>9, PriorIs
  <2>2. CASE proof \/ (~gap /\ relevant = {})
    <3> DEFINE n == [g EXCEPT !.seenProbe = sweep.current]
    <3>1. SettleProbe(q, g) /\ Visited(q, {})
      BY <1>9, <2>2
    <3>2. groups' = [groups EXCEPT ![q] = n] /\ lagging' = lagging \ {q}
      BY <3>1 DEF SettleProbe
    <3>3. /\ n \in Groups /\ n.result = g.result /\ n.deliveries = g.deliveries /\ n.execution = g.execution
          /\ n.maintained = g.maintained /\ n.seenProbe = sweep.current /\ n.adrift = g.adrift
          /\ n.dependencies = g.dependencies
      BY <1>1 DEF Groups
    <3>4. /\ sweep' \in Sweeps /\ sweep'.pc = "next" /\ sweep'.at = None
          /\ sweep'.last = sweep.last /\ sweep'.current = sweep.current
          /\ sweep'.todo = sweep.todo \ {q} /\ sweep'.pending = sweep.pending \cup {}
      BY <3>1, VisitedIs
    <3> HIDE DEF n
    <3>5. Turns(q, n)
      BY <1>2, <3>2, <3>4 DEF Turns, Inv, Types
    <3>6. Patches(q, n, sweep')
      BY <1>4, <3>3 DEF Patches
    <3>7. Shown(history, g.dependencies, prior.version, sweep.current.version) = {}
      <4>1. CASE ~gap /\ relevant = {}
        BY <4>1 DEF Shown, ChangedTables
      <4>2. CASE proof
        <5>1. Rows(relevant, prior.version, sweep.current.version) = {}
          BY <1>9, <4>2
        <5> QED
          BY <5>1 DEF Shown, Rows, ChangedTables
      <4> QED
        BY <2>2, <4>1, <4>2
    <3> HIDE DEF g, prior
    <3>8. Asked(q) => Carries(history, q, g.seenProbe, sweep.current)
      <4> SUFFICES ASSUME Asked(q) PROVE Carries(history, q, g.seenProbe, sweep.current)
        OBVIOUS
      <4>1. Carries(history, q, prior, sweep.current)
        BY <2>1, <3>7 DEF Carries
      <4> QED
        BY <1>1, <1>5, <2>1, <4>1, CarriesOn DEF Knows
    <3>9. Asked(q) => Knows(q, n, history, epoch)
      <4> SUFFICES ASSUME Asked(q) PROVE Knows(q, n, history, epoch)
        OBVIOUS
      <4>1. g.result # None => g.adrift \/ Mirrors(history, epoch, q, g.result, sweep.current)
        BY <1>1, <1>5, <3>8, MirrorsOn DEF Knows
      <4> QED
        BY <1>1, <2>1, <3>3, <4>1 DEF Knows
    <3>10. Asked(q) => Executes(q, n, history, epoch, sweep')
      <4> SUFFICES ASSUME Asked(q), g.execution # None
                   PROVE  /\ g.execution.phase = "running" /\ g.result = None
                          /\ Moment(history, epoch, g.execution.probe)
                          /\ Carries(history, q, g.execution.probe, sweep.current)
        BY <3>3, <3>4 DEF Executes
      <4>1. /\ g.execution.phase = "running" /\ g.result = None /\ Moment(history, epoch, g.execution.probe)
            /\ Carries(history, q, g.execution.probe, g.seenProbe)
        BY <1>1, <1>5 DEF Executes
      <4> QED
        BY <1>1, <1>5, <3>8, <4>1, CarriesOn DEF Knows
    <3>11. Keeps(q, n, history, q \in lagging', lastProbe, sweep')
      BY <1>1, <1>6, <3>3, <3>4 DEF Keeps, Carries
    <3>12. Asked(q) => Fine(q, n, history, epoch, q \in lagging', lastProbe, sweep')
      BY <3>9, <3>10, <3>11 DEF Fine
    <3> QED
      BY <1>1, <1>3, <3>3, <3>5, <3>6, <3>12, TurnKeeps DEF g
  <2>3. CASE ~(proof \/ (~gap /\ relevant = {}))
    <3> DEFINE from == IF gap THEN None ELSE prior
    <3>1. Rerun(q, g, from)
      BY <1>9, <2>3
    <3>2. from # None => from = prior /\ from \in Probes
      BY <1>6
    <3> HIDE DEF from, prior
    <3>3. Asked(q) /\ from # None =>
             /\ Moment(history, epoch, from) /\ from.version <= sweep.current.version
             /\ from.epoch = sweep.current.epoch /\ g.dependencies = Reads[sweep.current.epoch][q]
             /\ AtLeast(sweep.current, g.seenProbe)
             /\ g.result # None => g.adrift \/ Mirrors(history, epoch, q, g.result, from)
      <4> SUFFICES ASSUME Asked(q), from # None, g.result # None, ~g.adrift
                   PROVE  Mirrors(history, epoch, q, g.result, prior)
        BY <2>1, <3>2
      <4> HIDE DEF g
      <4>1. Mirrors(history, epoch, q, g.result, g.seenProbe) /\ Moment(history, epoch, g.seenProbe)
        BY <1>5 DEF Knows
      <4> QED
        BY <1>1, <2>1, <4>1, MirrorsOn
    <3>4. g.maintained => g.result # None
      BY <1>4 DEF Patches
    <3> QED
      BY <1>1, <1>2, <1>3, <1>5, <2>1, <3>1, <3>2, <3>3, <3>4, RerunKeeps
  <2> QED
    BY <2>2, <2>3
<1>10. \/ g.seenProbe = sweep.current /\ lagging' = lagging \ {q} /\ Visited(q, {}) /\ UNCHANGED groups
       \/ /\ g.seenProbe # sweep.current /\ CatalogChangedBetween(prior, sweep.current)
          /\ groups' = [groups EXCEPT ![q].maintained = FALSE]
          /\ sweep' = [sweep EXCEPT !.pc = "resolving", !.at = q, !.before = Now, !.todo = @ \ {q}]
          /\ UNCHANGED lagging
       \/ \E gap, proof \in BOOLEAN :
             /\ g.seenProbe # sweep.current /\ ~CatalogChangedBetween(prior, sweep.current)
             /\ proof => relevant # {} /\ ~gap /\ Rows(relevant, prior.version, sweep.current.version) = {}
             /\ IF proof \/ (~gap /\ relevant = {})
                THEN SettleProbe(q, g) /\ Visited(q, {})
                ELSE Rerun(q, g, IF gap THEN None ELSE prior)
  BY Zenon DEF Visit
<1> QED
  BY <1>7, <1>8, <1>9, <1>10

(***************************************************************************)
(* The end of a sweep.                                                     *)
(***************************************************************************)
(* The subscribers and groups that the end of a sweep finds. *)
Found(subs, gs) ==
    /\ subs \in [Subscribers -> Subs]
    /\ \A s \in Subscribers :
          \/ subs[s].pc = "closed"
          \/ /\ subs[s].pc = sub[s].pc /\ subs[s].seenDelivery = sub[s].seenDelivery
             /\ subs[s].delivered = sub[s].delivered
    /\ \A s \in Subscribers : subs[s].pc \in Attached =>
          /\ gs[QueryOf[s]] \in Groups
          /\ gs[QueryOf[s]].result = groups[QueryOf[s]].result
          /\ gs[QueryOf[s]].seenProbe = groups[QueryOf[s]].seenProbe
          /\ gs[QueryOf[s]].deliveries = groups[QueryOf[s]].deliveries
          /\ subs[s].pc = "executing" => gs[QueryOf[s]].execution = groups[QueryOf[s]].execution

LEMMA DeliveredIs ==
  ASSUME Inv, NEW subs, NEW gs, Found(subs, gs), NEW thrown \in SUBSET Subscribers, NEW s \in Subscribers
  PROVE  LET d == Delivered(subs, thrown, s)
             r == Received(subs, thrown, s) IN
         /\ d \in Subs /\ d.pc = subs[s].pc
         /\ r \in Receipts /\ r.fits /\ (r.reflects \/ r.adrift)
         /\ s \notin Observers => Follows(d, gs[QueryOf[s]], r)
         /\ subs[s].pc # "closed" /\ Pending(s) => d.delivered
<1> DEFINE q == QueryOf[s]
           g == groups[q]
           d == Delivered(subs, thrown, s)
           r == Received(subs, thrown, s)
<1>1. /\ subs[s] \in Subs /\ got[s] \in Receipts /\ got[s].fits /\ (got[s].reflects \/ got[s].adrift)
      /\ q \in Queries
  BY LiveQueriesAssumption DEF Found, Inv, Types, DeliveryTrue, MapsFit
<1>2. CASE ~Pending(s) \/ subs[s].pc = "closed"
  <2>1. d = subs[s] /\ r = got[s]
    BY <1>2 DEF Delivered, Received
  <2>2. s \notin Observers => Follows(subs[s], gs[q], got[s])
    <3> SUFFICES ASSUME s \notin Observers PROVE Follows(subs[s], gs[q], got[s])
      OBVIOUS
    <3>1. Follows(sub[s], groups[q], got[s])
      BY DEF Inv, Delivers
    <3>2. CASE subs[s].pc = "closed"
      BY <3>2 DEF Follows, Attached
    <3>3. CASE subs[s].pc # "closed"
      BY <3>1, <3>3 DEF Follows, Found
    <3> QED
      BY <3>2, <3>3
  <2> HIDE DEF d, r
  <2> QED
    BY <1>1, <1>2, <2>1, <2>2 DEF d, r
<1>3. CASE Pending(s) /\ subs[s].pc # "closed"
  <2>1. Delivery(s) \in sweep.pending /\ Delivery(s).to = s
    BY <1>3 DEF Pending, Delivery
  <2>2. /\ subs[s].pc = sub[s].pc /\ subs[s].seenDelivery = sub[s].seenDelivery /\ sub[s].pc # "closed"
    BY <1>3 DEF Found
  <2>3. sweep.current \in Probes
    BY <2>1, Blank DEF Inv, Course, Story, Moment
  <2> DEFINE p == Delivery(s)
             n == IF s \in thrown \cup Observers THEN subs[s].seenDelivery ELSE g.deliveries
             base == IF Consecutive(s) THEN p.base ELSE None
  <2>4. s \notin Observers =>
           /\ Due(p, q, sub[s], g, got[s], sweep) /\ g \in Groups /\ g # None
           /\ g.adrift \/ Mirrors(history, epoch, q, g.result, g.seenProbe)
    <3> SUFFICES ASSUME s \notin Observers
                 PROVE  /\ Due(p, q, sub[s], g, got[s], sweep) /\ g \in Groups /\ g # None
                        /\ g.adrift \/ Mirrors(history, epoch, q, g.result, g.seenProbe)
      OBVIOUS
    <3>1. Due(p, q, sub[s], g, got[s], sweep)
      BY <2>1, <2>2 DEF Inv, Delivers, Awaits
    <3>2. g \in Groups /\ g # None
      BY <1>1, <3>1 DEF Due, Inv, Cast, Types
    <3>3. Knows(q, g, history, epoch)
      BY <1>1, <2>2, <3>2, KnownOf DEF Asked
    <3> QED
      BY <3>1, <3>2, <3>3 DEF Knows, Due
  <2>5. n \in Int
    BY <1>1, <2>4 DEF Subs, Groups
  <2>6. d = [subs[s] EXCEPT !.delivered = TRUE, !.seenDelivery = n]
    BY <1>3 DEF Delivered
  <2>7. d \in Subs /\ d.pc = subs[s].pc /\ d.delivered /\ d.seenDelivery = n
    <3> HIDE DEF d, n
    <3> QED
      BY <1>1, <2>5, <2>6 DEF Subs
  <2>8. p.result \in Results \cup {None}
    BY <2>1, SweepFields DEF Inv
  <2>9. r = IF s \in thrown THEN got[s] ELSE Receipt(s, p.result, sweep.current, base, got[s])
    BY <1>3 DEF Received
  <2> HIDE DEF d, r
  <2>10. CASE s \in Observers
    <3>1. Receipt(s, p.result, sweep.current, base, got[s]) \in Receipts
          /\ Receipt(s, p.result, sweep.current, base, got[s]).reflects
          /\ Receipt(s, p.result, sweep.current, base, got[s]).fits
      BY <2>3, <2>8, <2>10, ReceiptIs DEF Inv
    <3>2. r \in Receipts /\ r.fits /\ (r.reflects \/ r.adrift)
      BY <1>1, <2>9, <3>1
    <3> QED
      BY <2>7, <2>10, <3>2 DEF d, r
  <2>11. CASE s \notin Observers /\ s \in thrown
    <3>1. r = got[s] /\ d.seenDelivery = sub[s].seenDelivery /\ d.pc = sub[s].pc
      BY <2>2, <2>7, <2>9, <2>11
    <3>2. Follows(sub[s], g, got[s])
      BY <2>11 DEF Inv, Delivers
    <3>3. Follows(d, gs[q], r)
      BY <2>2, <2>7, <3>1, <3>2 DEF Follows, Found
    <3> QED
      BY <1>1, <2>7, <3>1, <3>3 DEF d, r
  <2>12. CASE s \notin Observers /\ s \notin thrown
    <3> HIDE DEF p
    <3>1. r = Receipt(s, p.result, sweep.current, base, got[s]) /\ d.seenDelivery = g.deliveries
      BY <2>7, <2>9, <2>12
    <3>2. base \in {None, got[s].result}
      BY <2>4, <2>12 DEF Due, Consecutive
    <3> HIDE DEF base
    <3>3. /\ r \in Receipts /\ r.result = p.result /\ r.adrift = g.adrift
          /\ r.fits <=> base \in {None, got[s].result}
          /\ r.reflects <=> Mirrors(history, epoch, q, p.result, sweep.current)
      BY <2>3, <2>4, <2>8, <2>12, <3>1, ReceiptIs DEF Inv
    <3>4. p.result = g.result /\ g.seenProbe = sweep.current /\ sub[s].pc \in Attached /\ g.result # None /\ g.execution = None
      BY <2>4, <2>12 DEF Due
    <3>5. r.fits /\ (r.reflects \/ r.adrift)
      BY <2>4, <2>12, <3>2, <3>3, <3>4
    <3>6. Follows(sub[s], g, got[s])
      BY <2>12 DEF Inv, Delivers
    <3>7. gs[q].result = g.result /\ gs[q].deliveries = g.deliveries /\ g.deliveries \in Nat
      BY <2>2, <2>4, <2>12, <3>4 DEF Found, Groups
    <3>8. d.pc = sub[s].pc /\ sub[s].pc # "executing" /\ d.pc \notin {"new", "joining"}
      BY <2>2, <2>7, <3>4, <3>6 DEF Follows, Attached
    <3>9. Follows(d, gs[q], r)
      BY <3>1, <3>3, <3>4, <3>7, <3>8 DEF Follows
    <3> QED
      BY <2>7, <3>3, <3>5, <3>9 DEF d, r
  <2> QED
    BY <2>10, <2>11, <2>12
<1> QED
  BY <1>2, <1>3

LEMMA EndOfSweepEach ==
  ASSUME Inv, NEW subs, NEW gs, Found(subs, gs), NEW thrown \in SUBSET Subscribers, EndOfSweep(subs, gs, thrown)
  PROVE  /\ sub' \in [Subscribers -> Subs] /\ got' \in [Subscribers -> Receipts] /\ missed' \subseteq Subscribers
         /\ DeliveryTrue' /\ MapsFit' /\ sweep' = IdleSweep
         /\ \A s \in Subscribers : \/ sub'[s].pc = subs[s].pc
                                   \/ subs[s].pc = "refreshing" /\ sub'[s].pc = "live"
         /\ \A s \in Subscribers \ Observers : Follows(sub'[s], gs[QueryOf[s]], got'[s])
<1> DEFINE d(s) == Delivered(subs, thrown, s)
           r(s) == Received(subs, thrown, s)
<1>1. /\ sub' = [s \in Subscribers |-> IF Waited(d(s)) THEN Registered(s, d(s), gs[QueryOf[s]]) ELSE d(s)]
      /\ got' = [s \in Subscribers |-> IF Waited(d(s)) THEN Handed(s, d(s), gs[QueryOf[s]], r(s)) ELSE r(s)]
      /\ sweep' = IdleSweep /\ missed' = (missed \ {s \in Subscribers : Pending(s)}) \cup thrown
  BY DEF EndOfSweep
<1>2. ASSUME NEW s \in Subscribers
      PROVE  /\ sub'[s] \in Subs /\ got'[s] \in Receipts /\ got'[s].fits /\ (got'[s].reflects \/ got'[s].adrift)
             /\ sub'[s].pc = subs[s].pc \/ (subs[s].pc = "refreshing" /\ sub'[s].pc = "live")
             /\ s \notin Observers => Follows(sub'[s], gs[QueryOf[s]], got'[s])
  <2> DEFINE q == QueryOf[s]
             g == gs[q]
             x == d(s)
             y == r(s)
  <2>1. /\ x \in Subs /\ x.pc = subs[s].pc /\ y \in Receipts /\ y.fits /\ (y.reflects \/ y.adrift)
        /\ s \notin Observers => Follows(x, g, y)
        /\ subs[s].pc # "closed" /\ Pending(s) => x.delivered
    BY DeliveredIs
  <2>2. /\ sub'[s] = IF Waited(x) THEN Registered(s, x, g) ELSE x
        /\ got'[s] = IF Waited(x) THEN Handed(s, x, g, y) ELSE y
    BY <1>1
  <2>3. q \in Queries
    BY LiveQueriesAssumption
  <2> HIDE DEF x, y
  <2>4. CASE ~Waited(x)
    BY <2>1, <2>2, <2>4
  <2>5. CASE Waited(x)
    <3>1. subs[s].pc = "refreshing" /\ sub[s].pc = "refreshing" /\ g \in Groups
          /\ g.result = groups[q].result /\ g.seenProbe = groups[q].seenProbe
      BY <2>1, <2>5 DEF Waited, Found, Attached
    <3>2. groups[q] \in Groups /\ groups[q] # None
      BY <2>3, <3>1 DEF Inv, Cast, Types, Attached
    <3>3. s \notin Observers =>
             /\ g.result # None
             /\ groups[q].adrift \/ Mirrors(history, epoch, q, g.result, g.seenProbe)
      <4> SUFFICES ASSUME s \notin Observers
                   PROVE  /\ g.result # None
                          /\ groups[q].adrift \/ Mirrors(history, epoch, q, g.result, g.seenProbe)
        OBVIOUS
      <4>1. Follows(sub[s], groups[q], got[s])
        BY DEF Inv, Delivers
      <4>2. Asked(q)
        BY <3>1 DEF Asked
      <4>3. Knows(q, groups[q], history, epoch)
        BY <2>3, <3>2, <4>2, KnownOf
      <4> QED
        BY <3>1, <4>1, <4>3 DEF Follows, Knows, Attached
    <3> HIDE DEF g, q
    <3> DEFINE a == Registered(s, x, g)
               b == Handed(s, x, g, y)
    <3>4. sub'[s] = a /\ got'[s] = b
      BY <2>2, <2>5
    <3>5. /\ a \in Subs /\ a.pc = "live"
          /\ x.delivered => a.seenDelivery = x.seenDelivery
          /\ ~x.delivered /\ s \notin Observers => a.seenDelivery = g.deliveries
      BY <2>1, <3>1, RegisteredIs
    <3>6. s \notin Observers => /\ groups[QueryOf[s]] \in Groups
                                /\ groups[QueryOf[s]].adrift \/ Mirrors(history, epoch, QueryOf[s], g.result, g.seenProbe)
      BY <3>2, <3>3 DEF q
    <3>7. /\ b \in Receipts /\ b.fits /\ (b.reflects \/ b.adrift)
          /\ x.delivered => b = y
          /\ ~x.delivered /\ s \notin Observers => b.result = g.result
      BY <2>1, <3>1, <3>6, HandedIs DEF Inv
    <3> HIDE DEF a, b
    <3>8. x.delivered \in BOOLEAN /\ g.deliveries \in Nat /\ x.pc = "refreshing"
      BY <2>1, <3>1 DEF Subs, Groups
    <3>9. s \notin Observers => Follows(a, g, b)
      BY <2>1, <3>3, <3>5, <3>7, <3>8 DEF Follows, Attached
    <3> QED
      BY <3>1, <3>4, <3>5, <3>7, <3>9 DEF g, q
  <2> QED
    BY <2>4, <2>5
<1>3. sub' \in [Subscribers -> Subs] /\ got' \in [Subscribers -> Receipts]
  BY <1>1, <1>2
<1>4. DeliveryTrue' /\ MapsFit'
  BY <1>2 DEF DeliveryTrue, MapsFit
<1>5. missed' \subseteq Subscribers
  BY <1>1 DEF Inv, Types
<1> QED
  BY <1>1, <1>2, <1>3, <1>4, <1>5

(* What is left of a group when a sweep ends without it. *)
Leaves(n, g) == n = g \/ n = [g EXCEPT !.execution = None]

LEMMA SweepOver ==
  ASSUME Inv, NEW subs, Found(subs, groups'), NEW thrown \in SUBSET Subscribers, EndOfSweep(subs, groups', thrown),
         \A s \in Subscribers : subs[s].pc = sub[s].pc \/ sub[s].pc \in Attached,
         groups' \in [Queries -> Groups \cup {None}],
         \A q \in Queries : groups'[q] # None =>
            /\ groups[q] # None /\ Leaves(groups'[q], groups[q]) /\ In(subs, q) # {}
            /\ groups'[q].execution # None => ~(sweep.pc = "waiting" /\ sweep.at = q),
         lagging' \subseteq Queries, \A q \in lagging' : groups'[q] # None,
         lastProbe # None => lastProbe' # None, lastProbe' # None => Moment(history, epoch, lastProbe'),
         \A q \in Queries : Asked(q) /\ groups'[q] # None /\ q \notin lagging' =>
            Carries(history, q, groups[q].seenProbe, lastProbe'),
         UNCHANGED <<storeVars, opening>>, sweepQueued' \in BOOLEAN, retryTimer' \in BOOLEAN, faults' \in Nat
  PROVE  Inv'
<1>1. /\ sub' \in [Subscribers -> Subs] /\ got' \in [Subscribers -> Receipts] /\ missed' \subseteq Subscribers
      /\ DeliveryTrue' /\ MapsFit' /\ sweep' = IdleSweep
      /\ \A s \in Subscribers : \/ sub'[s].pc = subs[s].pc
                                \/ subs[s].pc = "refreshing" /\ sub'[s].pc = "live"
      /\ \A s \in Subscribers \ Observers : Follows(sub'[s], groups'[QueryOf[s]], got'[s])
  BY EndOfSweepEach
<1>2. /\ sweep' \in Sweeps /\ sweep'.pc = "idle" /\ sweep'.todo = {} /\ sweep'.at = None /\ sweep'.pending = {}
  BY <1>1, Blank
<1>3. history' = history /\ epoch' = epoch /\ opening' = opening
  BY DEF storeVars
<1>4. lastProbe' \in Probes \cup {None}
  BY DEF Moment
<1>5. Types'
  BY <1>1, <1>2, <1>3, <1>4 DEF Inv, Types
<1>6. Story'
  BY <1>2, <1>3 DEF Inv, Story
<1>7. \A s \in Subscribers : \/ sub'[s].pc = sub[s].pc
                             \/ sub[s].pc \in Attached /\ sub'[s].pc \in Attached \cup {"closed"}
  BY <1>1 DEF Found, Attached
<1>8. \A s \in Subscribers : sub'[s].pc \in Attached => groups'[QueryOf[s]] # None
  BY <1>1, NoneAssumption DEF Found, Attached
<1>9. \A q \in Queries : groups'[q] # None => groups[q] # None /\ In(sub', q) # {}
  BY <1>1 DEF In, Attached
<1>10. Cast'
  BY <1>3, <1>7, <1>8, <1>9, CastKeeps
<1>11. Course'
  BY <1>1, <1>2 DEF Course
<1>12. ASSUME NEW q \in Queries, groups'[q] # None
       PROVE  /\ groups[q] \in Groups
              /\ groups'[q].dependencies = groups[q].dependencies /\ groups'[q].seenProbe = groups[q].seenProbe
              /\ groups'[q].result = groups[q].result /\ groups'[q].maintained = groups[q].maintained
              /\ groups'[q].adrift = groups[q].adrift
              /\ groups'[q].execution # None => groups'[q].execution = groups[q].execution
  <2>1. groups[q] \in Groups
    BY <1>12 DEF Inv, Types
  <2> QED
    BY <1>12, <2>1, NoneAssumption DEF Leaves, Groups
<1>13. Patched'
  <2> SUFFICES ASSUME NEW q \in Queries, groups'[q] # None PROVE Patches(q, groups'[q], sweep')
    BY DEF Patched
  <2>1. Patches(q, groups[q], sweep)
    BY DEF Inv, Patched
  <2> QED
    BY <1>12, <2>1 DEF Patches
<1>14. Known'
  <2> SUFFICES ASSUME NEW q \in Queries, Asked(q)', groups'[q] # None
               PROVE  Fine(q, groups'[q], history, epoch, q \in lagging', lastProbe', sweep')
    BY <1>3 DEF Known
  <2>1. Asked(q) /\ groups[q] # None
    BY <1>1 DEF Asked, Found
  <2>2. Knows(q, groups[q], history, epoch) /\ Executes(q, groups[q], history, epoch, sweep)
    BY <2>1, KnownOf
  <2>3. Knows(q, groups'[q], history, epoch)
    BY <1>12, <2>2 DEF Knows
  <2>4. Executes(q, groups'[q], history, epoch, sweep')
    BY <1>2, <1>12, <2>2 DEF Executes
  <2>5. Keeps(q, groups'[q], history, q \in lagging', lastProbe', sweep')
    BY <1>2, <1>12, <2>1 DEF Keeps
  <2> QED
    BY <2>3, <2>4, <2>5 DEF Fine
<1>15. Delivers'
  BY <1>1, <1>2 DEF Delivers, Awaits
<1> QED
  BY <1>1, <1>5, <1>6, <1>10, <1>11, <1>13, <1>14, <1>15 DEF Inv

LEMMA StartSweepKeeps ==
  ASSUME Inv, StartSweep
  PROVE  Inv'
<1> DEFINE joined == [s \in Subscribers |-> IF sub[s].behind = "queued" THEN [sub[s] EXCEPT !.behind = "running"]
                                            ELSE sub[s]]
           begun == [IdleSweep EXCEPT !.last = lastProbe, !.current = Now]
           next == IF CatalogChangedBetween(lastProbe, Now) THEN [begun EXCEPT !.pc = "next", !.todo = Open]
                   ELSE IF lastProbe = Now THEN [begun EXCEPT !.pc = "next", !.todo = lagging]
                   ELSE [begun EXCEPT !.pc = "planning"]
<1>1. /\ sweep.pc = "idle" /\ sweep.at = None /\ sweep.todo = {} /\ sweep.pending = {} /\ sweep = IdleSweep
      /\ sweepQueued' = FALSE /\ UNCHANGED <<storeVars, groups, opening, lagging, lastProbe>>
  BY Blank DEF StartSweep, Inv, Course
<1>2. /\ joined \in [Subscribers -> Subs]
      /\ \A s \in Subscribers : /\ joined[s].pc = sub[s].pc /\ joined[s].seenDelivery = sub[s].seenDelivery
                                /\ joined[s].delivered = sub[s].delivered
  BY DEF Inv, Types, Subs
<1>3. \A s \in Subscribers : sub[s].pc \in Attached => groups[QueryOf[s]] # None /\ groups[QueryOf[s]] \in Groups
  BY LiveQueriesAssumption DEF Inv, Types, Cast
<1>4. Found(joined, groups) /\ Found(joined, groups')
  <2> HIDE DEF joined
  <2> QED
    BY <1>1, <1>2, <1>3 DEF Found
<1>5. \A q \in Queries : Asked(q) /\ groups[q] # None =>
         /\ Knows(q, groups[q], history, epoch) /\ Executes(q, groups[q], history, epoch, sweep)
         /\ Keeps(q, groups[q], history, q \in lagging, lastProbe, sweep)
  BY KnownOf
<1>6. ASSUME NEW thrown \in SUBSET Subscribers, EndOfSweep(joined, groups, thrown),
             retryTimer' \in BOOLEAN, faults' \in Nat
      PROVE  Inv'
  <2>1. EndOfSweep(joined, groups', thrown)
    BY <1>1, <1>6
  <2>2. \A s \in Subscribers : joined[s].pc = sub[s].pc
    BY <1>2
  <2>3. \A q \in Queries : In(joined, q) = In(sub, q)
    BY <2>2 DEF In
  <2> HIDE DEF joined
  <2>4. \A q \in Queries : groups'[q] # None =>
            /\ groups[q] # None /\ Leaves(groups'[q], groups[q]) /\ In(joined, q) # {}
            /\ groups'[q].execution # None => ~(sweep.pc = "waiting" /\ sweep.at = q)
    BY <1>1, <2>3 DEF Leaves, Inv, Cast
  <2>5. \A q \in Queries : q # None
    BY SweepFields DEF Inv
  <2>6. \A q \in Queries : Asked(q) /\ groups'[q] # None /\ q \notin lagging' =>
            Carries(history, q, groups[q].seenProbe, lastProbe')
    BY <1>1, <1>5, <2>5 DEF Keeps
  <2>7. /\ groups' \in [Queries -> Groups \cup {None}] /\ lagging' \subseteq Queries
        /\ \A q \in lagging' : groups'[q] # None
        /\ lastProbe # None => lastProbe' # None
        /\ lastProbe' # None => Moment(history, epoch, lastProbe')
        /\ sweepQueued' \in BOOLEAN
    BY <1>1 DEF Inv, Types, Cast, Story
  <2> QED
    BY <1>1, <1>4, <1>6, <2>1, <2>2, <2>4, <2>6, <2>7, SweepOver
<1>7. CASE EndOfSweep(joined, groups, {}) /\ UNCHANGED <<retryTimer, faults>>
  BY <1>6, <1>7 DEF Inv, Types
<1>8. ASSUME Fault, NEW coordination \in BOOLEAN, Abort(joined, groups, coordination) PROVE Inv'
  <2>1. EndOfSweep(joined, groups, {}) /\ retryTimer' \in BOOLEAN /\ faults' \in Nat
    BY <1>8 DEF Abort, Fault, Inv, Types
  <2> QED
    BY <1>6, <2>1
<1>9. CASE Open # {} /\ sweep' = next /\ sub' = joined /\ UNCHANGED <<got, missed, retryTimer, faults>>
  <2>1. /\ lastProbe # None /\ lastProbe \in Probes /\ Now \in Probes /\ Now # None
        /\ Moment(history, epoch, Now) /\ AtLeast(Now, lastProbe) /\ Moment(history, epoch, lastProbe)
        /\ Now.epoch = epoch
    BY <1>9, Here DEF Open, Inv, Cast, Types, Story
  <2>2. Open \subseteq Queries /\ lagging \subseteq Queries /\ \A q \in Open \cup lagging : groups[q] # None
    BY DEF Open, Inv, Types, Cast
  <2>3. /\ sweep' \in Sweeps /\ sweep'.last = lastProbe /\ sweep'.current = Now /\ sweep'.at = None
        /\ sweep'.pending = {}
        /\ \/ sweep'.pc = "next" /\ sweep'.todo = Open
           \/ sweep'.pc = "next" /\ sweep'.todo = lagging /\ lastProbe = Now
           \/ sweep'.pc = "planning" /\ sweep'.todo = {} /\ lastProbe.epoch = Now.epoch
    <3>1. IdleSweep \in Sweeps
      BY Blank
    <3> QED
      BY <1>9, <2>1, <2>2, <3>1 DEF Sweeps, IdleSweep, CatalogChangedBetween
  <2> HIDE DEF joined, next, begun
  <2>4. Types'
    BY <1>1, <1>2, <1>9, <2>3 DEF Inv, Types, storeVars
  <2>5. Story'
    BY <1>1, <2>1, <2>3 DEF Inv, Story, storeVars
  <2>6. Cast'
    <3>1. \A q \in Queries : In(sub', q) = In(sub, q)
      BY <1>2, <1>9 DEF In
    <3> QED
      BY <1>1, <1>2, <1>9, <2>2, <3>1, CastKeeps DEF Inv, Cast
  <2>7. Course'
    BY <1>1, <2>1, <2>2, <2>3 DEF Course
  <2>8. Patched'
    BY <1>1 DEF Inv, Patched, Patches
  <2>9. Known'
    <3> SUFFICES ASSUME NEW q \in Queries, Asked(q)', groups'[q] # None
                 PROVE  Fine(q, groups'[q], history', epoch', q \in lagging', lastProbe', sweep')
      BY DEF Known
    <3>1. Asked(q) /\ groups'[q] = groups[q] /\ groups[q] # None /\ q # None /\ q \in Open
          /\ lastProbe' = lastProbe /\ lagging' = lagging /\ history' = history /\ epoch' = epoch
      BY <1>1, <1>2, <1>9, SweepFields DEF Asked, Inv, Open, storeVars
    <3>2. Knows(q, groups[q], history, epoch) /\ Executes(q, groups[q], history, epoch, sweep)
          /\ Keeps(q, groups[q], history, q \in lagging, lastProbe, sweep)
      BY <1>5, <3>1
    <3>3. Executes(q, groups[q], history, epoch, sweep')
      BY <1>1, <2>3, <3>2 DEF Executes
    <3>4. Keeps(q, groups[q], history, q \in lagging, lastProbe, sweep')
      BY <1>1, <2>1, <2>3, <3>1, <3>2 DEF Keeps, Knows
    <3> QED
      BY <3>1, <3>2, <3>3, <3>4 DEF Fine
  <2>10. Delivers'
    BY <1>1, <1>2, <1>9, <2>3 DEF Inv, Delivers, Follows, Awaits
  <2>11. DeliveryTrue' /\ MapsFit'
    BY <1>9 DEF Inv, DeliveryTrue, MapsFit
  <2> QED
    BY <2>4, <2>5, <2>6, <2>7, <2>8, <2>9, <2>10, <2>11 DEF Inv
<1>10. \/ EndOfSweep(joined, groups, {}) /\ UNCHANGED <<retryTimer, faults>>
       \/ Open # {} /\ sweep' = next /\ sub' = joined /\ UNCHANGED <<got, missed, retryTimer, faults>>
       \/ Fault /\ \E coordination \in BOOLEAN : Abort(joined, groups, coordination)
  BY Zenon DEF StartSweep
<1> QED
  BY <1>7, <1>8, <1>9, <1>10

LEMMA PlanKeeps ==
  ASSUME Inv, Plan
  PROVE  Inv'
<1> DEFINE changed == ChangedTables(sweep.last.version, sweep.current.version)
<1>1. PICK gap \in BOOLEAN :
         sweep' = [sweep EXCEPT !.pc = "next", !.todo = {q \in Open : \/ gap \/ q \in lagging
                                                                      \/ groups[q].dependencies \cap changed # {}}]
  BY DEF Plan
<1>2. UNCHANGED <<storeVars, groups, opening, lagging, lastProbe, hintVars, sub, got, missed, faults>>
  BY DEF Plan
<1> DEFINE todo == {q \in Open : gap \/ q \in lagging \/ groups[q].dependencies \cap changed # {}}
<1>3. /\ sweep.pc = "planning" /\ sweep \in Sweeps /\ sweep.last = lastProbe /\ lastProbe # None
      /\ AtLeast(sweep.current, lastProbe) /\ lastProbe.epoch = sweep.current.epoch
      /\ sweep.at = None /\ sweep.pending = {}
      /\ Moment(history, epoch, lastProbe) /\ Moment(history, epoch, sweep.current) /\ Timeline(history, epoch)
  BY SweepFields DEF Plan, Inv, Course, Story
<1>4. todo \subseteq Queries /\ \A q \in todo : groups[q] # None
  BY DEF Open
<1>5. /\ sweep' \in Sweeps /\ sweep'.pc = "next" /\ sweep'.last = lastProbe /\ sweep'.current = sweep.current
      /\ sweep'.at = None /\ sweep'.pending = {} /\ sweep'.todo = todo
  <2> HIDE DEF todo
  <2> QED
    BY <1>1, <1>3, <1>4 DEF Sweeps, todo
<1>6. \A q \in Queries \ todo : groups[q] # None =>
         q \notin lagging /\ Shown(history, groups[q].dependencies, lastProbe.version, sweep.current.version) = {}
  BY <1>3 DEF Shown, ChangedTables, Open
<1> HIDE DEF todo, changed
<1>7. Types'
  BY <1>2, <1>5 DEF Inv, Types, storeVars, hintVars
<1>8. Story'
  BY <1>2, <1>3, <1>5 DEF Inv, Story, storeVars
<1>9. Cast'
  BY <1>2, CastKeeps DEF Inv, Cast
<1>10. Course'
  BY <1>2, <1>3, <1>4, <1>5 DEF Course
<1>11. Patched'
  BY <1>2, <1>3 DEF Inv, Patched, Patches
<1>12. Known'
  <2> SUFFICES ASSUME NEW q \in Queries, Asked(q)', groups'[q] # None
               PROVE  Fine(q, groups'[q], history', epoch', q \in lagging', lastProbe', sweep')
    BY DEF Known
  <2> DEFINE g == groups[q]
  <2>1. Asked(q) /\ groups'[q] = g /\ g # None /\ q # None
        /\ lastProbe' = lastProbe /\ lagging' = lagging /\ history' = history /\ epoch' = epoch
    BY <1>2, SweepFields DEF Asked, Inv, storeVars
  <2>2. Knows(q, g, history, epoch) /\ Executes(q, g, history, epoch, sweep)
        /\ Keeps(q, g, history, q \in lagging, lastProbe, sweep)
    BY <2>1, KnownOf
  <2>3. Executes(q, g, history, epoch, sweep')
    BY <1>3, <1>5, <2>2 DEF Executes
  <2>4. /\ g.dependencies = Reads[g.seenProbe.epoch][q] \/ g.seenProbe.epoch < sweep.current.epoch
        /\ q \notin lagging => Carries(history, q, g.seenProbe, lastProbe)
        /\ Moment(history, epoch, g.seenProbe)
    BY <1>3, <2>1, <2>2 DEF Keeps, Knows
  <2>5. ASSUME q \notin todo PROVE Carries(history, q, g.seenProbe, sweep.current)
    <3>1. q \notin lagging /\ Shown(history, g.dependencies, lastProbe.version, sweep.current.version) = {}
      BY <1>6, <2>1, <2>5
    <3>2. lastProbe.version <= sweep.current.version
      BY <1>3 DEF AtLeast, Moment, Probes
    <3> HIDE DEF g
    <3> QED
      BY <1>3, <2>4, <3>1, <3>2, QuietWindow
  <2>6. Keeps(q, g, history, q \in lagging, lastProbe, sweep')
    BY <1>5, <2>1, <2>4, <2>5 DEF Keeps
  <2> QED
    BY <2>1, <2>2, <2>3, <2>6 DEF Fine
<1>13. Delivers'
  BY <1>2, <1>5 DEF Inv, Delivers, Awaits
<1>14. DeliveryTrue' /\ MapsFit'
  BY <1>2 DEF Inv, DeliveryTrue, MapsFit
<1> QED
  BY <1>7, <1>8, <1>9, <1>10, <1>11, <1>12, <1>13, <1>14 DEF Inv

(* Everybody is still there when a sweep ends. *)
LEMMA AllFound ==
  ASSUME Inv, groups' = groups
  PROVE  /\ Found(sub, groups) /\ Found(sub, groups')
         /\ groups' \in [Queries -> Groups \cup {None}]
         /\ \A q \in Queries : groups'[q] # None =>
               groups[q] # None /\ Leaves(groups'[q], groups[q]) /\ In(sub, q) # {}
<1>1. \A s \in Subscribers : sub[s].pc \in Attached => groups[QueryOf[s]] # None /\ groups[QueryOf[s]] \in Groups
  BY LiveQueriesAssumption DEF Inv, Types, Cast
<1>2. Found(sub, groups)
  BY <1>1 DEF Found, Inv, Types
<1>3. Found(sub, groups')
  BY <1>2
<1> QED
  BY <1>2, <1>3 DEF Inv, Types, Cast, Leaves

LEMMA EndSweepKeeps ==
  ASSUME Inv, EndSweep
  PROVE  Inv'
<1>1. /\ sweep.pc = "next" /\ sweep.todo = {} /\ lastProbe' = sweep.current /\ sweep.at = None
      /\ Moment(history, epoch, sweep.current) /\ sweep.current # None
      /\ UNCHANGED <<storeVars, groups, opening, lagging, hintVars, faults>>
  BY NoneAssumption DEF EndSweep, Inv, Course, Story, Moment
<1>2. PICK thrown \in SUBSET Subscribers : EndOfSweep(sub, groups', thrown)
  BY <1>1 DEF EndSweep
<1>3. /\ Found(sub, groups') /\ groups' \in [Queries -> Groups \cup {None}]
      /\ \A q \in Queries : groups'[q] # None =>
            groups[q] # None /\ Leaves(groups'[q], groups[q]) /\ In(sub, q) # {}
  BY <1>1, AllFound
<1>4. \A q \in Queries : Asked(q) /\ groups'[q] # None /\ q \notin lagging' =>
         Carries(history, q, groups[q].seenProbe, lastProbe')
  BY <1>1, KnownOf, SweepFields DEF Keeps, Inv
<1>5. /\ sweepQueued' \in BOOLEAN /\ retryTimer' \in BOOLEAN /\ faults' \in Nat
      /\ lagging' \subseteq Queries /\ \A q \in lagging' : groups'[q] # None
  BY <1>1 DEF Inv, Types, Cast, hintVars
<1> QED
  BY <1>1, <1>2, <1>3, <1>4, <1>5, SweepOver

LEMMA SweepFailsKeeps ==
  ASSUME Inv, SweepFails
  PROVE  Inv'
<1>1. /\ sweep.pc \in {"planning", "resolving", "next"} /\ Fault
      /\ lagging' = IF sweep.pc = "resolving" THEN lagging \cup {sweep.at} ELSE lagging
      /\ UNCHANGED <<storeVars, groups, opening, lastProbe, sweepQueued>>
  BY DEF SweepFails
<1>2. /\ sweep.at = None <=> sweep.pc # "resolving"
      /\ sweep.at # None => sweep.at \in Queries /\ groups[sweep.at] # None /\ sweep.at \notin sweep.todo
      /\ sweep \in Sweeps /\ \A q \in Queries : q # None
  BY <1>1, SweepFields DEF Inv, Course
<1>3. /\ faults' \in Nat /\ sweepQueued' \in BOOLEAN /\ lagging' \subseteq Queries
      /\ \A q \in lagging' : groups'[q] # None
  BY <1>1, <1>2 DEF Inv, Types, Cast, Fault
<1>4. ASSUME NEW coordination \in BOOLEAN, Abort(sub, groups, coordination) PROVE Inv'
  <2>1. EndOfSweep(sub, groups', {}) /\ retryTimer' \in BOOLEAN
    BY <1>1, <1>4 DEF Abort
  <2>2. /\ Found(sub, groups') /\ groups' \in [Queries -> Groups \cup {None}]
        /\ \A q \in Queries : groups'[q] # None =>
              groups[q] # None /\ Leaves(groups'[q], groups[q]) /\ In(sub, q) # {}
    BY <1>1, AllFound
  <2>3. \A q \in Queries : Asked(q) /\ groups'[q] # None /\ q \notin lagging' =>
           Carries(history, q, groups[q].seenProbe, lastProbe')
    BY <1>1, <1>2, KnownOf DEF Keeps
  <2>4. /\ lastProbe # None => lastProbe' # None
        /\ lastProbe' # None => Moment(history, epoch, lastProbe')
    BY <1>1 DEF Inv, Story
  <2> QED
    BY <1>1, <1>3, <2>1, <2>2, <2>3, <2>4, SweepOver
<1>5. CASE /\ sweep.pc = "resolving" /\ sweep' = [sweep EXCEPT !.pc = "next", !.at = None, !.before = None]
           /\ UNCHANGED <<sub, got, missed, retryTimer>>
  <2> DEFINE q == sweep.at
             g == groups[q]
  <2>1. q \in Queries /\ g # None /\ g \in Groups /\ q \notin sweep.todo /\ Turn(q, sweep)
    BY <1>2, <1>5 DEF Inv, Types, Turn
  <2>2. /\ sweep' \in Sweeps /\ sweep'.pc = "next" /\ sweep'.at = None
        /\ sweep'.last = sweep.last /\ sweep'.current = sweep.current
        /\ sweep'.todo = sweep.todo \ {q} /\ sweep'.pending = sweep.pending
    BY <1>2, <1>5, <2>1 DEF Sweeps
  <2>3. lagging' = lagging \cup {q}
    BY <1>1, <1>5
  <2> HIDE DEF q
  <2>4. Turns(q, g)
    BY <1>1, <1>2, <1>3, <1>5, <2>1, <2>2, <2>3 DEF Turns, Inv, Types, storeVars, hintVars
  <2>5. Patches(q, g, sweep')
    BY <1>5, <2>1 DEF Inv, Patched, Patches
  <2>6. Asked(q) => Fine(q, g, history, epoch, q \in lagging', lastProbe, sweep')
    <3>1. Asked(q) => Knows(q, g, history, epoch) /\ Executes(q, g, history, epoch, sweep)
      BY <2>1, KnownOf
    <3>2. Asked(q) => Executes(q, g, history, epoch, sweep')
      BY <1>5, <2>2, <3>1 DEF Executes
    <3>3. Keeps(q, g, history, q \in lagging', lastProbe, sweep')
      BY <2>2, <2>3 DEF Keeps
    <3> QED
      BY <3>1, <3>2, <3>3 DEF Fine
  <2> QED
    BY <2>1, <2>4, <2>5, <2>6, TurnKeeps
<1> QED
  BY <1>4, <1>5 DEF SweepFails

LEMMA PatchDeclinedKeeps ==
  ASSUME Inv, NEW q \in Queries, PatchDeclined(q)
  PROVE  Inv'
<1> DEFINE g == groups[q]
           x == Running(sweep.current)
           n == [g EXCEPT !.execution = x]
<1>1. /\ g # None /\ g \in Groups /\ g.execution # None /\ g.execution.phase = "patching"
      /\ UNCHANGED <<storeVars, opening, lagging, lastProbe, hintVars, sweep, sub, got, missed, faults>>
  BY DEF PatchDeclined, Has, Inv, Types
<1>2. groups' = [groups EXCEPT ![q] = n]
  BY DEF PatchDeclined, Inv, Types
<1>3. g.result # None /\ sweep.pc = "waiting" /\ sweep.at = q /\ q \notin sweep.todo /\ q # None
  BY <1>1, SweepFields DEF Inv, Patched, Patches, Course
<1>4. sweep.current \in Probes /\ sweep \in Sweeps
  BY <1>3 DEF Inv, Story, Moment, Types
<1>5. x \in Executions /\ x # None /\ x.phase = "running" /\ x.probe = sweep.current
  BY <1>4, ExecutionIs
<1> HIDE DEF x
<1>6. /\ n \in Groups /\ n # None /\ n.execution = x
      /\ n.dependencies = g.dependencies /\ n.seenProbe = g.seenProbe /\ n.result = g.result
      /\ n.maintained = g.maintained /\ n.deliveries = g.deliveries /\ n.adrift = g.adrift
  BY <1>1, <1>5, WithExecution
<1> HIDE DEF n
<1>7. Turn(q, sweep)
  BY <1>3 DEF Turn
<1>8. Turns(q, n)
  BY <1>1, <1>2, <1>3, <1>4 DEF Turns, Inv, Types
<1>9. Patches(q, n, sweep')
  BY <1>3, <1>5, <1>6 DEF Patches
<1>10. Asked(q) => Fine(q, n, history, epoch, q \in lagging', lastProbe, sweep')
  <2> SUFFICES ASSUME Asked(q) PROVE Fine(q, n, history, epoch, q \in lagging', lastProbe, sweep')
    OBVIOUS
  <2>1. /\ Knows(q, g, history, epoch) /\ Executes(q, g, history, epoch, sweep)
        /\ Keeps(q, g, history, q \in lagging, lastProbe, sweep)
    BY <1>1, KnownOf
  <2>2. Knows(q, n, history, epoch)
    BY <1>6, <2>1 DEF Knows
  <2>3. Executes(q, n, history, epoch, sweep')
    BY <1>1, <1>3, <1>5, <1>6, <2>1 DEF Executes
  <2>4. Keeps(q, n, history, q \in lagging', lastProbe, sweep')
    BY <1>1, <1>6, <2>1 DEF Keeps
  <2> QED
    BY <2>2, <2>3, <2>4 DEF Fine
<1> QED
  BY <1>1, <1>5, <1>6, <1>7, <1>8, <1>9, <1>10, TurnKeeps

(***************************************************************************)
(* The end of an execution.                                                *)
(***************************************************************************)
(* The execution of q is over, and the sweep that waits for it goes on. *)
Goes(q) ==
    \/ sweep' = sweep
    \/ /\ sweep.pc = "waiting" /\ sweep.at = q
       /\ sweep' \in Sweeps /\ sweep'.pc = "next" /\ sweep'.at = None
       /\ sweep'.last = sweep.last /\ sweep'.current = sweep.current /\ sweep'.todo = sweep.todo \ {q}
       /\ \A p \in sweep'.pending : p \in sweep.pending \/ p.to \in In(sub, q)

LEMMA GoesKeeps ==
  ASSUME Inv, NEW q \in Queries, groups[q] # None, NEW n \in Groups, groups' = [groups EXCEPT ![q] = n],
         UNCHANGED <<storeVars, opening, lastProbe>>, Goes(q), Patches(q, n, sweep'),
         lagging' \in {lagging, lagging \cup {q}, lagging \ {q}},
         Asked(q) => Fine(q, n, history, epoch, q \in lagging', lastProbe, sweep'),
         \A s \in Subscribers : QueryOf[s] # q => sub'[s] = sub[s] /\ got'[s] = got[s],
         \A s \in Subscribers : \/ sub'[s].pc = sub[s].pc
                                \/ sub[s].pc \in Attached /\ sub'[s].pc \in Attached \cup {"closed"},
         In(sub', q) # {},
         \A s \in Subscribers \ Observers : QueryOf[s] = q =>
            /\ Follows(sub'[s], n, got'[s])
            /\ Awaits(s, q, sub'[s], n, got'[s], sweep')
  PROVE  /\ Story' /\ Cast' /\ Course' /\ Patched' /\ Known' /\ Delivers'
         /\ sweep' \in Sweeps /\ groups' \in [Queries -> Groups \cup {None}] /\ lagging' \subseteq Queries
<1>1. /\ n # None /\ groups'[q] = n /\ \A p \in Queries : p # q => groups'[p] = groups[p]
      /\ \A p \in Queries : groups'[p] # None <=> groups[p] # None
      /\ groups' \in [Queries -> Groups \cup {None}] /\ lagging' \subseteq Queries
  BY NoneAssumption DEF Inv, Types
<1>2. /\ sweep \in Sweeps /\ sweep' \in Sweeps /\ sweep.todo \subseteq Queries /\ sweep.at \in Queries \cup {None}
      /\ \A p \in Queries : p # None
  BY SweepFields DEF Inv, Goes
<1>3. /\ history' = history /\ epoch' = epoch /\ lastProbe' = lastProbe /\ opening' = opening
  BY DEF storeVars
<1>4. /\ sweep'.last = sweep.last /\ sweep'.current = sweep.current /\ sweep'.todo \subseteq sweep.todo
      /\ sweep'.pc # "idle" <=> sweep.pc # "idle"
  BY DEF Goes
<1>5. Story'
  BY <1>3, <1>4 DEF Inv, Story
<1>6. Cast'
  <2>1. \A s \in Subscribers : sub'[s].pc \in Attached => groups'[QueryOf[s]] # None
    BY <1>1, LiveQueriesAssumption DEF Inv, Cast
  <2>2. \A p \in Queries : p # q => In(sub', p) = In(sub, p)
    BY DEF In
  <2>3. \A p \in Queries : groups'[p] # None => groups[p] # None /\ In(sub', p) # {}
    BY <1>1, <2>2 DEF Inv, Cast
  <2>4. \A p \in lagging' : groups'[p] # None
    BY <1>1 DEF Inv, Cast, Types
  <2> QED
    BY <1>3, <2>1, <2>3, <2>4, CastKeeps
<1>7. Course'
  <2>1. CASE sweep' = sweep
    BY <1>1, <1>2, <1>3, <2>1 DEF Inv, Course
  <2>2. CASE sweep' # sweep
    BY <1>1, <1>2, <1>3, <1>4, <2>2 DEF Inv, Course, Goes
  <2> QED
    BY <2>1, <2>2
<1>8. Patched'
  <2> SUFFICES ASSUME NEW p \in Queries, groups'[p] # None PROVE Patches(p, groups'[p], sweep')
    BY DEF Patched
  <2>1. CASE p = q
    BY <1>1, <2>1
  <2>2. CASE p # q
    <3>1. Patches(p, groups[p], sweep) /\ groups'[p] = groups[p]
      BY <1>1, <2>2 DEF Inv, Patched
    <3> QED
      BY <2>2, <3>1 DEF Patches, Goes
  <2> QED
    BY <2>1, <2>2
<1>9. Known'
  <2> SUFFICES ASSUME NEW p \in Queries, Asked(p)', groups'[p] # None
               PROVE  Fine(p, groups'[p], history, epoch, p \in lagging', lastProbe, sweep')
    BY <1>3 DEF Known
  <2>1. Asked(p) /\ groups[p] # None
    BY <1>1 DEF Asked, Attached
  <2>2. CASE p = q
    BY <1>1, <2>1, <2>2
  <2>3. CASE p # q
    <3>1. Fine(p, groups[p], history, epoch, p \in lagging, lastProbe, sweep)
      BY <2>1, KnownOf
    <3>2. (p \in lagging' <=> p \in lagging) /\ groups'[p] = groups[p]
      BY <1>1, <2>3
    <3>3. CASE sweep' = sweep
      BY <3>1, <3>2, <3>3
    <3>4. CASE sweep' # sweep
      <4>1. Turn(q, sweep) /\ sweep'.pc = "next" /\ sweep'.at = None /\ sweep'.todo = sweep.todo \ {q}
        BY <3>4 DEF Goes, Turn
      <4>2. Fine(p, groups[p], history, epoch, p \in lagging, lastProbe, sweep')
        BY <1>4, <2>3, <3>1, <4>1, OthersFine DEF Inv
      <4> QED
        BY <3>2, <4>2
    <3> QED
      BY <3>3, <3>4
  <2> QED
    BY <2>2, <2>3
<1>10. Delivers'
  <2> SUFFICES ASSUME NEW s \in Subscribers \ Observers
               PROVE  /\ Follows(sub'[s], groups'[QueryOf[s]], got'[s])
                      /\ Awaits(s, QueryOf[s], sub'[s], groups'[QueryOf[s]], got'[s], sweep')
    BY DEF Delivers
  <2>1. CASE QueryOf[s] = q
    BY <1>1, <2>1
  <2>2. CASE QueryOf[s] # q
    <3>1. /\ sub'[s] = sub[s] /\ got'[s] = got[s] /\ QueryOf[s] \in Queries
          /\ groups'[QueryOf[s]] = groups[QueryOf[s]]
          /\ Follows(sub[s], groups[QueryOf[s]], got[s])
          /\ Awaits(s, QueryOf[s], sub[s], groups[QueryOf[s]], got[s], sweep)
      BY <1>1, <2>2, LiveQueriesAssumption DEF Inv, Delivers
    <3>2. ASSUME NEW p \in sweep'.pending, p.to = s PROVE p \in sweep.pending
      BY <2>2, <3>2 DEF Goes, In
    <3>3. QueryOf[s] # sweep.at => QueryOf[s] # sweep'.at
      BY <1>2, <3>1 DEF Goes
    <3>4. Awaits(s, QueryOf[s], sub[s], groups[QueryOf[s]], got[s], sweep')
      BY <1>4, <3>1, <3>2, <3>3 DEF Awaits, Due
    <3> QED
      BY <3>1, <3>4
  <2> QED
    BY <2>1, <2>2
<1> QED
  BY <1>1, <1>2, <1>5, <1>6, <1>7, <1>8, <1>9, <1>10

(* The group that an execution leaves, without a sweep and with one. *)
Done(g) == [g EXCEPT !.execution = None]
Settled(g, changed, probe) ==
    [[Done(g) EXCEPT !.deliveries = IF changed THEN @ + 1 ELSE @] EXCEPT !.seenProbe = probe]

LEMMA OverIs ==
  ASSUME NEW g \in Groups, NEW changed \in BOOLEAN, NEW probe \in Probes
  PROVE  /\ \A n \in {Done(g), Settled(g, changed, probe)} :
               /\ n \in Groups /\ n # None /\ n.execution = None /\ n.dependencies = g.dependencies
               /\ n.result = g.result /\ n.maintained = g.maintained /\ n.adrift = g.adrift
         /\ Done(g).seenProbe = g.seenProbe /\ Done(g).deliveries = g.deliveries
         /\ Settled(g, changed, probe).seenProbe = probe
         /\ Settled(g, changed, probe).deliveries = IF changed THEN g.deliveries + 1 ELSE g.deliveries
<1> DEFINE count == IF changed THEN g.deliveries + 1 ELSE g.deliveries
           counted == [Done(g) EXCEPT !.deliveries = IF changed THEN @ + 1 ELSE @]
           settled == Settled(g, changed, probe)
<1>1. /\ Done(g) \in Groups /\ Done(g).execution = None /\ Done(g).dependencies = g.dependencies
      /\ Done(g).result = g.result /\ Done(g).maintained = g.maintained /\ Done(g).adrift = g.adrift
      /\ Done(g).seenProbe = g.seenProbe /\ Done(g).deliveries = g.deliveries
  BY DEF Groups, Done
<1>2. count \in Nat
  BY DEF Groups
<1>3. counted = [Done(g) EXCEPT !.deliveries = count]
  BY <1>1 DEF Groups
<1>4. settled = [counted EXCEPT !.seenProbe = probe]
  BY DEF Settled
<1> HIDE DEF count, settled
<1>5. /\ counted \in Groups /\ counted.execution = None /\ counted.dependencies = g.dependencies
      /\ counted.result = g.result /\ counted.maintained = g.maintained /\ counted.adrift = g.adrift
      /\ counted.deliveries = count
  BY <1>1, <1>2, <1>3 DEF Groups
<1> HIDE DEF counted
<1>6. /\ settled \in Groups /\ settled.execution = None /\ settled.dependencies = g.dependencies
      /\ settled.result = g.result /\ settled.maintained = g.maintained /\ settled.adrift = g.adrift
      /\ settled.seenProbe = probe /\ settled.deliveries = count
  BY <1>4, <1>5 DEF Groups
<1>7. Done(g) # None /\ settled # None
  BY <1>1, <1>6, NoneAssumption
<1> QED
  BY <1>1, <1>6, <1>7 DEF settled, count

(* What its subscribers follow, the ones that waited for it and the others. *)
LEMMA OverFollows ==
  ASSUME Inv, NEW s \in Subscribers \ Observers, NEW n \in Groups,
         groups[QueryOf[s]] # None, groups[QueryOf[s]].execution # None,
         n.result # None,
         \/ n.deliveries = groups[QueryOf[s]].deliveries + 1
         \/ n.deliveries = groups[QueryOf[s]].deliveries /\ groups[QueryOf[s]].result \in {None, n.result},
         NEW d, NEW have,
         IF sub[s].pc = "executing"
         THEN /\ d.pc \in {"live", "refreshing"}
              /\ \/ d.seenDelivery = sub[s].seenDelivery /\ have = got[s]
                 \/ d.seenDelivery = groups[QueryOf[s]].deliveries /\ have.result = n.result
         ELSE d = sub[s] /\ have = got[s]
  PROVE  Follows(d, n, have)
<1> DEFINE g == groups[QueryOf[s]]
<1>1. g \in Groups /\ Follows(sub[s], g, got[s]) /\ sub[s] \in Subs
  BY LiveQueriesAssumption DEF Inv, Types, Delivers
<1> QED
  BY <1>1 DEF Follows, Groups, Subs, Attached

LEMMA OverKeeps ==
  ASSUME Inv, NEW q \in Queries, groups[q] # None, groups[q].execution # None,
         NEW g \in Groups, NEW changed \in BOOLEAN, NEW base \in Results \cup {None}, Over(q, g, changed, base),
         g.seenProbe = groups[q].seenProbe, g.dependencies = groups[q].dependencies,
         g.deliveries = groups[q].deliveries, g.maintained => g.result # None, g.adrift => groups[q].adrift,
         Asked(q) => /\ g.result # None /\ base \in {None, groups[q].result}
                     /\ ~changed => groups[q].result = g.result
                     /\ g.adrift \/ Mirrors(history, epoch, q, g.result,
                                            IF SweepAwaits(q) THEN sweep.current ELSE g.seenProbe),
         UNCHANGED <<storeVars, opening, lastProbe, retryTimer, missed, faults>>
  PROVE  Inv'
<1> DEFINE old == groups[q]
           done == Done(g)
           settled == Settled(g, changed, sweep.current)
           gs == [groups EXCEPT ![q] = done]
           S == Awaiting(q)
           ns == Notices(q, TRUE, changed, g.result, base)
<1>1. /\ old \in Groups /\ old # None /\ sweep \in Sweeps /\ q # None /\ g # None
      /\ groups \in [Queries -> Groups \cup {None}]
  BY SweepFields, NoneAssumption DEF Inv, Types
<1>2. /\ \A n \in {done, settled} :
            sweep.current \in Probes \/ n = done =>
               /\ n \in Groups /\ n # None /\ n.execution = None /\ n.dependencies = g.dependencies
               /\ n.result = g.result /\ n.maintained = g.maintained /\ n.adrift = g.adrift
      /\ done.seenProbe = g.seenProbe /\ done.deliveries = g.deliveries
      /\ sweep.current \in Probes =>
            /\ settled.seenProbe = sweep.current
            /\ settled.deliveries = IF changed THEN g.deliveries + 1 ELSE g.deliveries
  <2>1. PICK p : p \in Probes
    BY <1>1 DEF Groups
  <2>2. /\ done \in Groups /\ done # None /\ done.execution = None /\ done.dependencies = g.dependencies
        /\ done.result = g.result /\ done.maintained = g.maintained /\ done.adrift = g.adrift
        /\ done.seenProbe = g.seenProbe /\ done.deliveries = g.deliveries
    BY <2>1, OverIs
  <2>3. ASSUME sweep.current \in Probes
        PROVE  /\ settled \in Groups /\ settled # None /\ settled.execution = None
               /\ settled.dependencies = g.dependencies
               /\ settled.result = g.result /\ settled.maintained = g.maintained /\ settled.adrift = g.adrift
               /\ settled.seenProbe = sweep.current
               /\ settled.deliveries = IF changed THEN g.deliveries + 1 ELSE g.deliveries
    BY <2>3, OverIs
  <2> HIDE DEF done, settled
  <2> QED
    BY <2>2, <2>3
<1>3. GoOn(S, gs)
  BY DEF Over, Done
<1>4. IF SweepAwaits(q)
      THEN /\ groups' = [groups EXCEPT ![q] = settled] /\ lagging' = lagging \ {q} /\ Visited(q, ns)
      ELSE groups' = gs /\ UNCHANGED <<lagging, sweep>>
  BY DEF Over, SettleProbe, Done, Settled
<1> HIDE DEF done, settled
<1>5. /\ gs[q] = done /\ \A s \in S : s \in Subscribers /\ QueryOf[s] = q /\ sub[s].pc = "executing"
      /\ S \in SUBSET Subscribers
  BY <1>1 DEF Awaiting
<1> HIDE DEF gs, S
<1>6. Asked(q) => /\ Knows(q, old, history, epoch) /\ Executes(q, old, history, epoch, sweep)
                  /\ Keeps(q, old, history, q \in lagging, lastProbe, sweep)
  BY <1>1, KnownOf
<1>7. SweepAwaits(q) => /\ sweep.pc = "waiting" /\ sweep.at = q /\ q \notin sweep.todo
                        /\ sweep.current \in Probes /\ Moment(history, epoch, sweep.current)
                        /\ AtLeast(sweep.current, lastProbe) /\ Timeline(history, epoch)
  BY <1>1 DEF SweepAwaits, Inv, Course, Story, Moment
<1>8. ASSUME Asked(q) PROVE old.adrift \/ Mirrors(history, epoch, q, g.result, g.seenProbe)
  <2>1. CASE ~SweepAwaits(q)
    BY <1>8, <2>1
  <2>2. CASE SweepAwaits(q) /\ ~old.adrift
    <3>1. Mirrors(history, epoch, q, g.result, sweep.current) /\ AtLeast(sweep.current, g.seenProbe)
      BY <1>6, <1>7, <1>8, <2>2 DEF Executes
    <3>2. Moment(history, epoch, g.seenProbe) /\ Carries(history, q, sweep.current, g.seenProbe)
      BY <1>6, <1>8, <3>1 DEF Knows, Carries
    <3> QED
      BY <1>7, <2>2, <3>1, <3>2, MirrorsOn
  <2> QED
    BY <2>1, <2>2
<1>9. /\ sub' \in [Subscribers -> Subs] /\ got' \in [Subscribers -> Receipts] /\ sweepQueued' \in BOOLEAN
      /\ DeliveryTrue' /\ MapsFit'
      /\ \A s \in Subscribers \ S : sub'[s] = sub[s] /\ got'[s] = got[s]
      /\ \A s \in S : sub'[s].pc \in {"live", "refreshing"}
      /\ \A s \in S \ Observers :
            \/ sub'[s].seenDelivery = sub[s].seenDelivery /\ got'[s] = got[s]
            \/ sub'[s].seenDelivery = done.deliveries /\ got'[s].result = done.result
  <2>1. \A s \in S : /\ gs[QueryOf[s]] \in Groups
                     /\ s \notin Observers =>
                           /\ groups[QueryOf[s]] \in Groups
                           /\ \/ groups[QueryOf[s]].adrift
                              \/ Mirrors(history, epoch, QueryOf[s], gs[QueryOf[s]].result, gs[QueryOf[s]].seenProbe)
    <3> SUFFICES ASSUME NEW s \in S
                 PROVE  /\ gs[q] \in Groups
                        /\ s \notin Observers => old.adrift \/ Mirrors(history, epoch, q, gs[q].result, gs[q].seenProbe)
      BY <1>1, <1>5
    <3>1. s \notin Observers => Asked(q)
      BY <1>5 DEF Asked
    <3> QED
      BY <1>2, <1>5, <1>8, <3>1
  <2>2. /\ sub' \in [Subscribers -> Subs] /\ got' \in [Subscribers -> Receipts] /\ sweepQueued' \in BOOLEAN
        /\ DeliveryTrue' /\ MapsFit'
        /\ \A s \in Subscribers \ S : sub'[s] = sub[s] /\ got'[s] = got[s]
        /\ \A s \in S : sub'[s].pc \in {"live", "refreshing"}
        /\ \A s \in S \ Observers :
              \/ sub'[s].seenDelivery = sub[s].seenDelivery /\ got'[s] = got[s]
              \/ sub'[s].seenDelivery = gs[QueryOf[s]].deliveries /\ got'[s].result = gs[QueryOf[s]].result
    <3>1. GoOn(S, gs)
      BY <1>3
    <3>2. S \in SUBSET Subscribers
      BY <1>5
    <3> HIDE DEF old, ns
    <3> QED
      BY <3>1, <3>2, <2>1, GoOnEach, SMTT(60)
  <2>3. \A s \in S : gs[QueryOf[s]] = done
    BY <1>5
  <2> QED
    BY <2>2, <2>3
<1>10. /\ \A s \in Subscribers : QueryOf[s] # q => sub'[s] = sub[s] /\ got'[s] = got[s]
       /\ \A s \in Subscribers : sub'[s].pc = sub[s].pc \/ (sub[s].pc \in Attached /\ sub'[s].pc \in Attached)
       /\ In(sub', q) # {}
  <2>1. \A s \in Subscribers : QueryOf[s] # q => sub'[s] = sub[s] /\ got'[s] = got[s]
    BY <1>5, <1>9
  <2>2. \A s \in Subscribers : sub'[s].pc = sub[s].pc \/ (sub[s].pc \in Attached /\ sub'[s].pc \in Attached)
    BY <1>5, <1>9 DEF Attached
  <2>3. In(sub, q) # {}
    BY DEF Inv, Cast
  <2> QED
    BY <2>1, <2>2, <2>3 DEF In
<1>11. ASSUME NEW s \in Subscribers \ Observers, QueryOf[s] = q, sub'[s].pc # "closed"
       PROVE  /\ Asked(q) /\ sub[s].pc # "closed"
              /\ \A p \in sweep.pending : p.to # s
              /\ \A n \in Groups : n.result = g.result /\ n.deliveries \in {g.deliveries, g.deliveries + 1}
                    /\ (n.deliveries = g.deliveries => old.result \in {None, g.result})
                    => Follows(sub'[s], n, got'[s])
  <2>1. sub[s].pc # "closed"
    BY <1>10, <1>11 DEF Attached
  <2>2. Asked(q)
    BY <1>11, <2>1 DEF Asked
  <2>3. \A p \in sweep.pending : p.to # s
    BY <1>11, <2>1 DEF Inv, Delivers, Awaits, Due
  <2>4. s \in S <=> sub[s].pc = "executing"
    BY <1>11 DEF S, Awaiting
  <2>5. ASSUME NEW n \in Groups, n.result = g.result, n.deliveries \in {g.deliveries, g.deliveries + 1},
               n.deliveries = g.deliveries => old.result \in {None, g.result}
        PROVE  Follows(sub'[s], n, got'[s])
    <3>1. IF sub[s].pc = "executing"
          THEN /\ sub'[s].pc \in {"live", "refreshing"}
               /\ \/ sub'[s].seenDelivery = sub[s].seenDelivery /\ got'[s] = got[s]
                  \/ sub'[s].seenDelivery = old.deliveries /\ got'[s].result = n.result
          ELSE sub'[s] = sub[s] /\ got'[s] = got[s]
      BY <1>2, <1>9, <2>4, <2>5
    <3> HIDE DEF old
    <3>2. n.result # None
      BY <2>2, <2>5
    <3> QED
      BY <1>11, <2>5, <3>1, <3>2, OverFollows DEF old
  <2> QED
    BY <2>1, <2>2, <2>3, <2>5
<1>12. CASE ~SweepAwaits(q)
  <2>1. groups' = [groups EXCEPT ![q] = done] /\ sweep' = sweep /\ lagging' = lagging
    BY <1>4, <1>12 DEF gs
  <2>2. Patches(q, done, sweep')
    BY <1>2 DEF Patches
  <2>3. Asked(q) => Fine(q, done, history, epoch, q \in lagging', lastProbe, sweep')
    <3> SUFFICES ASSUME Asked(q) PROVE Fine(q, done, history, epoch, q \in lagging, lastProbe, sweep)
      BY <2>1
    <3>1. Knows(q, done, history, epoch)
      BY <1>2, <1>6, <1>12 DEF Knows
    <3>2. Executes(q, done, history, epoch, sweep)
      BY <1>2, <1>12 DEF Executes, SweepAwaits
    <3>3. Keeps(q, done, history, q \in lagging, lastProbe, sweep)
      BY <1>2, <1>6 DEF Keeps
    <3> QED
      BY <3>1, <3>2, <3>3 DEF Fine
  <2>4. ASSUME NEW s \in Subscribers \ Observers, QueryOf[s] = q
        PROVE  Follows(sub'[s], done, got'[s]) /\ Awaits(s, q, sub'[s], done, got'[s], sweep')
    <3>1. CASE sub'[s].pc = "closed"
      BY <3>1 DEF Follows, Awaits, Attached
    <3>2. CASE sub'[s].pc # "closed"
      <4>1. Asked(q) /\ \A p \in sweep.pending : p.to # s
        BY <1>11, <2>4, <3>2
      <4>2. old.result = None
        BY <1>6, <1>12, <4>1 DEF Executes, SweepAwaits
      <4> QED
        BY <1>2, <1>11, <2>1, <2>4, <3>2, <4>1, <4>2 DEF Awaits
    <3> QED
      BY <3>1, <3>2
  <2>5. Goes(q)
    BY <2>1 DEF Goes
  <2>6. /\ Story' /\ Cast' /\ Course' /\ Patched' /\ Known' /\ Delivers'
        /\ sweep' \in Sweeps /\ groups' \in [Queries -> Groups \cup {None}] /\ lagging' \subseteq Queries
    BY <1>2, <1>10, <2>1, <2>2, <2>3, <2>4, <2>5, GoesKeeps
  <2>7. Types'
    BY <1>9, <2>6 DEF Inv, Types, storeVars
  <2> QED
    BY <1>9, <2>6, <2>7 DEF Inv
<1>13. CASE SweepAwaits(q)
  <2>1. groups' = [groups EXCEPT ![q] = settled] /\ lagging' = lagging \ {q} /\ Visited(q, ns)
    BY <1>4, <1>13
  <2>2. /\ settled \in Groups /\ settled.execution = None /\ settled.dependencies = g.dependencies
        /\ settled.result = g.result /\ settled.maintained = g.maintained /\ settled.adrift = g.adrift
        /\ settled.seenProbe = sweep.current
        /\ settled.deliveries = IF changed THEN g.deliveries + 1 ELSE g.deliveries
    BY <1>2, <1>7, <1>13
  <2>3. /\ sweep' \in Sweeps /\ sweep'.pc = "next" /\ sweep'.at = None
        /\ sweep'.last = sweep.last /\ sweep'.current = sweep.current
        /\ sweep'.todo = sweep.todo \ {q} /\ sweep'.pending = sweep.pending \cup ns
        /\ \A p \in ns : /\ p.to \in In(sub, q)
                         /\ p.to \notin Observers => changed /\ p.result = g.result /\ p.base = base
    <3>1. g.result \in Results \cup {None}
      BY DEF Groups
    <3>2. /\ ns \subseteq [to : Subscribers, result : Results \cup {None}, base : Results \cup {None}]
          /\ \A p \in ns : /\ p.to \in In(sub, q)
                           /\ p.to \notin Observers => changed /\ p.result = g.result /\ p.base = base
      BY <3>1 DEF Notices, In
    <3> HIDE DEF ns
    <3> QED
      BY <2>1, <3>2, VisitedIs
  <2> HIDE DEF ns
  <2>4. Patches(q, settled, sweep')
    BY <2>2 DEF Patches
  <2>5. Asked(q) => Fine(q, settled, history, epoch, q \in lagging', lastProbe, sweep')
    <3> SUFFICES ASSUME Asked(q) PROVE Fine(q, settled, history, epoch, q \in lagging', lastProbe, sweep')
      OBVIOUS
    <3>1. Knows(q, settled, history, epoch)
      BY <1>6, <1>7, <1>13, <2>2 DEF Knows, Executes
    <3>2. Executes(q, settled, history, epoch, sweep')
      BY <2>2, <2>3 DEF Executes
    <3>3. AtLeast(sweep.current, sweep.current)
      BY <1>7, <1>13 DEF AtLeast, Probes
    <3>4. Keeps(q, settled, history, q \in lagging', lastProbe, sweep')
      BY <1>7, <1>13, <2>2, <2>3, <3>3 DEF Keeps, Carries
    <3> QED
      BY <3>1, <3>2, <3>4 DEF Fine
  <2>6. ASSUME NEW s \in Subscribers \ Observers, QueryOf[s] = q
        PROVE  Follows(sub'[s], settled, got'[s]) /\ Awaits(s, q, sub'[s], settled, got'[s], sweep')
    <3>1. CASE sub'[s].pc = "closed"
      BY <3>1 DEF Follows, Awaits, Attached
    <3>2. CASE sub'[s].pc # "closed"
      <4>1. Asked(q) /\ sub[s].pc # "closed" /\ \A p \in sweep.pending : p.to # s
        BY <1>11, <2>6, <3>2
      <4>2. settled.deliveries \in {g.deliveries, g.deliveries + 1} /\ g.deliveries \in Nat
            /\ (settled.deliveries = g.deliveries => ~changed)
        BY <2>2 DEF Groups
      <4>3. Follows(sub'[s], settled, got'[s])
        BY <1>11, <2>2, <2>6, <3>2, <4>1, <4>2
      <4>4. ASSUME NEW p \in sweep'.pending, p.to = s
            PROVE  Due(p, q, sub'[s], settled, got'[s], sweep')
        <5>1. changed /\ p.result = g.result /\ p.base = base /\ s \in In(sub, q)
          BY <2>3, <4>1, <4>4
        <5>2. sub'[s].pc \in Attached
          BY <1>10, <5>1 DEF In
        <5>3. settled.deliveries - 1 = old.deliveries
          BY <2>2, <4>2, <5>1
        <5>4. sub'[s].seenDelivery = old.deliveries => base \in {None, got'[s].result}
          <6>1. Follows(sub[s], old, got[s]) /\ sub[s].pc \in Attached
            BY <2>6, <5>1 DEF Inv, Delivers, In
          <6>2. CASE sub[s].pc = "executing"
            <7>1. old.result = None
              BY <6>1, <6>2 DEF Follows
            <7> QED
              BY <4>1, <7>1
          <6>3. CASE sub[s].pc # "executing"
            <7>1. sub'[s] = sub[s] /\ got'[s] = got[s]
              BY <1>9, <6>3, <1>5
            <7> QED
              BY <4>1, <6>1, <7>1 DEF Follows
          <6> QED
            BY <6>2, <6>3
        <5> HIDE DEF old
        <5> QED
          BY <1>1, <2>2, <2>3, <4>1, <5>1, <5>2, <5>3, <5>4 DEF Due
      <4> QED
        BY <4>3, <4>4 DEF Awaits
    <3> QED
      BY <3>1, <3>2
  <2>7. Goes(q)
    BY <1>7, <1>13, <2>3 DEF Goes
  <2>8. /\ Story' /\ Cast' /\ Course' /\ Patched' /\ Known' /\ Delivers'
        /\ sweep' \in Sweeps /\ groups' \in [Queries -> Groups \cup {None}] /\ lagging' \subseteq Queries
    BY <1>10, <2>1, <2>2, <2>4, <2>5, <2>6, <2>7, GoesKeeps
  <2>9. Types'
    BY <1>9, <2>8 DEF Inv, Types, storeVars
  <2> QED
    BY <1>9, <2>8, <2>9 DEF Inv
<1> QED
  BY <1>12, <1>13

LEMMA RetainKeeps ==
  ASSUME Inv, NEW q \in Queries, groups[q] # None, groups[q].execution # None,
         NEW result \in Results, NEW maintained \in BOOLEAN, NEW base \in Results \cup {None},
         Retain(q, result, maintained, base),
         Asked(q) => /\ base \in {None, groups[q].result}
                     /\ \/ groups[q].adrift /\ base # None
                        \/ Mirrors(history, epoch, q, result,
                                   IF SweepAwaits(q) THEN sweep.current ELSE groups[q].seenProbe)
  PROVE  Inv'
<1> DEFINE old == groups[q]
           drift == old.adrift /\ base # None
           g == [groups[q] EXCEPT !.result = result, !.maintained = maintained, !.adrift = @ /\ base # None]
           changed == groups[q].result = None \/ groups[q].result # result
           memo == [g EXCEPT !.execution.phase = "memo", !.execution.base = base, !.execution.changed = changed]
<1>1. /\ old \in Groups /\ old.execution \in Executions /\ changed \in BOOLEAN /\ drift \in BOOLEAN
      /\ result # None /\ groups \in [Queries -> Groups \cup {None}]
  BY NoneAssumption DEF Inv, Types, Groups
<1>2. /\ g \in Groups /\ g.result = result /\ g.maintained = maintained /\ g.adrift = drift
      /\ g.seenProbe = old.seenProbe /\ g.dependencies = old.dependencies /\ g.deliveries = old.deliveries
      /\ g.execution = old.execution
  <2>1. g = [old EXCEPT !.result = result, !.maintained = maintained, !.adrift = drift]
    BY <1>1 DEF Groups
  <2> HIDE DEF g, drift
  <2> QED
    BY <1>1, <2>1 DEF Groups
<1>3. UNCHANGED <<storeVars, opening, lastProbe, retryTimer, missed, faults>>
  BY DEF Retain
<1>4. CASE maintained /\ GroupMemoizes(q, changed)
  <2>1. groups' = [groups EXCEPT ![q] = memo] /\ UNCHANGED <<lagging, sweep, sub, got, sweepQueued>>
    BY <1>4 DEF Retain
  <2> DEFINE x == [old.execution EXCEPT !.phase = "memo", !.base = base, !.changed = changed]
  <2> HIDE DEF changed
  <2>2. x \in Executions /\ x # None /\ x.phase = "memo"
    <3>1. x \in Executions /\ x.phase = "memo"
      BY <1>1 DEF Executions
    <3> QED
      BY <3>1, NoneAssumption
  <2> HIDE DEF g
  <2>3. memo = [g EXCEPT !.execution = x]
    BY <1>2 DEF Groups
  <2> HIDE DEF x, memo
  <2>4. /\ memo \in Groups /\ memo.execution = x /\ memo.result = g.result
    BY <1>2, <2>2, <2>3, WithExecution
  <2>5. Patches(q, memo, sweep')
    BY <1>1, <1>2, <2>2, <2>4 DEF Patches
  <2>6. ~Asked(q)
    BY <1>4, AskedIs DEF changed
  <2>7. In(sub', q) # {}
    BY <2>1 DEF Inv, Cast, In
  <2>8. ASSUME NEW s \in Subscribers \ Observers, QueryOf[s] = q
        PROVE  Follows(sub'[s], memo, got'[s]) /\ Awaits(s, q, sub'[s], memo, got'[s], sweep')
    <3>1. sub'[s].pc = "closed"
      BY <2>1, <2>6, <2>8 DEF Asked
    <3> QED
      BY <3>1 DEF Follows, Awaits, Attached
  <2>9. Goes(q)
    BY <2>1 DEF Goes
  <2>10. /\ Story' /\ Cast' /\ Course' /\ Patched' /\ Known' /\ Delivers'
         /\ sweep' \in Sweeps /\ groups' \in [Queries -> Groups \cup {None}] /\ lagging' \subseteq Queries
    BY <1>3, <2>1, <2>4, <2>5, <2>6, <2>7, <2>8, <2>9, GoesKeeps
  <2>11. Types' /\ DeliveryTrue' /\ MapsFit'
    BY <1>3, <2>1, <2>10 DEF Inv, Types, storeVars, DeliveryTrue, MapsFit
  <2> QED
    BY <2>10, <2>11 DEF Inv
<1>5. CASE ~(maintained /\ GroupMemoizes(q, changed))
  <2>1. Over(q, g, changed, base)
    BY <1>5 DEF Retain
  <2>2. ~changed => old.result = g.result
    BY <1>2
  <2> HIDE DEF changed, g
  <2>3. /\ g.maintained => g.result # None
        /\ g.adrift => old.adrift
        /\ Asked(q) => /\ g.result # None /\ base \in {None, old.result}
                       /\ ~changed => old.result = g.result
                       /\ g.adrift \/ Mirrors(history, epoch, q, g.result,
                                              IF SweepAwaits(q) THEN sweep.current ELSE g.seenProbe)
    BY <1>1, <1>2, <2>2
  <2> HIDE DEF drift
  <2> QED
    BY <1>1, <1>2, <1>3, <2>1, <2>3, OverKeeps
<1> QED
  BY <1>4, <1>5

LEMMA ExecutionLandsKeeps ==
  ASSUME Inv, NEW q \in Queries, ExecutionLands(q)
  PROVE  Inv'
<1> DEFINE g == groups[q]
<1>1. /\ g # None /\ g \in Groups /\ g.execution # None /\ g.execution.phase = "running"
      /\ g.execution.probe \in Probes
  BY DEF ExecutionLands, Has, Inv, Types, Groups, Executions
<1>2. PICK m \in MomentsSince(g.execution.probe) : Retain(q, Answer(q, m), q \in Maintainable, None)
  BY DEF ExecutionLands
<1>3. Moment(history, epoch, m) /\ AtLeast(m, g.execution.probe) /\ Answer(q, m) = At(history, q, m)
  BY <1>1, SinceIsMoment DEF Inv
<1>4. Timeline(history, epoch) /\ epoch \in 0 .. MaxEpoch
  BY DEF Inv, Story, Types
<1> DEFINE r == Answer(q, m)
<1>5. r \in Results
  <2>1. m.epoch \in 0 .. MaxEpoch /\ m.version \in Nat
    BY <1>3, <1>4, LiveQueriesAssumption DEF Moment, Probes
  <2>2. Reads[m.epoch][q] \in SUBSET Tables
    BY <2>1, LiveQueriesAssumption
  <2>3. Shown(history, Reads[m.epoch][q], 0, m.version) \subseteq Nat
    BY <2>1 DEF Shown
  <2> QED
    BY <1>3, <2>2, <2>3 DEF At, Results
<1>6. Mirrors(history, epoch, q, r, g.execution.probe)
  <2>1. m \in [version : 0 .. Len(history), epoch : 0 .. epoch]
    BY <1>3, <1>4 DEF Moment, Probes, Timeline
  <2> QED
    BY <1>3, <2>1 DEF Mirrors
<1> HIDE DEF r
<1>7. Asked(q) => Mirrors(history, epoch, q, r, IF SweepAwaits(q) THEN sweep.current ELSE g.seenProbe)
  <2> SUFFICES ASSUME Asked(q)
               PROVE  Mirrors(history, epoch, q, r, IF SweepAwaits(q) THEN sweep.current ELSE g.seenProbe)
    OBVIOUS
  <2>1. Knows(q, g, history, epoch) /\ Executes(q, g, history, epoch, sweep)
    BY <1>1, KnownOf
  <2>2. CASE SweepAwaits(q)
    BY <1>6, <2>1, <2>2 DEF Executes, SweepAwaits
  <2>3. CASE ~SweepAwaits(q)
    <3>1. Moment(history, epoch, g.execution.probe) /\ Carries(history, q, g.execution.probe, g.seenProbe)
      BY <1>1, <2>1, <2>3 DEF Executes, SweepAwaits
    <3>2. Moment(history, epoch, g.seenProbe)
      BY <2>1 DEF Knows
    <3>3. Mirrors(history, epoch, q, r, g.seenProbe)
      BY <1>4, <1>6, <3>1, <3>2, MirrorsOn
    <3> QED
      BY <2>3, <3>3
  <2> QED
    BY <2>2, <2>3
<1>8. Retain(q, r, q \in Maintainable, None) /\ (q \in Maintainable) \in BOOLEAN
  BY <1>2 DEF r
<1>9. PICK maintained \in BOOLEAN : Retain(q, r, maintained, None)
  BY <1>8
<1> QED
  BY <1>1, <1>5, <1>7, <1>9, RetainKeeps

LEMMA PatchLandsKeeps ==
  ASSUME Inv, NEW q \in Queries, PatchLands(q)
  PROVE  Inv'
<1> DEFINE g == groups[q]
           x == g.execution
           new == Rows(g.result.tables \cap g.dependencies, x.after, x.probe.version)
           r == [g.result EXCEPT !.rows = @ \cup new]
<1>1. /\ g # None /\ g \in Groups /\ x # None /\ x.phase = "patching" /\ x \in Executions /\ x.probe \in Probes
      /\ Retain(q, r, TRUE, g.result)
  BY DEF PatchLands, Has, Inv, Types, Groups, Executions
<1>2. g.result # None /\ g.result \in Results /\ sweep.pc = "waiting" /\ sweep.at = q /\ SweepAwaits(q)
  BY <1>1 DEF Inv, Patched, Patches, Groups, SweepAwaits
<1>3. Timeline(history, epoch) /\ Moment(history, epoch, sweep.current)
  BY <1>2 DEF Inv, Story
<1>4. new = Shown(history, g.result.tables \cap g.dependencies, x.after, x.probe.version) /\ new \subseteq Nat
  BY <1>1 DEF Rows, Shown, Executions, Probes
<1> HIDE DEF new
<1>5. r = [tables |-> g.result.tables, rows |-> g.result.rows \cup new]
  BY <1>2, WithRows DEF Results
<1> HIDE DEF r
<1>6. r \in Results
  BY <1>2, <1>4, <1>5 DEF Results
<1>7. Asked(q) => g.adrift \/ Mirrors(history, epoch, q, r, sweep.current)
  <2> SUFFICES ASSUME Asked(q), ~g.adrift PROVE Mirrors(history, epoch, q, r, sweep.current)
    OBVIOUS
  <2> DEFINE prior == [version |-> x.after, epoch |-> x.probe.epoch]
  <2>1. Executes(q, g, history, epoch, sweep)
    BY <1>1, KnownOf
  <2>2. x.probe = sweep.current /\ Continues(q, g, history, epoch)
    BY <1>1, <1>2, <2>1 DEF Executes
  <2>3. /\ x.after <= x.probe.version /\ g.dependencies = Reads[x.probe.epoch][q] /\ Moment(history, epoch, prior)
        /\ Mirrors(history, epoch, q, g.result, prior)
    BY <2>2 DEF Continues
  <2>4. prior.version = x.after /\ prior.epoch = x.probe.epoch
    OBVIOUS
  <2> HIDE DEF prior, x, g
  <2>5. Mirrors(history, epoch, q, [tables |-> g.result.tables,
                  rows |-> g.result.rows \cup Shown(history, g.result.tables \cap Reads[sweep.current.epoch][q],
                                                    prior.version, sweep.current.version)], sweep.current)
    BY <1>3, <2>2, <2>3, <2>4, PatchMirrors
  <2> QED
    BY <1>4, <1>5, <2>2, <2>3, <2>4, <2>5
<1>8. PICK maintained \in BOOLEAN : Retain(q, r, maintained, g.result)
  BY <1>1
<1> QED
  BY <1>1, <1>2, <1>6, <1>7, <1>8, RetainKeeps

LEMMA MemoEndsKeeps ==
  ASSUME Inv, NEW q \in Queries, MemoEnds(q)
  PROVE  Inv'
<1> DEFINE g == groups[q]
           x == g.execution
<1>1. /\ g # None /\ g \in Groups /\ x # None /\ x.phase = "memo" /\ x \in Executions
      /\ x.changed \in BOOLEAN /\ x.base \in Results \cup {None}
      /\ Over(q, g, x.changed, x.base) /\ UNCHANGED <<storeVars, opening, lastProbe, retryTimer, missed, faults>>
  BY DEF MemoEnds, Has, Inv, Types, Groups, Executions
<1>2. g.maintained => g.result # None
  BY <1>1 DEF Inv, Patched, Patches
<1>3. ~Asked(q)
  <2> SUFFICES ASSUME Asked(q) PROVE FALSE
    OBVIOUS
  <2>1. Executes(q, g, history, epoch, sweep)
    BY <1>1, KnownOf
  <2> QED
    BY <1>1, <2>1 DEF Executes
<1> QED
  BY <1>1, <1>2, <1>3, OverKeeps

LEMMA ExecutionFailsKeeps ==
  ASSUME Inv, NEW q \in Queries, ExecutionFails(q)
  PROVE  Inv'
<1> DEFINE subs == Drop(Awaiting(q))
           g == groups[q]
           done == [g EXCEPT !.execution = None]
           gs == [groups EXCEPT ![q] = IF Empty(q, subs) THEN None ELSE [groups[q] EXCEPT !.execution = None]]
<1>1. /\ g # None /\ g \in Groups /\ g.execution # None /\ Fault
      /\ groups' = gs
      /\ lagging' = IF Empty(q, subs) THEN lagging \ {q}
                    ELSE IF SweepAwaits(q) THEN lagging \cup {q} ELSE lagging
      /\ UNCHANGED <<storeVars, opening, lastProbe, sweepQueued>>
  BY DEF ExecutionFails, Has, Inv, Types
<1>2. /\ done \in Groups /\ done # None /\ done.execution = None
      /\ done.dependencies = g.dependencies /\ done.seenProbe = g.seenProbe /\ done.result = g.result
      /\ done.maintained = g.maintained /\ done.deliveries = g.deliveries /\ done.adrift = g.adrift
  BY <1>1, WithExecution
<1>3. groups' = [groups EXCEPT ![q] = IF Empty(q, subs) THEN None ELSE done]
  BY <1>1
<1>4. /\ subs \in [Subscribers -> Subs]
      /\ \A s \in Subscribers : IF QueryOf[s] = q /\ sub[s].pc = "executing" THEN subs[s] = Gone ELSE subs[s] = sub[s]
  BY Blank DEF Drop, Awaiting, Inv, Types
<1> HIDE DEF done, subs, gs
<1>5. Gone.pc = "closed" /\ q # None /\ sweep \in Sweeps /\ faults' \in Nat
  <2>1. faults' \in Nat
    BY <1>1 DEF Inv, Types, Fault
  <2> QED
    BY <2>1, Blank, SweepFields DEF Inv
<1>6. /\ \A s \in Subscribers : \/ subs[s].pc = sub[s].pc
                                \/ sub[s].pc \in Attached /\ subs[s].pc = "closed"
      /\ \A p \in Queries : p # q => In(subs, p) = In(sub, p)
  <2>1. \A s \in Subscribers : QueryOf[s] # q => subs[s] = sub[s]
    BY <1>4
  <2> QED
    BY <1>4, <1>5, <2>1 DEF In, Attached
<1>7. /\ groups'[q] = IF Empty(q, subs) THEN None ELSE done
      /\ \A p \in Queries : p # q => groups'[p] = groups[p]
      /\ groups' \in [Queries -> Groups \cup {None}]
  BY <1>2, <1>3 DEF Inv, Types
<1>8. \A s \in Subscribers \ Observers : QueryOf[s] = q /\ sub[s].pc # "closed" => \A p \in sweep.pending : p.to # s
  BY <1>1 DEF Inv, Delivers, Awaits, Due
<1>9. SweepAwaits(q) => sweep.pc = "waiting" /\ sweep.at = q /\ q \notin sweep.todo
  BY <1>5 DEF SweepAwaits, Inv, Course
<1>10. Asked(q) => /\ Knows(q, g, history, epoch) /\ Executes(q, g, history, epoch, sweep)
                   /\ Keeps(q, g, history, q \in lagging, lastProbe, sweep)
  BY <1>1, KnownOf
<1>11. lagging' \subseteq Queries /\ \A p \in lagging' : groups'[p] # None
  BY <1>1, <1>2, <1>7 DEF Inv, Types, Cast
<1>12. CASE SweepAwaits(q) /\ Abort(subs, gs, TRUE)
  <2>1. EndOfSweep(subs, groups', {}) /\ retryTimer' \in BOOLEAN
    BY <1>1, <1>12 DEF Abort
  <2>2. Found(subs, groups')
    <3>1. ASSUME NEW s \in Subscribers, subs[s].pc \in Attached
          PROVE  /\ groups'[QueryOf[s]] \in Groups
                 /\ groups'[QueryOf[s]].result = groups[QueryOf[s]].result
                 /\ groups'[QueryOf[s]].seenProbe = groups[QueryOf[s]].seenProbe
                 /\ groups'[QueryOf[s]].deliveries = groups[QueryOf[s]].deliveries
                 /\ subs[s].pc = "executing" => groups'[QueryOf[s]].execution = groups[QueryOf[s]].execution
      <4>1. subs[s] = sub[s] /\ QueryOf[s] \in Queries /\ groups[QueryOf[s]] # None
        BY <1>4, <1>5, <3>1, LiveQueriesAssumption DEF Attached, Inv, Cast
      <4>2. CASE QueryOf[s] = q
        <5>1. s \in In(subs, q) /\ sub[s].pc # "executing"
          BY <1>4, <1>5, <3>1, <4>2 DEF In, Attached
        <5>2. groups'[q] = done
          BY <1>7, <5>1 DEF Empty
        <5> QED
          BY <1>2, <4>1, <4>2, <5>1, <5>2
      <4>3. CASE QueryOf[s] # q
        BY <1>7, <4>1, <4>3
      <4> QED
        BY <4>2, <4>3
    <3> QED
      BY <1>4, <1>5, <3>1 DEF Found
  <2>3. \A s \in Subscribers : subs[s].pc = sub[s].pc \/ sub[s].pc \in Attached
    BY <1>6
  <2>4. \A p \in Queries : groups'[p] # None =>
            /\ groups[p] # None /\ Leaves(groups'[p], groups[p]) /\ In(subs, p) # {}
            /\ groups'[p].execution # None => ~(sweep.pc = "waiting" /\ sweep.at = p)
    <3> SUFFICES ASSUME NEW p \in Queries, groups'[p] # None
                 PROVE  /\ groups[p] # None /\ Leaves(groups'[p], groups[p]) /\ In(subs, p) # {}
                        /\ groups'[p].execution # None => ~(sweep.pc = "waiting" /\ sweep.at = p)
      OBVIOUS
    <3>1. CASE p = q
      <4>1. ~Empty(q, subs) /\ groups'[q] = done
        BY <1>7, <3>1
      <4> QED
        BY <1>1, <1>2, <3>1, <4>1 DEF Empty, Leaves, done
    <3>2. CASE p # q
      BY <1>6, <1>7, <1>9, <1>12, <3>2 DEF Leaves, Inv, Cast
    <3> QED
      BY <3>1, <3>2
  <2>5. \A p \in Queries : Asked(p) /\ groups'[p] # None /\ p \notin lagging' =>
            Carries(history, p, groups[p].seenProbe, lastProbe')
    <3> SUFFICES ASSUME NEW p \in Queries, Asked(p), groups'[p] # None, p \notin lagging'
                 PROVE  Carries(history, p, groups[p].seenProbe, lastProbe')
      OBVIOUS
    <3>1. p # q
      BY <1>1, <1>7, <1>12
    <3>2. p \notin lagging /\ groups[p] # None /\ p # sweep.at /\ lastProbe' = lastProbe
      BY <1>1, <1>7, <1>9, <1>12, <3>1
    <3>3. Keeps(p, groups[p], history, p \in lagging, lastProbe, sweep)
      BY <3>2, KnownOf
    <3> QED
      BY <3>2, <3>3 DEF Keeps
  <2>6. /\ lastProbe # None => lastProbe' # None
        /\ lastProbe' # None => Moment(history, epoch, lastProbe')
        /\ UNCHANGED <<storeVars, opening>> /\ sweepQueued' \in BOOLEAN
    BY <1>1 DEF Inv, Story, Types
  <2> QED
    BY <1>5, <1>7, <1>11, <2>1, <2>2, <2>3, <2>4, <2>5, <2>6, SweepOver
<1>13. ASSUME sub' = subs, UNCHANGED <<got, missed, retryTimer>>,
              \/ ~SweepAwaits(q) /\ sweep' = IF Empty(q, subs) THEN Without(q) ELSE sweep
              \/ SweepAwaits(q) /\ Visited(q, {})
       PROVE  Inv'
  <2>1. /\ history' = history /\ epoch' = epoch /\ opening' = opening /\ lastProbe' = lastProbe /\ got' = got
        /\ missed' = missed /\ UNCHANGED <<hintVars, storeVars>>
    BY <1>1, <1>13 DEF storeVars, hintVars
  <2>2. DeliveryTrue' /\ MapsFit'
    BY <2>1 DEF Inv, DeliveryTrue, MapsFit
  <2>3. \A s \in Subscribers : /\ QueryOf[s] # q => sub'[s] = sub[s] /\ got'[s] = got[s]
                               /\ \/ sub'[s].pc = sub[s].pc
                                  \/ sub[s].pc \in Attached /\ sub'[s].pc \in Attached \cup {"closed"}
    BY <1>4, <1>6, <1>13, <2>1
  <2>4. CASE Empty(q, subs)
    <3>1. groups' = [groups EXCEPT ![q] = None] /\ groups'[q] = None
      BY <1>3, <1>7, <2>4
    <3>2. sweep' = Without(q)
      <4>1. CASE ~SweepAwaits(q)
        BY <1>13, <2>4, <4>1
      <4>2. CASE SweepAwaits(q)
        <5>1. sweep.todo \ {q} = sweep.todo /\ sweep.pending \cup {} = sweep.pending /\ sweep.at = q
          BY <1>5, <1>9, <4>2 DEF Sweeps
        <5>2. sweep' = [sweep EXCEPT !.pc = "next", !.at = None, !.before = None, !.todo = @ \ {q},
                                     !.pending = @ \cup {}]
          BY <1>13, <4>2 DEF Visited
        <5> QED
          BY <1>5, <5>1, <5>2 DEF Without, Sweeps
      <4> QED
        BY <4>1, <4>2
    <3>3. /\ sweep' \in Sweeps /\ sweep'.pending = sweep.pending
      BY <3>2, WithoutIs
    <3>4. /\ Story' /\ Course' /\ Patched'
          /\ \A p \in Queries : \A h, late : p # q /\ Fine(p, h, history, epoch, late, lastProbe, sweep)
                => Fine(p, h, history, epoch, late, lastProbe, sweep')
          /\ \A p \in sweep.pending : \A t, d, h, have : QueryOf[t] # q /\ Due(p, QueryOf[t], d, h, have, sweep)
                => Due(p, QueryOf[t], d, h, have, sweep') \/ QueryOf[t] = None
      BY <2>1, <3>1, <3>2, WithoutKeeps
    <3>5. Types'
      BY <1>4, <1>5, <1>7, <1>11, <1>13, <2>1, <3>3 DEF Inv, Types, hintVars
    <3>6. Cast'
      <4>1. \A s \in Subscribers : sub'[s].pc \in Attached => groups'[QueryOf[s]] # None
        <5> SUFFICES ASSUME NEW s \in Subscribers, sub'[s].pc \in Attached PROVE groups'[QueryOf[s]] # None
          OBVIOUS
        <5>1. QueryOf[s] # q
          BY <1>13, <2>4 DEF Empty, In
        <5> QED
          BY <1>7, <2>3, <5>1, LiveQueriesAssumption DEF Inv, Cast
      <4>2. \A p \in Queries : groups'[p] # None => groups[p] # None /\ In(sub', p) # {}
        BY <1>6, <1>7, <1>13, <3>1 DEF Inv, Cast
      <4> QED
        BY <1>11, <2>1, <2>3, <4>1, <4>2, CastKeeps
    <3>7. Known'
      <4> SUFFICES ASSUME NEW p \in Queries, Asked(p)', groups'[p] # None
                   PROVE  Fine(p, groups'[p], history', epoch', p \in lagging', lastProbe', sweep')
        BY DEF Known
      <4>1. p # q /\ groups'[p] = groups[p] /\ (p \in lagging' <=> p \in lagging)
        BY <1>1, <1>7, <2>4, <3>1
      <4>2. Asked(p)
        BY <2>3, <4>1 DEF Asked
      <4>3. Fine(p, groups[p], history, epoch, p \in lagging, lastProbe, sweep)
        BY <4>1, <4>2, KnownOf
      <4> QED
        BY <2>1, <3>4, <4>1, <4>3
    <3>8. Delivers'
      <4> SUFFICES ASSUME NEW s \in Subscribers \ Observers
                   PROVE  /\ Follows(sub'[s], groups'[QueryOf[s]], got'[s])
                          /\ Awaits(s, QueryOf[s], sub'[s], groups'[QueryOf[s]], got'[s], sweep')
        BY DEF Delivers
      <4>1. /\ Follows(sub[s], groups[QueryOf[s]], got[s])
            /\ Awaits(s, QueryOf[s], sub[s], groups[QueryOf[s]], got[s], sweep)
            /\ QueryOf[s] \in Queries /\ QueryOf[s] # None
        BY LiveQueriesAssumption, SweepFields DEF Inv, Delivers
      <4>2. CASE QueryOf[s] = q
        <5>1. sub'[s].pc \notin Attached
          BY <1>13, <2>4, <4>2 DEF Empty, In
        <5>2. CASE sub'[s].pc = "closed"
          BY <5>2 DEF Follows, Awaits, Attached
        <5>3. CASE sub'[s].pc # "closed"
          <6>1. sub'[s] = sub[s]
            BY <1>4, <1>5, <1>13, <5>3
          <6> QED
            BY <1>8, <2>1, <3>3, <4>1, <4>2, <5>1, <5>3, <6>1 DEF Follows, Awaits
        <5> QED
          BY <5>2, <5>3
      <4>3. CASE QueryOf[s] # q
        <5>1. sub'[s] = sub[s] /\ got'[s] = got[s] /\ groups'[QueryOf[s]] = groups[QueryOf[s]]
          BY <1>7, <2>3, <4>1, <4>3
        <5>2. Awaits(s, QueryOf[s], sub[s], groups[QueryOf[s]], got[s], sweep')
          BY <3>3, <3>4, <4>1, <4>3 DEF Awaits
        <5> QED
          BY <4>1, <5>1, <5>2
      <4> QED
        BY <4>2, <4>3
    <3> QED
      BY <2>2, <3>4, <3>5, <3>6, <3>7, <3>8 DEF Inv
  <2>5. CASE ~Empty(q, subs)
    <3>1. groups' = [groups EXCEPT ![q] = done] /\ In(sub', q) # {}
      BY <1>3, <1>13, <2>5 DEF Empty
    <3>2. /\ sweep' \in Sweeps
          /\ \/ ~SweepAwaits(q) /\ sweep' = sweep /\ lagging' = lagging
             \/ /\ SweepAwaits(q) /\ sweep'.pc = "next" /\ sweep'.at = None
                /\ sweep'.last = sweep.last /\ sweep'.current = sweep.current /\ sweep'.todo = sweep.todo \ {q}
                /\ sweep'.pending = sweep.pending /\ lagging' = lagging \cup {q}
      <4>1. CASE ~SweepAwaits(q)
        BY <1>1, <1>5, <1>13, <2>5, <4>1
      <4>2. CASE SweepAwaits(q)
        <5>1. /\ sweep' \in Sweeps /\ sweep'.pc = "next" /\ sweep'.at = None
              /\ sweep'.last = sweep.last /\ sweep'.current = sweep.current
              /\ sweep'.todo = sweep.todo \ {q} /\ sweep'.pending = sweep.pending \cup {}
          BY <1>13, <4>2, VisitedIs
        <5> QED
          BY <1>1, <2>5, <4>2, <5>1
      <4> QED
        BY <4>1, <4>2
    <3>3. Goes(q)
      BY <1>9, <3>2 DEF Goes
    <3>4. Patches(q, done, sweep')
      BY <1>1, <1>2 DEF Patches, Inv, Patched
    <3>5. Asked(q) => Fine(q, done, history, epoch, q \in lagging', lastProbe, sweep')
      <4> SUFFICES ASSUME Asked(q) PROVE Fine(q, done, history, epoch, q \in lagging', lastProbe, sweep')
        OBVIOUS
      <4>1. Knows(q, done, history, epoch)
        BY <1>2, <1>10 DEF Knows
      <4>2. Executes(q, done, history, epoch, sweep')
        BY <1>2, <3>2 DEF Executes, SweepAwaits
      <4>3. Keeps(q, done, history, q \in lagging', lastProbe, sweep')
        BY <1>2, <1>10, <3>2 DEF Keeps
      <4> QED
        BY <4>1, <4>2, <4>3 DEF Fine
    <3>6. ASSUME NEW s \in Subscribers \ Observers, QueryOf[s] = q
          PROVE  Follows(sub'[s], done, got'[s]) /\ Awaits(s, q, sub'[s], done, got'[s], sweep')
      <4>1. CASE sub'[s].pc = "closed"
        BY <4>1 DEF Follows, Awaits, Attached
      <4>2. CASE sub'[s].pc # "closed"
        <5>1. sub'[s] = sub[s] /\ sub[s].pc # "executing" /\ got'[s] = got[s]
          BY <1>4, <1>5, <1>13, <2>1, <3>6, <4>2
        <5>2. Follows(sub[s], g, got[s])
          BY <3>6 DEF Inv, Delivers
        <5>3. Follows(sub[s], done, got[s])
          BY <1>2, <5>1, <5>2 DEF Follows
        <5>4. \A p \in sweep'.pending : p.to # s
          BY <1>8, <3>2, <3>6, <4>2, <5>1
        <5> QED
          BY <5>1, <5>3, <5>4 DEF Awaits
      <4> QED
        BY <4>1, <4>2
    <3>7. lagging' \in {lagging, lagging \cup {q}, lagging \ {q}}
      BY <3>2
    <3>8. /\ Story' /\ Cast' /\ Course' /\ Patched' /\ Known' /\ Delivers'
          /\ sweep' \in Sweeps /\ groups' \in [Queries -> Groups \cup {None}] /\ lagging' \subseteq Queries
      BY <1>1, <1>2, <2>1, <2>3, <3>1, <3>3, <3>4, <3>5, <3>6, <3>7, GoesKeeps
    <3>9. Types'
      BY <1>4, <1>5, <1>13, <2>1, <3>8 DEF Inv, Types, hintVars
    <3> QED
      BY <2>2, <3>8, <3>9 DEF Inv
  <2> QED
    BY <2>4, <2>5
<1>14. \/ /\ \/ ~SweepAwaits(q) /\ sweep' = IF Empty(q, subs) THEN Without(q) ELSE sweep
             \/ SweepAwaits(q) /\ Visited(q, {})
          /\ sub' = subs /\ UNCHANGED <<got, missed, retryTimer>>
       \/ SweepAwaits(q) /\ Abort(subs, gs, TRUE)
  BY DEF ExecutionFails, subs, gs
<1> QED
  BY <1>12, <1>13, <1>14

(***************************************************************************)
(* The theorems.                                                           *)
(***************************************************************************)
LEMMA StepKeeps ==
  ASSUME Inv, [Next]_vars
  PROVE  Inv'
<1>1. CASE HostNext
  <2>1. CASE Hint \/ RetryFires
    <3>1. /\ UNCHANGED <<storeVars, groups, opening, lagging, lastProbe, sweep, sub, got, missed, faults>>
          /\ sweepQueued' \in BOOLEAN /\ retryTimer' \in BOOLEAN
      BY <2>1 DEF Hint, RetryFires, Inv, Types
    <3> QED
      BY <3>1, HintsMove
  <2> QED
    BY <1>1, <2>1, CommitKeeps, AlterKeeps DEF HostNext
<1>2. CASE RegistrationNext
  BY <1>2, SubscribeKeeps, SettleKeeps, UnsubscribeKeeps, OpenGroupKeeps, OpenFailsKeeps, CloseKeeps
     DEF RegistrationNext
<1>3. CASE SweepNext
  BY <1>3, StartSweepKeeps, PlanKeeps, SweepFailsKeeps, RefreshDependenciesKeeps, EndSweepKeeps, VisitKeeps
     DEF SweepNext
<1>4. CASE ExecutionNext
  BY <1>4, ExecutionLandsKeeps, PatchLandsKeeps, PatchDeclinedKeeps, MemoEndsKeeps, ExecutionFailsKeeps
     DEF ExecutionNext
<1>5. CASE UNCHANGED vars
  <2>1. /\ UNCHANGED <<storeVars, groups, opening, lagging, lastProbe, sweep, sub, got, missed, faults>>
        /\ sweepQueued' \in BOOLEAN /\ retryTimer' \in BOOLEAN
    BY <1>5 DEF vars, hintVars, Inv, Types
  <2> QED
    BY <2>1, HintsMove
<1> QED
  BY <1>1, <1>2, <1>3, <1>4, <1>5 DEF Next

(* The invariant holds, whatever the order of registrations, sweeps, executions and failures, as long  *)
(* as a statement is not both subscribed to and observed.                                              *)
THEOREM InvHolds ==
  OneKind => (Spec => []Inv)
<1>1. OneKind /\ Init => Inv
  BY Begins
<1>2. Inv /\ [Next]_vars => Inv'
  BY StepKeeps
<1> QED
  BY <1>1, <1>2, PTL DEF Spec

(* LiveQuerySet: whatever a subscriber is handed reflects the probe it comes with, or a later moment,   *)
(* unless its group was settled on an execution that was primed before (adrift).                       *)
THEOREM DeliveriesTrue ==
  OneKind => (Spec => []DeliveryTrue)
<1>1. Inv => DeliveryTrue
  BY DEF Inv
<1> QED
  BY <1>1, InvHolds, PTL

(* #deliverResult: a row map is handed only to a subscriber that has the result it starts from.         *)
THEOREM MapsAlwaysFit ==
  OneKind => (Spec => []MapsFit)
<1>1. Inv => MapsFit
  BY DEF Inv
<1> QED
  BY <1>1, InvHolds, PTL
================================================================================
