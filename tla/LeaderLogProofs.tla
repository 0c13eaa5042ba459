---------------------------- MODULE LeaderLogProofs ----------------------------
(***************************************************************************)
(* Proofs about LeaderLog for both durabilities and any number of          *)
(* operations, checkpoints, refusals, dead tabs and power losses: what     *)
(* anybody was promised survives, what is served is a history that         *)
(* happened, an idle leader that reloads finds what it had in memory, and  *)
(* what anybody is owed is refused for two reasons only.                   *)
(***************************************************************************)
EXTENDS LeaderLog, SequenceTheorems, WellFoundedInduction, TLAPS

Cells == {c \in [k : {"frame", "piece", "zero", "short"}, seq : Nat, op : Nat] : c.k = "frame" \/ c.seq = 0}
SlotContents == [state : {"empty", "torn", "valid"}, gen : Nat, core : Seq(Nat)]
AckContents == [valid : BOOLEAN, seq : Nat, end : Nat]
CheckpointStages == {"none", "slot", "torn", "written", "mirrored", "resetting", "keeping", "reset", "emptied"}

(* One sequence of operations begins another, and neither contradicts the   *)
(* other.                                                                   *)
Begins(a, b) == Len(a) <= Len(b) /\ \A i \in 1 .. Len(a) : a[i] = b[i]
Agree(a, b) == \A i \in 1 .. Len(a) : i <= Len(b) => a[i] = b[i]

(* A history: each operation was applied to the ones before it.  b is what  *)
(* each operation was applied to.                                           *)
Hist(b, c) == c \in Seq(1 .. Len(b)) /\ \A i \in 1 .. Len(c) : b[c[i]] = SubSeq(c, 1, i - 1)
Place(b, o) == Len(b[o]) + 1
Line(b, o) == Append(b[o], o)

Frames(w) == {i \in 1 .. Len(w) : w[i].k = "frame"}
Lines(b, w) == {Line(b, w[i].op) : i \in Frames(w)}
Cores(s) == {s[i].core : i \in {j \in 0 .. 1 : s[j].state = "valid"}}

Types ==
    /\ durability \in Durabilities /\ phase \in {"open", "down", "refused"}
    /\ wal \in Seq(Cells) /\ walFlushed \in Seq(Cells)
    /\ {slots, slotsFlushed} \subseteq [0 .. 1 -> SlotContents]
    /\ {acks, acksFlushed} \subseteq [0 .. 1 -> AckContents]
    /\ dirty \cup lost \cup promised \cup safe \subseteq 1 .. made
    /\ core \in Seq(1 .. made) /\ poisoned \in BOOLEAN /\ soft \in BOOLEAN
    /\ end \in 0 .. Len(wal) + 1 /\ newest \in 0 .. 1 /\ generation \in Nat /\ latest \in AckContents
    /\ op \in [stage : {"none", "staged", "written", "flushed", "acked"}, id : Nat, start : Nat]
    /\ cp \in [stage : CheckpointStages, mirror : BOOLEAN, slot : 0 .. 1, closing : BOOLEAN, gen : Nat,
               core : Seq(Nat), end : Nat]
    /\ retry = NoRetry /\ made \in Nat /\ trouble \in Nat /\ based \in Seq(Seq(Nat)) /\ Len(based) = made

Past == \A o \in 1 .. made : based[o] \in Seq(1 .. o - 1) /\ Hist(based, based[o])

(* The frames of a log, in their order, lie on one line. *)
Logged(b, w) ==
    \A i \in Frames(w) :
        /\ w[i].op \in 1 .. Len(b) /\ w[i].seq = Place(b, w[i].op)
        /\ \A j \in Frames(w) : i < j => Begins(Line(b, w[i].op), b[w[j].op])

Present == Cores(slots) \cup Lines(based, wal)
Flushed == Cores(slotsFlushed) \cup Lines(based, walFlushed)
Contents == Cores(slots) \cup Cores(slotsFlushed)

(* Nothing on the disk contradicts a slot, as it is or as it was flushed.   *)
OneLine ==
    /\ Logged(based, wal) /\ Logged(based, walFlushed)
    /\ \A c \in Contents : Hist(based, c) /\ \A h \in Present \cup Flushed : Agree(c, h)

(* Nor what was promised and what a power loss may not take. *)
Firm == IF Strict THEN promised ELSE safe

Sworn ==
    /\ \A o \in promised : \A h \in Present : Agree(Line(based, o), h)
    /\ \A o \in Firm : \A h \in Present \cup Flushed : Agree(Line(based, o), h)

(* The slots that are not about to be written. *)
Standing == {i \in (IF phase = "open" THEN {newest} ELSE 0 .. 1) : slots[i].state = "valid"}
Reaches(n) == \E i \in Standing : n <= Len(slots[i].core)

(* What was flushed is surpassed by what is there. *)
Surpassed ==
    /\ \A c \in Cores(slotsFlushed) : Reaches(Len(c))
    /\ Strict => \A h \in Lines(based, walFlushed) : h \in Lines(based, wal) \/ Reaches(Len(h))

(* A frame that recovery comes to. *)
Readable(p) ==
    /\ p \in Frames(wal)
    /\ \A i \in 1 .. p : wal[i].k \in Whole /\ (wal[i].k = "frame" => wal[i].op \notin lost)

(* n operations are found again while the device keeps its power ... *)
OnDisk(n) == n = 0 \/ Reaches(n) \/ \E p \in Frames(wal) : Readable(p) /\ n <= wal[p].seq

(* ... or recovery refuses to return fewer ... *)
Acked(n) ==
    /\ \E i \in 0 .. 1 : (acks[i].valid => n <= acks[i].seq) /\ (acksFlushed[i].valid => n <= acksFlushed[i].seq)
    /\ phase = "open" => n <= latest.seq

(* ... and one of the two whatever a power loss does. *)
Backed(n) ==
    \/ n = 0 \/ Acked(n)
    \/ \E p \in Frames(wal) :
          /\ Readable(p) /\ n <= wal[p].seq /\ p <= Len(walFlushed)
          /\ \A i \in 1 .. p : wal[i] = walFlushed[i] /\ (wal[i].k = "frame" => wal[i].op \notin dirty)

Durable ==
    IF Strict THEN \A o \in promised : Acked(Place(based, o))
    ELSE /\ \A c \in Contents : Backed(Len(c))
         /\ cp.stage # "none" => Backed(Len(cp.core))
         /\ \A o \in safe : Backed(Place(based, o))
         /\ phase = "open" => OnDisk(Len(core))
         /\ phase = "down" => \A o \in promised : OnDisk(Place(based, o)) \/ Acked(Place(based, o))

(* A leader that serves has a log without holes. *)
Sound == \A i \in 1 .. Len(wal) : wal[i].k \in Whole /\ (wal[i].k = "frame" => wal[i].op \notin lost)

(* The leader's memory continues all of it. *)
Memory ==
    phase = "open" =>
        /\ Hist(based, core) /\ latest.seq <= Len(core)
        /\ \A h \in Present \cup Contents : Begins(h, core)
        /\ \A o \in promised \cup Firm : Begins(Line(based, o), core)
        /\ ~Strict /\ cp.stage # "none" => \A h \in Lines(based, walFlushed) : Begins(h, core)
        /\ ~poisoned => Len(wal) = (IF op.stage = "written" THEN end + 1 ELSE end) /\ Sound

(* The acknowledgement of the whole core is written. *)
Stamped == acks[Len(core) % 2].valid /\ acks[Len(core) % 2].seq = Len(core) /\ latest.seq = Len(core)

Operation ==
    /\ phase # "open" => op = NoOp /\ cp = NoCheckpoint
    /\ ~Busy => op = NoOp
    /\ Busy => ~poisoned /\ op.id \in 1 .. made /\ op.start <= end
    /\ op.stage = "staged" =>
          /\ based[op.id] = core /\ end = op.start + 1 /\ wal[end].k = "piece" /\ op.id \notin lost
          /\ \A i \in Frames(walFlushed) : walFlushed[i].op # op.id
    /\ op.stage \in {"written", "flushed", "acked"} => Strict /\ core = Line(based, op.id)
    /\ op.stage = "written" =>
          /\ wal[end + 1] = Frame(Len(core), op.id) /\ end <= op.start + 1
          /\ \A i \in Frames(walFlushed) : walFlushed[i].op # op.id
    /\ op.stage = "acked" => Stamped

Checkpoint ==
    cp.stage # "none" =>
        /\ Begins(cp.core, core) /\ \A c \in Contents : Len(c) <= Len(cp.core)
        /\ IF cp.mirror THEN newest = cp.slot /\ slots[newest].state = "valid" /\ slots[newest].core = cp.core
           ELSE cp.slot = 1 - newest /\ cp.stage \in {"slot", "torn", "written"}
        /\ cp.stage = "written" => slots[SlotNow] = [state |-> "valid", gen |-> cp.gen, core |-> cp.core]
        /\ cp.stage \in {"resetting", "reset", "emptied"} => core = cp.core /\ ~poisoned /\ ~Busy
        /\ cp.stage = "resetting" => Stamped
        /\ cp.stage \in {"reset", "emptied"} => Acked(Len(core))

Inv == Types /\ Past /\ Operation
       /\ (phase # "refused" => OneLine /\ Sworn /\ Surpassed /\ Durable /\ Memory /\ Checkpoint)

(* What holds until recovery refuses the files. *)
Good == Types /\ Past /\ Operation /\ OneLine /\ Sworn /\ Surpassed /\ Durable /\ Memory /\ Checkpoint
-------------------------------------------------------------------------------
(***************************************************************************)
(* Sequences of operations.                                                *)
(***************************************************************************)
LEMMA BeginsRefl ==
  ASSUME NEW a \in Seq(Nat)
  PROVE  Begins(a, a)
  BY DEF Begins

LEMMA BeginsTrans ==
  ASSUME NEW a \in Seq(Nat), NEW b \in Seq(Nat), NEW c \in Seq(Nat), Begins(a, b), Begins(b, c)
  PROVE  Begins(a, c)
  BY DEF Begins

LEMMA BeginsAgree ==
  ASSUME NEW a \in Seq(Nat), NEW b \in Seq(Nat), NEW c \in Seq(Nat), Begins(a, c), Begins(b, c)
  PROVE  Agree(a, b)
  BY DEF Begins, Agree

LEMMA AgreeSym ==
  ASSUME NEW a \in Seq(Nat), NEW b \in Seq(Nat), Agree(a, b)
  PROVE  Agree(b, a)
  BY DEF Agree

LEMMA AgreeBegins ==
  ASSUME NEW a \in Seq(Nat), NEW b \in Seq(Nat), Agree(a, b), Len(a) <= Len(b)
  PROVE  Begins(a, b)
  BY DEF Begins, Agree

(* What agrees with a history agrees with its beginnings. *)
LEMMA AgreeUnder ==
  ASSUME NEW a \in Seq(Nat), NEW b \in Seq(Nat), NEW c \in Seq(Nat), Begins(a, b), Agree(b, c)
  PROVE  Agree(a, c) /\ Agree(c, a)
  BY DEF Begins, Agree

LEMMA BeginsAppend ==
  ASSUME NEW a \in Seq(Nat), NEW b \in Seq(Nat), NEW o \in Nat, Begins(a, b)
  PROVE  Begins(a, Append(b, o))
  BY DEF Begins

LEMMA SeqIn ==
  ASSUME NEW S, NEW T, NEW a \in Seq(S), \A i \in 1 .. Len(a) : a[i] \in T
  PROVE  a \in Seq(T)
<1>1. Len(a) \in Nat /\ a \in [1 .. Len(a) -> S]
  BY LenProperties
<1>2. a \in [1 .. Len(a) -> T]
  BY <1>1
<1> QED
  BY <1>1, <1>2, SeqDef, ZenonT(60)

(* The beginning of a history is one. *)
LEMMA HistBegins ==
  ASSUME NEW b \in Seq(Seq(Nat)), NEW a \in Seq(Nat), NEW c \in Seq(Nat), Hist(b, c), Begins(a, c)
  PROVE  Hist(b, a)
<1>1. \A i \in 1 .. Len(a) : a[i] = c[i] /\ c[i] \in 1 .. Len(b) /\ i \in 1 .. Len(c)
  <2> TAKE i \in 1 .. Len(a)
  <2>1. i \in 1 .. Len(c) /\ a[i] = c[i]
    BY DEF Begins
  <2>2. c[i] \in 1 .. Len(b)
    BY <2>1, ElementOfSeq DEF Hist
  <2> QED
    BY <2>1, <2>2
<1>2. a \in Seq(1 .. Len(b))
  BY <1>1, SeqIn
<1>3. ASSUME NEW i \in 1 .. Len(a)
      PROVE  b[a[i]] = SubSeq(a, 1, i - 1)
  <2>1. b[a[i]] = SubSeq(c, 1, i - 1)
    BY <1>1 DEF Hist
  <2>2. i - 1 \in Nat /\ i - 1 <= Len(a) /\ i - 1 <= Len(c)
    BY <1>1
  <2>3. SubSeq(c, 1, i - 1) = SubSeq(a, 1, i - 1)
    BY <2>2, <1>1
  <2> QED
    BY <2>1, <2>3
<1> QED
  BY <1>2, <1>3 DEF Hist

(***************************************************************************)
(* What operations were applied to.                                        *)
(***************************************************************************)
LEMMA LineIs ==
  ASSUME Types, Past, NEW o \in 1 .. made
  PROVE  /\ based[o] \in Seq(Nat) /\ Line(based, o) \in Seq(Nat) /\ Hist(based, Line(based, o))
         /\ Len(Line(based, o)) = Place(based, o) /\ Place(based, o) \in Nat \ {0}
         /\ Line(based, o)[Place(based, o)] = o /\ Begins(based[o], Line(based, o))
<1>1. based[o] \in Seq(1 .. o - 1) /\ Hist(based, based[o]) /\ based \in Seq(Seq(Nat)) /\ Len(based) = made /\ made \in Nat
  BY DEF Types, Past
<1> DEFINE c == based[o]
           l == Append(c, o)
<1>2. c \in Seq(Nat) /\ c \in Seq(1 .. made) /\ l \in Seq(1 .. made) /\ l \in Seq(Nat) /\ Len(l) = Len(c) + 1
  BY <1>1
<1>3. \A i \in 1 .. Len(c) : l[i] = c[i]
  BY <1>2
<1>4. l[Len(c) + 1] = o
  BY <1>2
<1>5. ASSUME NEW i \in 1 .. Len(l)
      PROVE  based[l[i]] = SubSeq(l, 1, i - 1)
  <2>1. i - 1 \in Nat /\ i - 1 <= Len(c) /\ i - 1 <= Len(l)
    BY <1>2
  <2>2. SubSeq(l, 1, i - 1) = SubSeq(c, 1, i - 1)
    BY <2>1, <1>2, <1>3
  <2>3. CASE i \in 1 .. Len(c)
    BY <2>3, <2>2, <1>3, <1>1 DEF Hist
  <2>4. CASE i = Len(c) + 1
    <3>1. SubSeq(c, 1, i - 1) = c
      BY <2>4, <1>2
    <3> QED
      BY <2>2, <3>1, <1>4, <2>4
  <2> QED
    BY <2>3, <2>4, <1>2
<1>6. Hist(based, l)
  BY <1>5, <1>2, <1>1 DEF Hist
<1>7. Begins(c, l)
  BY <1>2, <1>3 DEF Begins
<1> QED
  BY <1>2, <1>4, <1>6, <1>7 DEF Line, Place

LEMMA HistType ==
  ASSUME Types, NEW c, Hist(based, c)
  PROVE  c \in Seq(Nat) /\ c \in Seq(1 .. made)
  BY DEF Types, Hist

(* An operation of a history: it began with what that was applied to. *)
LEMMA Within ==
  ASSUME Types, Past, NEW c, Hist(based, c), NEW i \in 1 .. Len(c)
  PROVE  c[i] \in 1 .. made /\ Place(based, c[i]) = i /\ Begins(Line(based, c[i]), c)
<1>1. c \in Seq(1 .. made) /\ c \in Seq(Nat)
  BY HistType
<1>2. c[i] \in 1 .. made /\ based[c[i]] = SubSeq(c, 1, i - 1)
  <2>1. c[i] \in 1 .. made
    BY <1>1, ElementOfSeq
  <2> QED
    BY <2>1 DEF Hist
<1>3. Len(SubSeq(c, 1, i - 1)) = i - 1 /\ \A j \in 1 .. i - 1 : SubSeq(c, 1, i - 1)[j] = c[j]
  BY <1>1
<1>4. Place(based, c[i]) = i
  BY <1>2, <1>3, <1>1 DEF Place
<1>5. Line(based, c[i]) = Append(SubSeq(c, 1, i - 1), c[i])
  BY <1>2 DEF Line
<1>6. SubSeq(c, 1, i - 1) \in Seq(Nat) /\ c[i] \in Nat
  BY <1>1, <1>2
<1>7. Len(Line(based, c[i])) = i /\ \A j \in 1 .. i : Line(based, c[i])[j] = c[j]
  BY <1>5, <1>6, <1>3, <1>1
<1> QED
  BY <1>2, <1>4, <1>7, <1>1 DEF Begins

(* A history has an operation when it begins with its line. *)
LEMMA Has ==
  ASSUME Types, Past, NEW o \in 1 .. made, NEW c \in Seq(Nat), Begins(Line(based, o), c)
  PROVE  o \in ToSet(c) /\ Place(based, o) \in 1 .. Len(c) /\ c[Place(based, o)] = o
<1>1. Len(Line(based, o)) = Place(based, o) /\ Line(based, o)[Place(based, o)] = o /\ Place(based, o) \in Nat \ {0}
  BY LineIs
<1> QED
  BY <1>1 DEF Begins, ToSet

(***************************************************************************)
(* Later operations change nothing about earlier ones.                     *)
(***************************************************************************)
Extends(b) == b \in Seq(Seq(Nat)) /\ made <= Len(b) /\ \A o \in 1 .. made : b[o] = based[o]

LEMMA LineStays ==
  ASSUME NEW b, Extends(b), NEW o \in 1 .. made
  PROVE  Line(b, o) = Line(based, o) /\ Place(b, o) = Place(based, o)
  BY DEF Extends, Line, Place

LEMMA HistStays ==
  ASSUME Types, NEW b, Extends(b), NEW c, Hist(based, c)
  PROVE  Hist(b, c)
<1>1. c \in Seq(1 .. made) /\ c \in Seq(Nat) /\ made \in Nat /\ Len(based) = made /\ Len(b) \in Nat /\ made <= Len(b)
  BY HistType DEF Types, Extends
<1>2. \A i \in 1 .. Len(c) : c[i] \in 1 .. made
  BY <1>1, ElementOfSeq
<1>3. c \in Seq(1 .. Len(b))
  <2>1. \A i \in 1 .. Len(c) : c[i] \in 1 .. Len(b)
    BY <1>1, <1>2
  <2> QED
    BY <2>1, <1>1, SeqIn
<1> QED
  BY <1>2, <1>3 DEF Extends, Hist

LEMMA LoggedStays ==
  ASSUME Types, NEW b, Extends(b), NEW w, Logged(based, w)
  PROVE  Logged(b, w) /\ Lines(b, w) = Lines(based, w)
<1>1. Len(based) = made /\ made <= Len(b) /\ Len(b) \in Nat /\ made \in Nat
  BY DEF Types, Extends
<1>2. \A i \in Frames(w) : w[i].op \in 1 .. made
  BY <1>1 DEF Logged
<1>3. \A i \in Frames(w) : /\ Line(b, w[i].op) = Line(based, w[i].op) /\ Place(b, w[i].op) = Place(based, w[i].op)
                          /\ b[w[i].op] = based[w[i].op] /\ w[i].op \in 1 .. Len(b)
  <2> TAKE i \in Frames(w)
  <2> DEFINE o == w[i].op
  <2>1. o \in 1 .. made
    BY <1>2
  <2> HIDE DEF o
  <2>2. Line(b, o) = Line(based, o) /\ Place(b, o) = Place(based, o) /\ b[o] = based[o] /\ o \in 1 .. Len(b)
    <3>1. Line(b, o) = Line(based, o) /\ Place(b, o) = Place(based, o)
      BY <2>1, LineStays
    <3>2. b[o] = based[o] /\ o \in 1 .. Len(b)
      BY <2>1, <1>1 DEF Extends
    <3> QED
      BY <3>1, <3>2
  <2> QED
    BY <2>2 DEF o
<1>4. Logged(b, w)
  BY <1>3 DEF Logged
<1>5. Lines(b, w) = Lines(based, w)
  BY <1>3 DEF Lines
<1> QED
  BY <1>4, <1>5

LEMMA AppendExtends ==
  ASSUME Types, NEW c \in Seq(Nat)
  PROVE  Extends(Append(based, c)) /\ Extends(based) /\ Append(based, c)[made + 1] = c
         /\ Len(Append(based, c)) = made + 1
<1>1. based \in Seq(Seq(Nat)) /\ Len(based) = made /\ made \in Nat
  BY DEF Types
<1> QED
  BY <1>1 DEF Extends

(***************************************************************************)
(* Logs.                                                                   *)
(***************************************************************************)
LEMMA Thinner ==
  ASSUME NEW b, NEW w, NEW v, Logged(b, w), \A i \in Frames(v) : i \in Frames(w) /\ v[i] = w[i]
  PROVE  Logged(b, v) /\ Lines(b, v) \subseteq Lines(b, w)
<1>1. Logged(b, v)
  BY DEF Logged
<1>2. Lines(b, v) \subseteq Lines(b, w)
  BY DEF Lines
<1> QED
  BY <1>1, <1>2

LEMMA CellIs ==
  ASSUME NEW s \in Nat, NEW o \in Nat
  PROVE  /\ Frame(s, o) \in Cells /\ Frame(s, o).k = "frame" /\ Frame(s, o).seq = s /\ Frame(s, o).op = o
         /\ Piece(o) \in Cells /\ Piece(o).k = "piece"
         /\ Zero \in Cells /\ Short \in Cells /\ Zero.k = "zero" /\ Short.k = "short"
  BY DEF Frame, Piece, Zero, Short, Cells

LEMMA Longer ==
  ASSUME NEW b, NEW w \in Seq(Cells), Logged(b, w), NEW o \in 1 .. Len(b), o \in Nat, Place(b, o) \in Nat,
         \A h \in Lines(b, w) : Begins(h, b[o])
  PROVE  LET v == Append(w, Frame(Place(b, o), o))
         IN  Logged(b, v) /\ Lines(b, v) = Lines(b, w) \cup {Line(b, o)} /\ Frames(v) = Frames(w) \cup {Len(w) + 1}
<1> DEFINE f == Frame(Place(b, o), o)
           v == Append(w, f)
<1>1. f \in Cells /\ f.k = "frame" /\ f.seq = Place(b, o) /\ f.op = o
  BY CellIs
<1> HIDE DEF f
<1>2. Len(v) = Len(w) + 1 /\ v[Len(w) + 1] = f /\ Len(w) \in Nat /\ \A i \in 1 .. Len(w) : v[i] = w[i]
  BY <1>1
<1> HIDE DEF v
<1>3. Frames(v) = Frames(w) \cup {Len(w) + 1}
  BY <1>1, <1>2 DEF Frames
<1>4. \A i \in Frames(w) : v[i] = w[i] /\ i \in 1 .. Len(w) /\ Line(b, w[i].op) \in Lines(b, w)
  BY <1>2 DEF Frames, Lines
<1>5. ASSUME NEW i \in Frames(v)
      PROVE  /\ v[i].op \in 1 .. Len(b) /\ v[i].seq = Place(b, v[i].op)
             /\ \A j \in Frames(v) : i < j => Begins(Line(b, v[i].op), b[v[j].op])
  <2>1. CASE i = Len(w) + 1
    BY <2>1, <1>1, <1>2, <1>3, <1>4
  <2>2. CASE i \in Frames(w)
    <3>1. v[i] = w[i] /\ w[i].op \in 1 .. Len(b) /\ w[i].seq = Place(b, w[i].op)
      BY <2>2, <1>4 DEF Logged
    <3>2. ASSUME NEW j \in Frames(v), i < j
          PROVE  Begins(Line(b, v[i].op), b[v[j].op])
      <4>1. CASE j \in Frames(w)
        BY <4>1, <2>2, <3>2, <1>4 DEF Logged
      <4>2. CASE j = Len(w) + 1
        BY <4>2, <2>2, <1>1, <1>2, <1>4
      <4> QED
        BY <4>1, <4>2, <1>3
    <3> QED
      BY <3>1, <3>2
  <2> QED
    BY <2>1, <2>2, <1>3
<1>6. Logged(b, v)
  BY <1>5 DEF Logged
<1>7. Lines(b, v) = Lines(b, w) \cup {Line(b, o)}
  BY <1>1, <1>2, <1>3, <1>4, SMTT(40) DEF Lines
<1> QED
  BY <1>3, <1>6, <1>7 DEF v, f

LEMMA PutIs ==
  ASSUME Types, NEW e \in Nat, e <= Len(wal), NEW cell \in Cells
  PROVE  LET v == Put(e, cell)
         IN  /\ v \in Seq(Cells) /\ Len(v) = IF Len(wal) > e THEN Len(wal) ELSE e + 1
             /\ v[e + 1] = cell /\ \A i \in 1 .. Len(wal) : i # e + 1 => v[i] = wal[i]
             /\ Len(wal) = e => v = Append(wal, cell)
<1>1. wal \in Seq(Cells) /\ Len(wal) \in Nat
  BY DEF Types
<1>2. \A i \in 1 .. Len(wal) : wal[i] \in Cells
  BY <1>1, ElementOfSeq
<1> DEFINE n == IF Len(wal) > e THEN Len(wal) ELSE e + 1
           v == [i \in 1 .. n |-> IF i = e + 1 THEN cell ELSE IF i <= Len(wal) THEN wal[i] ELSE Zero]
<1>3. n \in Nat /\ e + 1 \in 1 .. n
  BY <1>1
<1>4. \A i \in 1 .. n : (IF i = e + 1 THEN cell ELSE IF i <= Len(wal) THEN wal[i] ELSE Zero) \in Cells
  BY <1>1, <1>2
<1>5. v \in Seq(Cells) /\ Len(v) = n
  BY <1>3, <1>4
<1>6. v[e + 1] = cell /\ \A i \in 1 .. Len(wal) : i # e + 1 => v[i] = wal[i]
  BY <1>1, <1>3
<1>7. ASSUME Len(wal) = e PROVE v = Append(wal, cell)
  <2>1. Append(wal, cell) \in Seq(Cells) /\ Len(Append(wal, cell)) = n
    BY <1>1, <1>7
  <2>2. \A i \in 1 .. n : v[i] = Append(wal, cell)[i]
    BY <1>1, <1>6, <1>7
  <2> QED
    BY <2>1, <2>2, <1>5, SeqEqual
<1>8. Put(e, cell) = v
  BY DEF Put
<1> QED
  BY <1>5, <1>6, <1>7, <1>8

LEMMA TruncatedIs ==
  ASSUME NEW w \in Seq(Cells), NEW e \in 0 .. Len(w)
  PROVE  LET v == Truncated(w, e)
         IN  v \in Seq(Cells) /\ Len(v) = e /\ \A i \in 1 .. e : v[i] = w[i] /\ i \in 1 .. Len(w)
<1>1. Len(w) \in Nat /\ e \in Nat /\ \A i \in 1 .. e : i <= Len(w) /\ i \in 1 .. Len(w) /\ w[i] \in Cells
  BY ElementOfSeq
<1> DEFINE v == [i \in 1 .. e |-> IF i <= Len(w) THEN w[i] ELSE Zero]
<1>2. v \in Seq(Cells) /\ Len(v) = e
  BY <1>1
<1>3. \A i \in 1 .. e : v[i] = w[i]
  BY <1>1
<1> QED
  BY <1>1, <1>2, <1>3 DEF Truncated
-------------------------------------------------------------------------------
(***************************************************************************)
(* Recovery.                                                               *)
(***************************************************************************)
(* A nonempty set of naturals has a least element. *)
LEMMA Least ==
  ASSUME NEW I \in SUBSET Nat, I # {}
  PROVE  Min(I) \in I /\ \A y \in I : Min(I) <= y
<1>1. PICK x \in I : \A y \in I : <<y, x>> \notin OpToRel(<, Nat)
  BY WFMin, NatLessThanWellFounded, Zenon
<1>2. \A y \in I : ~(y < x)
  BY <1>1, Zenon DEF OpToRel
<1>3. \A y \in I : x =< y
  BY <1>2
<1> QED
  BY <1>3 DEF Min

(* And one that is bounded a greatest. *)
LEMMA Greatest ==
  ASSUME NEW n \in Nat, NEW I \in SUBSET (0 .. n), I # {}
  PROVE  Max(I) \in I /\ \A y \in I : y <= Max(I)
<1> DEFINE J == {n - y : y \in I}
<1>1. J \in SUBSET Nat /\ J # {}
  <2>1. \A y \in 0 .. n : n - y \in Nat
    OBVIOUS
  <2> QED
    BY <2>1
<1>2. PICK z \in J : \A y \in J : z <= y
  <2> HIDE DEF J
  <2> QED
    BY <1>1, Least
<1>3. PICK x \in I : z = n - x
  BY <1>2
<1>4. \A y \in I : y <= x
  <2> TAKE y \in I
  <2>1. n - y \in J /\ y \in 0 .. n /\ x \in 0 .. n
    BY <1>3
  <2>2. n - x <= n - y
    BY <2>1, <1>2, <1>3
  <2> QED
    BY <2>1, <2>2
<1> QED
  BY <1>3, <1>4 DEF Max

LEMMA SlotIs ==
  ASSUME Types, NEW i \in 0 .. 1
  PROVE  /\ slots[i] \in SlotContents /\ slotsFlushed[i] \in SlotContents
         /\ slots[i].core \in Seq(Nat) /\ slotsFlushed[i].core \in Seq(Nat)
         /\ slots[i].gen \in Nat /\ slotsFlushed[i].gen \in Nat
  BY DEF Types, SlotContents

LEMMA SelectedIs ==
  ASSUME Types
  PROVE  /\ Selected \in 0 .. 1
         /\ Valid # {} => Selected \in Valid /\ \A j \in Valid : Precedes(Selected, j)
<1>1. \A i \in 0 .. 1 : slots[i].gen \in Nat /\ Len(slots[i].core) \in Nat
  BY SlotIs
<1>2. ASSUME Valid # {}
      PROVE  \E i \in Valid : \A j \in Valid : Precedes(i, j) /\ (Precedes(j, i) => i <= j)
  <2>1. CASE Valid = {0} \/ Valid = {1}
    BY <2>1, <1>1 DEF Precedes
  <2>2. CASE Valid = {0, 1}
    BY <2>2, <1>1 DEF Precedes
  <2> QED
    BY <2>1, <2>2, <1>2 DEF Valid
<1>3. Valid \subseteq 0 .. 1
  BY DEF Valid
<1>4. CASE Valid = {}
  BY <1>4 DEF Selected
<1>5. CASE Valid # {}
  <2>1. Selected = CHOOSE i \in Valid : \A j \in Valid : Precedes(i, j) /\ (Precedes(j, i) => i <= j)
    BY <1>5 DEF Selected
  <2>2. Selected \in Valid /\ \A j \in Valid : Precedes(Selected, j)
    BY <2>1, <1>2, <1>5, Zenon
  <2> QED
    BY <2>2, <1>3, <1>5
<1> QED
  BY <1>4, <1>5

LEMMA BaseIs ==
  ASSUME Types, OneLine, ~SlotsRefused
  PROVE  /\ Base \in Seq(Nat) /\ Hist(based, Base) /\ Len(Base) \in Nat /\ Selected \in 0 .. 1
         /\ \A c \in Cores(slots) : Begins(c, Base)
         /\ Valid # {} => Base \in Cores(slots) /\ slots[Selected].state = "valid" /\ slots[Selected].core = Base
         /\ Valid = {} => Base = << >>
         /\ \A i \in 1 .. Len(Base) : Base[i] \notin lost
<1>1. Selected \in 0 .. 1 /\ (Valid # {} => Selected \in Valid /\ \A j \in Valid : Precedes(Selected, j))
  BY SelectedIs
<1>2. \A i \in 1 .. Len(Base) : Base[i] \notin lost
  BY DEF SlotsRefused, ToSet
<1>3. CASE Valid = {}
  <2>1. Base = << >> /\ Cores(slots) = {}
    BY <1>3 DEF Base, Valid, Cores
  <2>2. Base \in Seq(Nat) /\ Base \in Seq(1 .. Len(based)) /\ Len(Base) = 0
    BY <2>1
  <2> QED
    BY <1>1, <1>2, <1>3, <2>1, <2>2 DEF Hist
<1>4. CASE Valid # {}
  <2> DEFINE n == Selected
             m == 1 - Selected
  <2>1. Base = slots[n].core /\ slots[n].state = "valid" /\ n \in 0 .. 1 /\ m \in 0 .. 1
    BY <1>1, <1>4 DEF Base, Valid
  <2>2. slots[n].core \in Seq(Nat) /\ slots[n].gen \in Nat /\ Len(slots[n].core) \in Nat
    BY <2>1, SlotIs
  <2>3. Base \in Cores(slots)
    BY <2>1 DEF Cores
  <2>4. Hist(based, Base)
    BY <2>3 DEF OneLine, Contents
  <2>5. ASSUME NEW c \in Cores(slots)
        PROVE  Begins(c, Base)
    <3>1. PICK i \in 0 .. 1 : slots[i].state = "valid" /\ c = slots[i].core
      BY DEF Cores
    <3>2. c \in Seq(Nat) /\ slots[i].gen \in Nat /\ Len(c) \in Nat
      BY <3>1, SlotIs
    <3>3. Agree(c, Base)
      BY <2>3 DEF OneLine, Contents, Present
    <3>4. Len(c) <= Len(Base)
      <4>1. CASE i = n
        BY <4>1, <3>1, <2>1, <2>2
      <4>2. CASE i # n
        <5>1. i = m /\ Valid = {0, 1}
          BY <4>2, <3>1, <2>1 DEF Valid
        <5>2. Precedes(n, m)
          BY <5>1, <1>1, <1>4
        <5>3. slots[n].gen > slots[m].gen \/ slots[n].gen = slots[m].gen
          BY <5>2 DEF Precedes
        <5>4. /\ ~(slots[n].gen > slots[m].gen /\ Len(slots[n].core) < Len(slots[m].core))
              /\ ~(slots[n].gen = slots[m].gen /\ slots[n].core # slots[m].core)
          BY <5>1 DEF SlotsRefused
        <5> QED
          BY <5>1, <5>3, <5>4, <3>1, <3>2, <2>1, <2>2
      <4> QED
        BY <4>1, <4>2
    <3> QED
      BY <3>2, <3>3, <3>4, <2>1, <2>2, AgreeBegins
  <2> QED
    BY <1>2, <1>4, <2>1, <2>2, <2>3, <2>4, <2>5
<1> QED
  BY <1>3, <1>4

LEMMA WholeIs ==
  ASSUME Types
  PROVE  /\ WholeCells \in 0 .. Len(wal) /\ \A i \in 1 .. WholeCells : wal[i].k \in Whole
         /\ \A n \in 0 .. Len(wal) : (\A i \in 1 .. n : wal[i].k \in Whole) => n <= WholeCells
<1> DEFINE W == {n \in 0 .. Len(wal) : \A i \in 1 .. n : wal[i].k \in Whole}
<1>1. Len(wal) \in Nat
  BY DEF Types
<1>2. W \in SUBSET (0 .. Len(wal)) /\ 0 \in W
  BY <1>1
<1>3. WholeCells = Max(W)
  BY DEF WholeCells
<1>4. Max(W) \in W /\ \A y \in W : y <= Max(W)
  <2> HIDE DEF W
  <2> QED
    BY <1>1, <1>2, Greatest
<1> QED
  BY <1>3, <1>4

LEMMA ReplayedIs ==
  ASSUME Types
  PROVE  /\ Replayed \in 0 .. WholeCells /\ FramesTo(Replayed) \cap Unverified = {}
         /\ Unverified = {} => Replayed = WholeCells
         /\ \A p \in 0 .. WholeCells : (\A i \in FramesTo(p) : i \notin Unverified) => p <= Replayed
         /\ FramesTo(Replayed) \subseteq FramesTo(IF Unverified = {} THEN WholeCells ELSE Min(Unverified))
<1>1. WholeCells \in Nat /\ Len(wal) \in Nat
  BY WholeIs DEF Types
<1>2. Unverified \in SUBSET Nat /\ Unverified \subseteq FramesTo(WholeCells)
  BY <1>1 DEF Unverified, FramesTo
<1>3. CASE Unverified = {}
  <2>1. Replayed = WholeCells
    BY <1>3 DEF Replayed
  <2> QED
    BY <2>1, <1>3, <1>1
<1>4. CASE Unverified # {}
  <2> DEFINE m == Min(Unverified)
  <2>1. m \in Unverified /\ \A y \in Unverified : m <= y
    BY <1>2, <1>4, Least
  <2>2. m \in 1 .. WholeCells /\ m \in FramesTo(WholeCells)
    BY <2>1, <1>2, <1>1 DEF FramesTo
  <2>3. Replayed = m - 1
    BY <1>4 DEF Replayed
  <2> HIDE DEF m
  <2>4. FramesTo(Replayed) \cap Unverified = {}
    <3>1. ASSUME NEW i \in FramesTo(m - 1), i \in Unverified
          PROVE  FALSE
      <4>1. i <= m - 1 /\ i \in Nat
        BY <2>2, <1>1 DEF FramesTo
      <4>2. m <= i
        BY <3>1, <2>1 DEF m
      <4> QED
        BY <4>1, <4>2, <2>2, <1>1
    <3> QED
      BY <3>1, <2>3
  <2>5. ASSUME NEW p \in 0 .. WholeCells, \A i \in FramesTo(p) : i \notin Unverified
        PROVE  p <= Replayed
    <3>1. ~(m <= p)
      <4>1. m <= p => m \in FramesTo(p)
        BY <2>2, <1>1 DEF FramesTo
      <4> QED
        BY <4>1, <2>1, <2>5
    <3> QED
      BY <3>1, <2>2, <2>3, <1>1
  <2>6. FramesTo(Replayed) \subseteq FramesTo(m)
    BY <2>2, <2>3, <1>1 DEF FramesTo
  <2> QED
    BY <1>4, <2>2, <2>3, <2>4, <2>5, <2>6, <1>1 DEF m
<1> QED
  BY <1>3, <1>4

LEMMA LastFrameIs ==
  ASSUME Types, NEW n \in 0 .. Len(wal)
  PROVE  /\ LastFrame(n) \in 0 .. n /\ (LastFrame(n) # 0 => LastFrame(n) \in FramesTo(n))
         /\ \A i \in FramesTo(n) : i <= LastFrame(n) /\ i \in 1 .. n
         /\ FramesTo(n) \subseteq Frames(wal)
<1>1. Len(wal) \in Nat /\ n \in Nat
  BY DEF Types
<1> DEFINE F == {0} \cup FramesTo(n)
<1>2. F \in SUBSET (0 .. n) /\ F # {}
  BY <1>1 DEF FramesTo
<1>3. LastFrame(n) = Max(F)
  BY DEF LastFrame
<1>4. Max(F) \in F /\ \A y \in F : y <= Max(F)
  <2> HIDE DEF F
  <2> QED
    BY <1>1, <1>2, Greatest
<1>5. FramesTo(n) \subseteq Frames(wal) /\ FramesTo(n) \subseteq 1 .. n
  BY <1>1 DEF FramesTo, Frames
<1> QED
  BY <1>2, <1>3, <1>4, <1>5

(* The frames of the log, each after the ones before it. *)
LEMMA FrameIs ==
  ASSUME Types, Past, OneLine, NEW i \in Frames(wal)
  PROVE  /\ i \in 1 .. Len(wal) /\ wal[i].op \in 1 .. made /\ wal[i].seq \in Nat \ {0}
         /\ Line(based, wal[i].op) \in Seq(Nat) /\ Line(based, wal[i].op) \in Lines(based, wal)
         /\ Hist(based, Line(based, wal[i].op))
         /\ Len(Line(based, wal[i].op)) = wal[i].seq /\ Line(based, wal[i].op)[wal[i].seq] = wal[i].op
         /\ \A j \in Frames(wal) : i < j => Begins(Line(based, wal[i].op), Line(based, wal[j].op))
                                            /\ wal[i].seq < wal[j].seq
<1>1. Len(based) = made
  BY DEF Types
<1>2. /\ wal[i].op \in 1 .. made /\ wal[i].seq = Place(based, wal[i].op)
      /\ \A j \in Frames(wal) : i < j => /\ Begins(Line(based, wal[i].op), based[wal[j].op])
                                         /\ wal[j].op \in 1 .. made /\ wal[j].seq = Place(based, wal[j].op)
  BY <1>1 DEF OneLine, Logged
<1> DEFINE a == Line(based, wal[i].op)
<1>3. a \in Seq(Nat) /\ Hist(based, a) /\ Len(a) = wal[i].seq /\ wal[i].seq \in Nat \ {0} /\ a[wal[i].seq] = wal[i].op
  BY <1>2, LineIs
<1>4. ASSUME NEW j \in Frames(wal), i < j
      PROVE  Begins(a, Line(based, wal[j].op)) /\ wal[i].seq < wal[j].seq
  <2> DEFINE c == based[wal[j].op]
             d == Line(based, wal[j].op)
  <2>1. c \in Seq(Nat) /\ d \in Seq(Nat) /\ Begins(c, d) /\ Len(c) + 1 = wal[j].seq
    BY <1>2, <1>4, LineIs DEF Place
  <2>2. Begins(a, c)
    BY <1>2, <1>4
  <2> HIDE DEF c, d
  <2>3. Begins(a, d)
    BY <1>3, <2>1, <2>2, BeginsTrans
  <2>4. wal[i].seq <= Len(c)
    BY <1>3, <2>2 DEF Begins
  <2> QED
    BY <1>3, <2>1, <2>3, <2>4 DEF c, d
<1>5. a \in Lines(based, wal) /\ i \in 1 .. Len(wal)
  BY DEF Lines, Frames
<1> QED
  BY <1>2, <1>3, <1>4, <1>5

(* Each frame that is replayed continues the one before it. *)
LEMMA ReadsOn ==
  ASSUME Types, ~FramesRefused, Valid = {} => Base = << >>, NEW i \in FramesTo(Replayed)
  PROVE  /\ LastFrame(i - 1) > 0 => wal[i].seq = wal[LastFrame(i - 1)].seq + 1
         /\ ~(LastFrame(i - 1) > 0) => wal[i].seq = 1 \/ ~(wal[i].seq > Len(Base) + 1)
<1>1. i \in FramesTo(IF Unverified = {} THEN WholeCells ELSE Min(Unverified))
  BY ReplayedIs
<1>2. ~ IF LastFrame(i - 1) > 0 THEN wal[i].seq # wal[LastFrame(i - 1)].seq + 1
        ELSE IF Valid = {} THEN wal[i].seq # 1 ELSE wal[i].seq > Len(Base) + 1
  BY <1>1 DEF FramesRefused
<1> QED
  BY <1>2

(* No operation is missing between the checkpoint and a frame. *)
LEMMA Contiguous ==
  ASSUME Types, Past, OneLine, ~SlotsRefused, ~FramesRefused, NEW i \in FramesTo(Replayed),
         NEW m \in Len(Base) + 1 .. wal[i].seq
  PROVE  \E j \in FramesTo(Replayed) : j <= i /\ wal[j].seq = m
<1> DEFINE F == FramesTo(Replayed)
           Gap(x) == \E k \in Len(Base) + 1 .. wal[x].seq : \A j \in F : j <= x => wal[j].seq # k
           B == {x \in F : Gap(x)}
<1>1. Replayed \in 0 .. Len(wal) /\ Len(wal) \in Nat
  <2>1. Replayed \in 0 .. WholeCells
    BY ReplayedIs
  <2>2. WholeCells \in 0 .. Len(wal) /\ Len(wal) \in Nat
    BY WholeIs DEF Types
  <2> QED
    BY <2>1, <2>2
<1>2. F \subseteq Frames(wal) /\ F \subseteq 1 .. Replayed /\ Len(Base) \in Nat
  BY <1>1, LastFrameIs, BaseIs
<1>3. \A x \in F : wal[x].seq \in Nat
  BY <1>2, FrameIs
<1>4. ASSUME B # {}
      PROVE  FALSE
  <2>1. B \in SUBSET Nat
    BY <1>2
  <2>2. PICK x \in B : \A y \in B : x <= y
    <3> HIDE DEF B
    <3> QED
      BY <2>1, <1>4, Least
  <2>3. x \in F /\ x \in 1 .. Replayed
    BY <2>2, <1>2
  <2>4. PICK k \in Len(Base) + 1 .. wal[x].seq : \A j \in F : j <= x => wal[j].seq # k
    BY <2>2
  <2> DEFINE y == LastFrame(x - 1)
  <2>5. x - 1 \in 0 .. Len(wal)
    BY <2>3, <1>1
  <2>6. y \in 0 .. x - 1 /\ (y # 0 => y \in FramesTo(x - 1))
    BY <2>5, LastFrameIs
  <2>7. y > 0 => y \in F
    BY <2>3, <2>6, <1>1 DEF FramesTo
  <2>8. wal[x].seq # k
    BY <2>3, <2>4, <1>1
  <2>9. Valid = {} => Base = << >>
    BY BaseIs
  <2>10. CASE y > 0
    <3>1. wal[x].seq = wal[y].seq + 1
      BY <2>10, <2>3, <2>9, ReadsOn
    <3>2. y \in F /\ y < x
      BY <2>7, <2>10, <2>6, <2>3, <1>1
    <3>3. k \in Len(Base) + 1 .. wal[y].seq
      BY <3>1, <3>2, <2>4, <2>8, <1>2, <1>3, <2>3, SMTT(40)
    <3>4. \A j \in F : j <= y => wal[j].seq # k
      BY <3>2, <2>4, <1>2, <2>3, <1>1
    <3>5. y \in B
      BY <3>2, <3>3, <3>4
    <3> QED
      BY <3>2, <3>5, <2>2, <2>3, <2>6, <1>1, SMTT(40)
  <2>11. CASE ~(y > 0)
    <3>1. wal[x].seq = 1 \/ ~(wal[x].seq > Len(Base) + 1)
      BY <2>11, <2>3, <2>9, ReadsOn
    <3> QED
      BY <3>1, <2>4, <2>8, <1>2, <1>3, <2>3
  <2> QED
    BY <2>10, <2>11
<1>5. ~Gap(i)
  BY <1>4
<1> QED
  BY <1>5

(* The recovered core is that of a slot or the line of the last frame.  It  *)
(* continues everything that recovery reads, and holds nothing lost.        *)
LEMMA RecoveredIs ==
  ASSUME Types, Past, OneLine, ~SlotsRefused, ~FramesRefused
  PROVE  /\ RecoveredCore \in Seq(Nat) /\ Hist(based, RecoveredCore) /\ RecoveredCore \in Present \cup {<< >>}
         /\ Begins(Base, RecoveredCore)
         /\ \A i \in FramesTo(Replayed) : Begins(Line(based, wal[i].op), RecoveredCore) /\ wal[i].op \notin lost
         /\ \/ RecoveredCore = Base
            \/ LastFrame(Replayed) # 0 /\ Len(RecoveredCore) = wal[LastFrame(Replayed)].seq
<1> DEFINE F == FramesTo(Replayed)
           l == LastFrame(Replayed)
           n == Len(Base)
           fresh == {i \in F : wal[i].seq > n}
           S == {n} \cup {wal[i].seq : i \in fresh}
           R == [k \in 1 .. Max(S) |-> IF k <= n THEN Base[k] ELSE wal[CHOOSE i \in fresh : wal[i].seq = k].op]
<1>1. RecoveredCore = R
  BY DEF RecoveredCore
<1>2. Replayed \in 0 .. Len(wal) /\ Len(wal) \in Nat /\ F \cap Unverified = {} /\ Replayed \in 0 .. WholeCells
  <2>1. Replayed \in 0 .. WholeCells /\ F \cap Unverified = {}
    BY ReplayedIs
  <2>2. WholeCells \in 0 .. Len(wal) /\ Len(wal) \in Nat
    BY WholeIs DEF Types
  <2> QED
    BY <2>1, <2>2
<1>3. F \subseteq Frames(wal) /\ (l # 0 => l \in F) /\ \A i \in F : i <= l /\ i \in 1 .. Replayed
  BY <1>2, LastFrameIs
<1>4. Base \in Seq(Nat) /\ n \in Nat /\ Hist(based, Base) /\ (Base \in Cores(slots) \/ Base = << >>)
      /\ \A i \in 1 .. n : Base[i] \notin lost
  BY BaseIs
<1>5. \A i \in F : /\ wal[i].seq \in Nat \ {0} /\ Line(based, wal[i].op) \in Seq(Nat)
                   /\ Len(Line(based, wal[i].op)) = wal[i].seq /\ Line(based, wal[i].op)[wal[i].seq] = wal[i].op
                   /\ Agree(Base, Line(based, wal[i].op))
  <2> TAKE i \in F
  <2>1. /\ wal[i].seq \in Nat \ {0} /\ Line(based, wal[i].op) \in Seq(Nat)
        /\ Len(Line(based, wal[i].op)) = wal[i].seq /\ Line(based, wal[i].op)[wal[i].seq] = wal[i].op
        /\ Line(based, wal[i].op) \in Lines(based, wal)
    BY <1>3, FrameIs
  <2>2. CASE Base \in Cores(slots)
    BY <2>1, <2>2 DEF OneLine, Contents, Present
  <2>3. CASE Base = << >>
    BY <2>3, <2>1 DEF Agree
  <2> QED
    BY <2>1, <2>2, <2>3, <1>4
<1>6. \A i \in F : wal[i].op \notin lost
  <2> TAKE i \in F
  <2>1. CASE wal[i].seq > n
    <3>1. i \in FramesTo(WholeCells)
      BY <1>2, WholeIs DEF FramesTo
    <3>2. i \notin Unverified
      BY <1>2
    <3> QED
      BY <3>1, <3>2, <2>1 DEF Unverified
  <2>2. CASE ~(wal[i].seq > n)
    <3>1. wal[i].seq \in 1 .. n
      BY <2>2, <1>5, <1>4
    <3>2. Base[wal[i].seq] = wal[i].op
      BY <3>1, <1>5, <1>4 DEF Agree
    <3> QED
      BY <3>1, <3>2, <1>4
  <2> QED
    BY <2>1, <2>2
<1>7. CASE fresh = {}
  <2>1. S = {n}
    BY <1>7
  <2>2. Max(S) = n
    <3>1. S \in SUBSET (0 .. n) /\ S # {}
      BY <2>1, <1>4
    <3>2. Max(S) \in S
      <4> HIDE DEF S
      <4> QED
        BY <3>1, <1>4, Greatest
    <3> QED
      BY <3>2, <2>1
  <2>3. \A k \in 1 .. n : R[k] = Base[k]
    BY <2>2
  <2>4. R = Base
    <3>1. R = [k \in 1 .. n |-> R[k]]
      BY <2>2
    <3>2. Base = [k \in 1 .. Len(Base) |-> Base[k]]
      BY <1>4
    <3> HIDE DEF R
    <3> QED
      BY <3>1, <3>2, <2>3
  <2>5. Begins(Base, R)
    BY <2>4, <1>4, BeginsRefl
  <2>6. \A i \in F : Begins(Line(based, wal[i].op), Base)
    <3> TAKE i \in F
    <3>1. wal[i].seq <= n
      BY <1>7, <1>5, <1>4
    <3> QED
      BY <3>1, <1>4, <1>5, AgreeSym, AgreeBegins
  <2>7. R \in Present \cup {<< >>}
    BY <2>4, <1>4 DEF Present
  <2> QED
    BY <1>1, <2>4, <2>5, <2>6, <2>7, <1>4, <1>6
<1>8. CASE fresh # {}
  <2> DEFINE L == Line(based, wal[l].op)
             s == wal[l].seq
  <2>1. PICK x \in F : wal[x].seq > n
    BY <1>8
  <2>2. l \in F /\ l # 0 /\ l \in Frames(wal)
    BY <2>1, <1>3
  <2>3. \A i \in F : i = l \/ i < l
    BY <1>3, <2>2
  <2>4. \A i \in F : Begins(Line(based, wal[i].op), L) /\ wal[i].seq <= s
    <3> TAKE i \in F
    <3>1. CASE i = l
      BY <3>1, <1>5, BeginsRefl
    <3>2. CASE i < l
      BY <3>2, <2>2, <1>3, <1>5, FrameIs
    <3> QED
      BY <3>1, <3>2, <2>3
  <2>5. s \in Nat /\ s > n /\ L \in Seq(Nat) /\ Len(L) = s /\ Agree(Base, L)
    BY <2>1, <2>2, <2>4, <1>4, <1>5
  <2>6. Max(S) = s
    <3>1. S \in SUBSET (0 .. s) /\ s \in S
      BY <2>2, <2>4, <2>5, <1>4, <1>5
    <3>2. Max(S) \in S /\ \A y \in S : y <= Max(S)
      <4> HIDE DEF S
      <4> QED
        BY <3>1, <2>5, Greatest
    <3>3. Max(S) \in 0 .. s /\ s <= Max(S)
      BY <3>1, <3>2
    <3> QED
      BY <3>3, <2>5
  <2>7. ASSUME NEW k \in 1 .. s
        PROVE  R[k] = L[k]
    <3>1. CASE k <= n
      <4>1. R[k] = Base[k]
        BY <3>1, <2>6, <2>7
      <4> QED
        BY <4>1, <3>1, <2>5, <1>4, <2>7 DEF Agree
    <3>2. CASE ~(k <= n)
      <4>1. k \in Len(Base) + 1 .. wal[l].seq
        BY <3>2, <2>7, <2>5, <1>4
      <4>2. \E j \in F : wal[j].seq = k
        BY <4>1, <2>2, Contiguous
      <4>3. \E j \in fresh : wal[j].seq = k
        BY <4>2, <3>2, <1>4, <1>5
      <4> DEFINE j == CHOOSE i \in fresh : wal[i].seq = k
      <4>4. j \in fresh /\ wal[j].seq = k
        BY <4>3
      <4>5. R[k] = wal[j].op
        BY <3>2, <2>6, <2>7
      <4> HIDE DEF j
      <4>6. j \in F /\ Line(based, wal[j].op)[k] = wal[j].op /\ k \in 1 .. Len(Line(based, wal[j].op))
        BY <4>4, <1>5, <2>7
      <4>7. Begins(Line(based, wal[j].op), L)
        BY <4>6, <2>4
      <4> QED
        BY <4>5, <4>6, <4>7 DEF Begins
    <3> QED
      BY <3>1, <3>2
  <2>8. R = L
    <3>1. DOMAIN R = 1 .. s /\ R = [k \in 1 .. s |-> R[k]]
      BY <2>6
    <3>2. L = [k \in 1 .. s |-> L[k]]
      BY <2>5
    <3> HIDE DEF R, L
    <3> QED
      BY <3>1, <3>2, <2>7
  <2>9. Begins(Base, R)
    BY <2>5, <2>8, <1>4, AgreeBegins
  <2>10. Hist(based, L) /\ L \in Lines(based, wal)
    BY <2>2, FrameIs
  <2>11. \A i \in F : Begins(Line(based, wal[i].op), R)
    BY <2>4, <2>8
  <2> HIDE DEF R, L
  <2>12. R \in Present
    BY <2>8, <2>10 DEF Present
  <2>13. R \in Seq(Nat) /\ Hist(based, R) /\ Len(R) = wal[l].seq
    BY <2>5, <2>8, <2>10
  <2> QED
    BY <1>1, <1>6, <2>2, <2>9, <2>11, <2>12, <2>13
<1> QED
  BY <1>7, <1>8
-------------------------------------------------------------------------------
(***************************************************************************)
(* What a step keeps by what it leaves alone.                              *)
(***************************************************************************)
(* Everything on the disk is a sequence of operations. *)
LEMMA DiskIs ==
  ASSUME Types, Past, OneLine
  PROVE  /\ \A h \in Present \cup Flushed \cup Contents : h \in Seq(Nat)
         /\ \A c \in Contents : Hist(based, c)
<1>1. \A c \in Contents : c \in Seq(Nat) /\ Hist(based, c)
  BY HistType DEF OneLine
<1>2. Len(based) = made
  BY DEF Types
<1>3. ASSUME NEW w, Logged(based, w), NEW h \in Lines(based, w)
      PROVE  h \in Seq(Nat)
  BY <1>2, <1>3, LineIs DEF Logged, Lines
<1> QED
  BY <1>1, <1>3 DEF OneLine, Present, Flushed, Contents

LEMMA SwornIs ==
  ASSUME Types, Past, NEW o \in promised \cup Firm
  PROVE  o \in 1 .. made /\ Line(based, o) \in Seq(Nat) /\ Place(based, o) \in Nat
         /\ Len(Line(based, o)) = Place(based, o)
<1>1. o \in 1 .. made
  BY DEF Types, Firm
<1> QED
  BY <1>1, LineIs

(* At most x is added to what is on the disk, and what it stands for may be *)
(* promised.                                                                *)
LEMMA LineKept ==
  ASSUME Types, Past, OneLine, Sworn, Extends(based'), durability' = durability,
         NEW x \in Seq(Nat), \A h \in Present \cup Contents : Agree(h, x),
         \A o \in promised \cup Firm : Agree(Line(based, o), x),
         Logged(based, wal)', Logged(based, walFlushed)',
         Lines(based, wal)' \subseteq Lines(based, wal) \cup {x},
         Lines(based, walFlushed)' \subseteq Lines(based, wal) \cup Lines(based, walFlushed),
         Cores(slots)' \subseteq Cores(slots), Cores(slotsFlushed)' \subseteq Contents,
         \A o \in promised' \ promised : Line(based', o) = x, Firm' \subseteq Firm
  PROVE  OneLine' /\ Sworn'
<1>1. Contents' \subseteq Contents /\ Present' \subseteq Present \cup {x}
      /\ Flushed' \subseteq Present \cup Flushed \cup Contents
  BY DEF Contents, Present, Flushed
<1>2. \A h \in Present \cup Flushed \cup Contents : h \in Seq(Nat)
  BY DiskIs
<1>3. \A c \in Contents : Hist(based, c) /\ \A h \in Present \cup Flushed \cup Contents : Agree(c, h)
  BY <1>2 DEF OneLine, Contents, Present, Flushed
<1>4. OneLine'
  <2>1. \A c \in Contents' : Hist(based', c)
    BY <1>1, <1>3, HistStays
  <2>2. \A c \in Contents' : \A h \in Present' \cup Flushed' : Agree(c, h)
    BY <1>1, <1>3
  <2> QED
    BY <2>1, <2>2 DEF OneLine
<1>5. ASSUME NEW o \in promised', NEW h \in Present'
      PROVE  Agree(Line(based', o), h)
  <2>1. CASE o \in promised
    <3>1. o \in 1 .. made
      BY <2>1, SwornIs
    <3>2. Line(based', o) = Line(based, o)
      BY <3>1, LineStays
    <3> QED
      BY <2>1, <3>2, <1>1, <1>5 DEF Sworn
  <2>2. CASE o \notin promised
    <3>1. Line(based', o) = x
      BY <2>2, <1>5
    <3>2. CASE h = x
      BY <3>1, <3>2 DEF Agree
    <3>3. CASE h \in Present
      BY <3>1, <3>3, <1>2, AgreeSym
    <3> QED
      BY <3>2, <3>3, <1>1, <1>5
  <2> QED
    BY <2>1, <2>2
<1>6. ASSUME NEW o \in Firm', NEW h \in Present' \cup Flushed'
      PROVE  Agree(Line(based', o), h)
  <2>1. o \in Firm /\ o \in 1 .. made
    BY <1>6, SwornIs
  <2>2. Line(based', o) = Line(based, o)
    BY <2>1, LineStays
  <2>3. CASE h = x
    BY <2>1, <2>2, <2>3
  <2>4. CASE h \in Present \cup Flushed \cup Contents
    BY <2>1, <2>2, <2>4 DEF Sworn, Contents, Present, Flushed
  <2> QED
    BY <2>3, <2>4, <1>1, <1>6
<1>7. Sworn'
  BY <1>5, <1>6 DEF Sworn
<1> QED
  BY <1>4, <1>7

(* What is newly promised contradicts nothing on the disk. *)
Fits(o) == o \in 1 .. made /\ \A h \in Present \cup Flushed : Agree(Line(based, o), h)

(* Nothing is added. *)
LEMMA LineSteady ==
  ASSUME Types, Past, OneLine, Sworn, Extends(based'),
         Logged(based, wal)', Logged(based, walFlushed)',
         Lines(based, wal)' \subseteq Lines(based, wal),
         Lines(based, walFlushed)' \subseteq Lines(based, wal) \cup Lines(based, walFlushed),
         Cores(slots)' \subseteq Cores(slots), Cores(slotsFlushed)' \subseteq Contents,
         \A o \in promised' : o \in promised \/ Fits(o), \A o \in Firm' : o \in Firm \/ Fits(o)
  PROVE  OneLine' /\ Sworn'
<1>1. Contents' \subseteq Contents /\ Present' \subseteq Present
      /\ Flushed' \subseteq Present \cup Flushed
  BY DEF Contents, Present, Flushed
<1>2. \A c \in Contents : Hist(based, c) /\ \A h \in Present \cup Flushed : Agree(c, h)
  BY DEF OneLine
<1>3. OneLine'
  <2>1. \A c \in Contents' : Hist(based', c)
    BY <1>1, <1>2, HistStays
  <2>2. \A c \in Contents' : \A h \in Present' \cup Flushed' : Agree(c, h)
    BY <1>1, <1>2
  <2> QED
    BY <2>1, <2>2 DEF OneLine
<1>4. ASSUME NEW o \in promised', NEW h \in Present'
      PROVE  Agree(Line(based', o), h)
  <2>1. o \in 1 .. made /\ Agree(Line(based, o), h)
    BY <1>1, <1>4, SwornIs DEF Sworn, Fits
  <2> QED
    BY <2>1, LineStays
<1>5. ASSUME NEW o \in Firm', NEW h \in Present' \cup Flushed'
      PROVE  Agree(Line(based', o), h)
  <2>1. o \in 1 .. made /\ Agree(Line(based, o), h)
    BY <1>1, <1>5, SwornIs DEF Sworn, Fits
  <2> QED
    BY <2>1, LineStays
<1> QED
  BY <1>3, <1>4, <1>5 DEF Sworn

LEMMA AckedStays ==
  ASSUME NEW n \in Nat, Acked(n), phase' = "open" => phase = "open" /\ latest' = latest,
         \A i \in 0 .. 1 : \/ acks'[i] \in {acks[i], acksFlushed[i]} \/ ~acks'[i].valid,
         \A i \in 0 .. 1 : \/ acksFlushed'[i] \in {acks[i], acksFlushed[i]} \/ ~acksFlushed'[i].valid
  PROVE  Acked(n)'
  BY DEF Acked

LEMMA ReachesStays ==
  ASSUME Types, NEW n \in Nat, Reaches(n),
         \A i \in Standing : i \in Standing' /\ slots'[i].core = slots[i].core
  PROVE  Reaches(n)'
  BY DEF Reaches

(* The log is kept up to k, and what recovery can come to is not beyond. *)
LEMMA OnDiskStays ==
  ASSUME Types, NEW n \in Nat, OnDisk(n), Reaches(n) => Reaches(n)', lost' = lost,
         NEW k \in 0 .. Len(wal), k <= Len(wal'), Len(wal') \in Nat, \A i \in 1 .. k : wal'[i] = wal[i],
         \A p \in Frames(wal) : Readable(p) => p <= k
  PROVE  OnDisk(n)'
<1>1. CASE n = 0 \/ Reaches(n)
  BY <1>1 DEF OnDisk
<1>2. ASSUME NEW p \in Frames(wal), Readable(p), n <= wal[p].seq
      PROVE  OnDisk(n)'
  <2>1. p \in 1 .. Len(wal) /\ p <= k /\ Len(wal) \in Nat
    <3>1. p \in 1 .. Len(wal)
      BY DEF Frames
    <3>2. Len(wal) \in Nat
      BY DEF Types
    <3> QED
      BY <1>2, <3>1, <3>2
  <2>2. p \in 1 .. Len(wal') /\ \A i \in 1 .. p : wal'[i] = wal[i] /\ i \in 1 .. k
    BY <2>1
  <2>3. p \in Frames(wal')
    BY <2>2, <2>1 DEF Frames
  <2>4. Readable(p)' /\ n <= wal'[p].seq
    BY <2>1, <2>2, <2>3, <1>2 DEF Readable
  <2> QED
    BY <2>3, <2>4 DEF OnDisk
<1> QED
  BY <1>1, <1>2 DEF OnDisk

LEMMA BackedStays ==
  ASSUME Types, Past, OneLine, NEW n \in Nat, Backed(n), Acked(n) => Acked(n)',
         lost' = lost, \A o \in 1 .. made : o \in dirty' => o \in dirty,
         NEW k \in 0 .. Len(wal), k <= Len(wal'), Len(wal') \in Nat, \A i \in 1 .. k : wal'[i] = wal[i],
         \A p \in Frames(wal) : Readable(p) => p <= k,
         walFlushed' = walFlushed \/ walFlushed' = wal' \/ (walFlushed' = wal /\ k = Len(wal))
  PROVE  Backed(n)'
<1>1. CASE n = 0 \/ Acked(n)
  BY <1>1 DEF Backed
<1>2. ASSUME NEW p \in Frames(wal), Readable(p), n <= wal[p].seq, p <= Len(walFlushed),
             \A i \in 1 .. p : wal[i] = walFlushed[i] /\ (wal[i].k = "frame" => wal[i].op \notin dirty)
      PROVE  Backed(n)'
  <2>1. p \in 1 .. Len(wal) /\ p <= k /\ Len(wal) \in Nat
    <3>1. p \in 1 .. Len(wal)
      BY DEF Frames
    <3>2. Len(wal) \in Nat
      BY DEF Types
    <3> QED
      BY <1>2, <3>1, <3>2
  <2>2. p \in 1 .. Len(wal') /\ \A i \in 1 .. p : wal'[i] = wal[i] /\ i \in 1 .. k /\ i \in 1 .. Len(wal)
    BY <2>1
  <2>3. p \in Frames(wal')
    BY <2>2, <2>1 DEF Frames
  <2>4. Readable(p)' /\ n <= wal'[p].seq
    BY <2>1, <2>2, <2>3, <1>2 DEF Readable
  <2>5. p <= Len(walFlushed') /\ \A i \in 1 .. p : wal'[i] = walFlushed'[i]
    BY <2>1, <2>2, <1>2
  <2>6. ASSUME NEW i \in 1 .. p, wal'[i].k = "frame"
        PROVE  wal'[i].op \notin dirty'
    <3>1. i \in Frames(wal) /\ wal[i].op \notin dirty
      BY <2>2, <2>6, <1>2 DEF Frames
    <3>2. wal[i].op \in 1 .. made
      BY <3>1, FrameIs
    <3> QED
      BY <3>1, <3>2, <2>2
  <2> QED
    BY <2>3, <2>4, <2>5, <2>6 DEF Backed
<1> QED
  BY <1>1, <1>2 DEF Backed

LEMMA BackedLess ==
  ASSUME Types, Past, OneLine, NEW n \in Nat, NEW m \in Nat, m <= n
  PROVE  /\ Backed(n) => Backed(m)
         /\ OnDisk(n) => OnDisk(m)
         /\ Acked(n) => Acked(m)
<1>1. \A i \in 0 .. 1 : acks[i].seq \in Nat /\ acksFlushed[i].seq \in Nat /\ latest.seq \in Nat
  BY DEF Types, AckContents
<1>2. Acked(n) => Acked(m)
  BY <1>1 DEF Acked
<1>3. \A p \in Frames(wal) : n <= wal[p].seq => m <= wal[p].seq
  BY FrameIs
<1>4. Backed(n) => Backed(m)
  BY <1>2, <1>3 DEF Backed
<1>5. Reaches(n) => Reaches(m)
  <2>1. \A i \in Standing : Len(slots[i].core) \in Nat
    BY SlotIs DEF Standing
  <2> QED
    BY <2>1 DEF Reaches
<1>6. OnDisk(n) => OnDisk(m)
  BY <1>3, <1>5 DEF OnDisk
<1> QED
  BY <1>2, <1>4, <1>6

(* Durability, of what was there and of what is added. *)
LEMMA DurableSteady ==
  ASSUME Types, Past, OneLine, Durable, durability' = durability, Extends(based'),
         \A n \in Nat : Acked(n) => Acked(n)',
         \A n \in Nat : ~Strict /\ Backed(n) => Backed(n)',
         \A n \in Nat : ~Strict /\ OnDisk(n) => OnDisk(n)',
         \A o \in promised' : o \in promised \/ ~Strict \/ Acked(Place(based, o))',
         \A c \in Contents' : c \in Contents \/ Strict \/ Backed(Len(c))',
         cp'.stage # "none" => (cp.stage # "none" /\ cp'.core = cp.core) \/ Strict \/ Backed(Len(cp.core))',
         \A o \in safe' : o \in safe \/ Strict \/ Backed(Place(based, o))',
         phase' = "open" => (phase = "open" /\ core' = core) \/ Strict \/ OnDisk(Len(core))',
         phase' = "down" => (phase = "down" /\ promised' \subseteq promised) \/ Strict
                            \/ \A o \in promised' : OnDisk(Place(based, o))' \/ Acked(Place(based, o))'
  PROVE  Durable'
<1>1. Strict' = Strict
  BY DEF Strict
<1>2. \A o \in promised \cup safe : o \in 1 .. made
  BY DEF Types
<1>3. \A o \in promised \cup safe : Place(based', o) = Place(based, o) /\ Place(based, o) \in Nat
  <2> TAKE o \in promised \cup safe
  <2>1. o \in 1 .. made
    BY <1>2
  <2> QED
    BY <2>1, LineStays, LineIs
<1>4. \A c \in Contents : Len(c) \in Nat
  BY DiskIs
<1>5. Len(core) \in Nat /\ Len(cp.core) \in Nat
  BY DEF Types
<1>6. CASE Strict
  <2>1. ASSUME NEW o \in promised', o \in promised
        PROVE  Acked(Place(based, o))'
    <3>1. PICK n \in Nat : n = Place(based, o) /\ n = Place(based', o)
      BY <2>1, <1>3
    <3>2. Acked(n)
      BY <2>1, <3>1, <1>6 DEF Durable
    <3>3. Acked(n)'
      BY <3>2
    <3> QED
      BY <3>1, <3>3
  <2> QED
    BY <2>1, <1>1, <1>6 DEF Durable
<1>7. CASE ~Strict
  <2>1. ASSUME NEW c \in Contents', c \in Contents
        PROVE  Backed(Len(c))'
    <3>1. PICK n \in Nat : n = Len(c)
      BY <2>1, <1>4
    <3>2. Backed(n)
      BY <3>1, <2>1, <1>7 DEF Durable
    <3> QED
      BY <3>1, <3>2, <1>7
  <2>2. ASSUME cp.stage # "none", cp'.core = cp.core
        PROVE  Backed(Len(cp.core))'
    <3>1. PICK n \in Nat : n = Len(cp.core) /\ n = Len(cp'.core)
      BY <2>2, <1>5
    <3>2. Backed(n)
      BY <2>2, <3>1, <1>7 DEF Durable
    <3>3. Backed(n)'
      BY <3>2, <1>7
    <3> QED
      BY <3>1, <3>3
  <2>3. ASSUME NEW o \in safe', o \in safe
        PROVE  Backed(Place(based, o))'
    <3>1. PICK n \in Nat : n = Place(based, o) /\ n = Place(based', o)
      BY <2>3, <1>3
    <3>2. Backed(n)
      BY <2>3, <3>1, <1>7 DEF Durable
    <3>3. Backed(n)'
      BY <3>2, <1>7
    <3> QED
      BY <3>1, <3>3
  <2>4. ASSUME phase = "open", core' = core
        PROVE  OnDisk(Len(core))'
    <3>1. PICK n \in Nat : n = Len(core) /\ n = Len(core')
      BY <2>4, <1>5
    <3>2. OnDisk(n)
      BY <2>4, <3>1, <1>7 DEF Durable
    <3>3. OnDisk(n)'
      BY <3>2, <1>7
    <3> QED
      BY <3>1, <3>3
  <2>5. ASSUME phase = "down", NEW o \in promised
        PROVE  OnDisk(Place(based, o))' \/ Acked(Place(based, o))'
    <3>1. PICK n \in Nat : n = Place(based, o) /\ n = Place(based', o)
      BY <1>3
    <3>2. OnDisk(n) \/ Acked(n)
      BY <2>5, <3>1, <1>7 DEF Durable
    <3>3. OnDisk(n)' \/ Acked(n)'
      BY <3>2, <1>7
    <3> QED
      BY <3>1, <3>3
  <2>6. \A c \in Contents' : Backed(Len(c))'
    BY <2>1, <1>7
  <2>7. cp'.stage # "none" => Backed(Len(cp.core))'
    BY <2>2, <1>7
  <2>8. \A o \in safe' : Backed(Place(based, o))'
    BY <2>3, <1>7
  <2>9. phase' = "open" => OnDisk(Len(core))'
    BY <2>4, <1>7
  <2>10. phase' = "down" => \A o \in promised' : OnDisk(Place(based, o))' \/ Acked(Place(based, o))'
    BY <2>5, <1>7
  <2> QED
    BY <2>6, <2>7, <2>8, <2>9, <2>10, <1>1, <1>7 DEF Durable
<1> QED
  BY <1>6, <1>7

(***************************************************************************)
(* The steps.                                                              *)
(***************************************************************************)
LEMMA Facts ==
  ASSUME Types
  PROVE  /\ made \in Nat /\ Len(based) = made /\ based \in Seq(Seq(Nat))
         /\ wal \in Seq(Cells) /\ Len(wal) \in Nat /\ walFlushed \in Seq(Cells) /\ Len(walFlushed) \in Nat
         /\ end \in Nat /\ op.id \in Nat /\ op.start \in Nat
         /\ core \in Seq(Nat) /\ core \in Seq(1 .. made) /\ Len(core) \in Nat
         /\ cp.core \in Seq(Nat) /\ Len(cp.core) \in Nat /\ latest.seq \in Nat
<1>1. core \in Seq(1 .. made)
  BY DEF Types
<1>2. core \in Seq(Nat)
  <2>1. \A i \in 1 .. Len(core) : core[i] \in Nat
    <3>1. \A i \in 1 .. Len(core) : core[i] \in 1 .. made
      BY <1>1, ElementOfSeq
    <3>2. made \in Nat
      BY DEF Types
    <3> QED
      BY <3>1, <3>2
  <2> QED
    BY <1>1, <2>1, SeqIn
<1>3. end \in Nat /\ op.id \in Nat /\ op.start \in Nat /\ cp.core \in Seq(Nat) /\ latest.seq \in Nat
      /\ wal \in Seq(Cells) /\ walFlushed \in Seq(Cells) /\ made \in Nat /\ Len(based) = made /\ based \in Seq(Seq(Nat))
  BY DEF Types, AckContents
<1> QED
  BY <1>1, <1>2, <1>3

LEMMA PastStays ==
  ASSUME Types, Past, UNCHANGED <<based, made>>
  PROVE  Past' /\ Extends(based')
  BY Facts DEF Past, Extends

(* A new operation is applied to the core. *)
LEMMA PastGrows ==
  ASSUME Types, Past, Hist(based, core), based' = Append(based, core), made' = made + 1
  PROVE  /\ Past' /\ Extends(based') /\ based' \in Seq(Seq(Nat)) /\ Len(based') = made'
         /\ made + 1 \in 1 .. Len(based') /\ based'[made + 1] = core
<1>1. Extends(based') /\ based'[made + 1] = core /\ Len(based') = made + 1
  BY Facts, AppendExtends
<1>2. \A c : Hist(based, c) => Hist(based', c)
  BY <1>1, HistStays
<1>3. ASSUME NEW o \in 1 .. made'
      PROVE  based'[o] \in Seq(1 .. o - 1) /\ Hist(based', based'[o])
  <2>1. CASE o \in 1 .. made
    BY <2>1, <1>1, <1>2 DEF Extends, Past
  <2>2. CASE o = made + 1
    <3>1. o - 1 = made
      BY <2>2, Facts
    <3> QED
      BY <2>2, <3>1, <1>1, <1>2, Facts
  <2> QED
    BY <2>1, <2>2, Facts
<1>4. Past'
  BY <1>3 DEF Past
<1> QED
  BY <1>1, <1>4, Facts DEF Extends

LEMMA Serving ==
  ASSUME Good, QueueTurn \/ LeaseLane
  PROVE  /\ phase = "open" /\ ~poisoned /\ op = NoOp /\ op.stage = "none" /\ Len(wal) = end /\ Sound
         /\ cp.stage \in {"none", "slot", "torn", "mirrored"} /\ Hist(based, core)
<1>1. phase = "open" /\ ~poisoned /\ ~Busy /\ cp.stage \in {"none", "slot", "torn", "mirrored"}
  BY DEF QueueTurn, LeaseLane, Yielding
<1>2. op = NoOp /\ op.stage = "none"
  BY <1>1 DEF Good, Operation, Busy
<1> QED
  BY <1>1, <1>2 DEF Good, Memory

(* The leader's memory continues what it would flush. *)
LEMMA FlushedBegins ==
  ASSUME Good, phase = "open", Strict \/ cp.stage # "none"
  PROVE  \A h \in Flushed : Begins(h, core)
<1> USE DEF Good
<1>1. \A h \in Present \cup Contents : Begins(h, core)
  BY DEF Memory
<1>2. \A h \in Present \cup Flushed \cup Contents : h \in Seq(Nat)
  BY DiskIs
<1>3. ASSUME NEW h \in Lines(based, walFlushed)
      PROVE  Begins(h, core)
  <2>1. CASE ~Strict
    BY <2>1 DEF Memory
  <2>2. CASE Strict /\ h \in Lines(based, wal)
    BY <2>2, <1>1 DEF Present
  <2>3. CASE Strict /\ Reaches(Len(h))
    <3>1. PICK i \in 0 .. 1 : slots[i].state = "valid" /\ Len(h) <= Len(slots[i].core)
      BY <2>3 DEF Reaches, Standing, Types
    <3> DEFINE c == slots[i].core
    <3>2. c \in Contents /\ c \in Present
      BY <3>1 DEF Contents, Present, Cores
    <3>3. h \in Flushed
      BY DEF Flushed
    <3>4. Agree(c, h)
      BY <3>2, <3>3 DEF OneLine
    <3>5. Begins(h, c)
      BY <3>1, <3>2, <3>3, <3>4, <1>2, AgreeSym, AgreeBegins
    <3> QED
      BY <3>2, <3>3, <3>5, <1>1, <1>2, Facts, BeginsTrans
  <2> QED
    BY <2>1, <2>2, <2>3 DEF Surpassed
<1> QED
  BY <1>1, <1>3 DEF Flushed, Contents

(* Two sequences that a core continues do not contradict each other. *)
LEMMA UnderCore ==
  ASSUME Types, NEW a \in Seq(Nat), NEW b \in Seq(Nat), Begins(a, core), Begins(b, core)
  PROVE  Agree(a, b)
  BY Facts, BeginsAgree

(* The same slots and acknowledgements, and a log kept up to k. *)
LEMMA DiskStays ==
  ASSUME Types, Past, OneLine, durability' = durability,
         UNCHANGED <<slots, slotsFlushed, acks, acksFlushed, lost, phase, newest, latest>>,
         \A o \in 1 .. made : o \in dirty' => o \in dirty,
         NEW k \in 0 .. Len(wal), k <= Len(wal'), Len(wal') \in Nat, \A i \in 1 .. k : wal'[i] = wal[i],
         ~Strict => \A p \in Frames(wal) : Readable(p) => p <= k,
         walFlushed' = walFlushed \/ walFlushed' = wal' \/ (walFlushed' = wal /\ k = Len(wal))
  PROVE  /\ Cores(slots)' = Cores(slots) /\ Cores(slotsFlushed)' = Cores(slotsFlushed) /\ Contents' = Contents
         /\ Strict' = Strict
         /\ \A n \in Nat : Acked(n) => Acked(n)'
         /\ \A n \in Nat : Reaches(n) <=> Reaches(n)'
         /\ \A n \in Nat : ~Strict /\ OnDisk(n) => OnDisk(n)'
         /\ \A n \in Nat : ~Strict /\ Backed(n) => Backed(n)'
<1>1. Cores(slots)' = Cores(slots) /\ Cores(slotsFlushed)' = Cores(slotsFlushed) /\ Contents' = Contents
  BY DEF Cores, Contents
<1>2. Strict' = Strict
  BY DEF Strict
<1>3. \A n \in Nat : Acked(n) => Acked(n)'
  BY DEF Acked
<1>4. \A n \in Nat : Reaches(n) <=> Reaches(n)'
  BY DEF Reaches, Standing
<1>5. ASSUME NEW n \in Nat, ~Strict, OnDisk(n)
      PROVE  OnDisk(n)'
  BY <1>4, <1>5, OnDiskStays
<1>6. ASSUME NEW n \in Nat, ~Strict, Backed(n)
      PROVE  Backed(n)'
  BY <1>3, <1>6, BackedStays
<1> QED
  BY <1>1, <1>2, <1>3, <1>4, <1>5, <1>6

(* A leader without holes in its log reads all of it. *)
LEMMA SoundReads ==
  ASSUME Types, Sound, NEW p \in Frames(wal)
  PROVE  Readable(p)
  BY Facts DEF Sound, Readable, Frames

LEMMA PutEnd ==
  ASSUME Types, Len(wal) = end, NEW cell \in Cells
  PROVE  /\ Put(end, cell) = Append(wal, cell) /\ Put(end, cell) \in Seq(Cells) /\ Len(Put(end, cell)) = Len(wal) + 1
         /\ Put(end, cell)[Len(wal) + 1] = cell /\ \A i \in 1 .. Len(wal) : Put(end, cell)[i] = wal[i]
<1>1. wal \in Seq(Cells) /\ end \in Nat /\ end <= Len(wal)
  BY Facts
<1>2. LET v == Put(end, cell) IN Len(wal) = end => v = Append(wal, cell)
  BY <1>1, PutIs, Zenon
<1>3. Put(end, cell) = Append(wal, cell)
  BY <1>2
<1> QED
  BY <1>1, <1>3

LEMMA AppendStep ==
  ASSUME Good, phase = "open", ~poisoned, Len(wal) = end, Sound, Extends(based'),
         NEW o \in 1 .. Len(based'), o \in Nat, based'[o] = core, o \notin lost,
         core' = Append(core, o), wal' = Put(end, Frame(Len(core) + 1, o)),
         promised' \subseteq promised \cup {o}, Strict => promised' = promised,
         \A q \in 1 .. made : q \in dirty' => q \in dirty,
         UNCHANGED <<durability, walFlushed, slots, slotsFlushed, acks, acksFlushed, lost, phase, poisoned,
                     newest, latest, cp, safe>>,
         cp.stage \notin {"resetting", "reset", "emptied"},
         Len(wal') = (IF op'.stage = "written" THEN end' + 1 ELSE end')
  PROVE  OneLine' /\ Sworn' /\ Surpassed' /\ Durable' /\ Memory' /\ Checkpoint'
<1> DEFINE l == Append(core, o)
           f == Frame(Len(core) + 1, o)
           n == Len(core) + 1
<1> USE DEF Good
<1>1. l \in Seq(Nat) /\ Len(l) = n /\ n \in Nat /\ Line(based', o) = l /\ Place(based', o) = n /\ Begins(core, l) /\ l[n] = o
  <2>1. core \in Seq(Nat) /\ l \in Seq(Nat) /\ Len(l) = n /\ n \in Nat /\ l[n] = o
    BY Facts
  <2>2. Begins(core, l)
    BY <2>1, BeginsRefl, BeginsAppend
  <2> QED
    BY <2>1, <2>2 DEF Line, Place
<1>2. f \in Cells /\ f.k = "frame" /\ f.seq = n /\ f.op = o
  BY <1>1, CellIs
<1>3. wal' \in Seq(Cells) /\ wal' = Append(wal, Frame(Place(based', o), o)) /\ Len(wal') = Len(wal) + 1 /\ wal'[Len(wal) + 1] = f
      /\ \A i \in 1 .. Len(wal) : wal'[i] = wal[i]
  <2>1. wal' = Put(end, f) /\ Types
    OBVIOUS
  <2>2. f = Frame(Place(based', o), o)
    BY <1>1
  <2> HIDE DEF f, Good
  <2> QED
    BY <2>1, <2>2, <1>2, PutEnd, SMTT(40)
<1>4. /\ Logged(based', wal') /\ Lines(based', wal') = Lines(based, wal) \cup {l} /\ Frames(wal') = Frames(wal) \cup {Len(wal) + 1}
      /\ Logged(based', walFlushed) /\ Lines(based', walFlushed) = Lines(based, walFlushed)
  <2>1. Logged(based', wal) /\ Lines(based', wal) = Lines(based, wal)
        /\ Logged(based', walFlushed) /\ Lines(based', walFlushed) = Lines(based, walFlushed)
    BY LoggedStays DEF OneLine
  <2>2. \A h \in Lines(based', wal) : Begins(h, based'[o])
    BY <2>1 DEF Memory, Present
  <2>3. wal \in Seq(Cells) /\ Place(based', o) \in Nat
    BY <1>1, Facts
  <2>4. LET v == Append(wal, Frame(Place(based', o), o))
        IN  Logged(based', v) /\ Lines(based', v) = Lines(based', wal) \cup {Line(based', o)}
            /\ Frames(v) = Frames(wal) \cup {Len(wal) + 1}
    BY <2>1, <2>2, <2>3, Longer
  <2> QED
    BY <2>1, <2>4, <1>1, <1>3
<1>5. \A h \in Present \cup Contents : h \in Seq(Nat) /\ Begins(h, core) /\ Begins(h, l) /\ Agree(h, l)
  <2> TAKE h \in Present \cup Contents
  <2>1. h \in Seq(Nat) /\ Begins(h, core)
    BY DiskIs DEF Memory
  <2>2. Begins(h, l)
    BY <2>1, <1>1, Facts, BeginsTrans
  <2> QED
    BY <2>1, <2>2, <1>1, BeginsRefl, BeginsAgree
<1>6. \A q \in promised \cup Firm : Line(based, q) \in Seq(Nat) /\ Begins(Line(based, q), core)
                                   /\ Begins(Line(based, q), l) /\ Agree(Line(based, q), l)
  <2> TAKE q \in promised \cup Firm
  <2>1. Line(based, q) \in Seq(Nat) /\ Begins(Line(based, q), core)
    BY SwornIs DEF Memory
  <2>2. Begins(Line(based, q), l)
    BY <2>1, <1>1, Facts, BeginsTrans
  <2> QED
    BY <2>1, <2>2, <1>1, BeginsRefl, BeginsAgree
<1>7. /\ Cores(slots)' = Cores(slots) /\ Cores(slotsFlushed)' = Cores(slotsFlushed) /\ Contents' = Contents
      /\ Strict' = Strict
      /\ \A m \in Nat : Acked(m) => Acked(m)'
      /\ \A m \in Nat : Reaches(m) <=> Reaches(m)'
      /\ \A m \in Nat : ~Strict /\ OnDisk(m) => OnDisk(m)'
      /\ \A m \in Nat : ~Strict /\ Backed(m) => Backed(m)'
  <2>1. Len(wal) \in 0 .. Len(wal) /\ Len(wal) <= Len(wal') /\ Len(wal') \in Nat
    BY <1>3, Facts, SMTT(40)
  <2>2. \A p \in Frames(wal) : p <= Len(wal)
    BY DEF Frames
  <2> QED
    BY <2>1, <2>2, <1>3, DiskStays
<1>8. Firm' \subseteq Firm /\ Firm' \cup promised' \subseteq Firm \cup promised \cup {o}
  BY <1>7 DEF Firm
<1>9. OneLine' /\ Sworn'
  <2>1. Logged(based, wal)' /\ Logged(based, walFlushed)' /\ Lines(based, wal)' \subseteq Lines(based, wal) \cup {l}
        /\ Lines(based, walFlushed)' \subseteq Lines(based, wal) \cup Lines(based, walFlushed)
    BY <1>4
  <2>2. \A q \in promised' \ promised : Line(based', q) = l
    BY <1>1
  <2>3. Cores(slots)' \subseteq Cores(slots) /\ Cores(slotsFlushed)' \subseteq Contents
    BY <1>7 DEF Contents
  <2> HIDE DEF l, Good
  <2>4. Types /\ Past /\ OneLine /\ Sworn
    BY DEF Good
  <2> QED
    BY <2>1, <2>2, <2>3, <2>4, <1>1, <1>5, <1>6, <1>8, LineKept
<1>10. Surpassed'
  <2>1. \A c \in Cores(slotsFlushed)' : Reaches(Len(c))'
    <3> TAKE c \in Cores(slotsFlushed)'
    <3>1. PICK m \in Nat : m = Len(c)
      BY <1>7, DiskIs DEF Contents
    <3>2. Reaches(m)
      BY <3>1, <1>7 DEF Surpassed
    <3> QED
      BY <3>1, <3>2, <1>7
  <2>2. ASSUME Strict', NEW h \in Lines(based, walFlushed)'
        PROVE  h \in Lines(based, wal)' \/ Reaches(Len(h))'
    <3>1. h \in Lines(based, walFlushed)
      BY <2>2, <1>4
    <3>2. PICK m \in Nat : m = Len(h)
      BY <3>1, DiskIs DEF Flushed
    <3>3. h \in Lines(based, wal) \/ Reaches(m)
      BY <3>1, <3>2, <2>2, <1>7 DEF Surpassed
    <3> QED
      BY <3>2, <3>3, <1>4, <1>7
  <2> QED
    BY <2>1, <2>2 DEF Surpassed
<1>11. Sound'
  <2>1. ASSUME NEW i \in 1 .. Len(wal')
        PROVE  wal'[i].k \in Whole /\ (wal'[i].k = "frame" => wal'[i].op \notin lost')
    <3>1. CASE i \in 1 .. Len(wal)
      BY <3>1, <1>3 DEF Sound
    <3>2. CASE i = Len(wal) + 1
      BY <3>2, <1>2, <1>3 DEF Whole
    <3> QED
      BY <3>1, <3>2, <1>3, Facts
  <2> QED
    BY <2>1 DEF Sound
<1>12. Memory'
  <2>1. Hist(based', core')
    <3>1. Hist(based, core)
      BY DEF Memory
    <3>2. Hist(based', core)
      BY <3>1, HistStays
    <3>3. \A i \in 1 .. n : based'[l[i]] = SubSeq(l, 1, i - 1)
      <4> TAKE i \in 1 .. n
      <4>1. i - 1 \in 0 .. Len(core) /\ core \in Seq(Nat) /\ Len(core) \in Nat
        BY Facts
      <4>2. SubSeq(l, 1, i - 1) = SubSeq(core, 1, i - 1)
        BY <4>1, <1>1
      <4>3. CASE i = n
        <5>1. SubSeq(core, 1, i - 1) = core
          BY <4>1, <4>3
        <5> QED
          BY <5>1, <4>2, <4>3, <1>1
      <4>4. CASE i # n
        <5>1. i \in 1 .. Len(core) /\ l[i] = core[i]
          BY <4>4, <4>1
        <5> QED
          BY <5>1, <4>2, <3>2 DEF Hist
      <4> QED
        BY <4>3, <4>4
    <3>4. l \in Seq(1 .. Len(based'))
      BY <3>2 DEF Hist
    <3> QED
      BY <3>3, <3>4, <1>1 DEF Hist
  <2>2. latest'.seq <= Len(core')
    BY <1>1, Facts DEF Memory
  <2>3. \A h \in Present' \cup Contents' : Begins(h, core')
    <3> TAKE h \in Present' \cup Contents'
    <3>1. h \in Present \cup Contents \/ h = l
      BY <1>4, <1>7 DEF Present
    <3> QED
      BY <3>1, <1>1, <1>5, BeginsRefl
  <2>4. \A q \in promised' \cup Firm' : Begins(Line(based', q), core')
    <3> TAKE q \in promised' \cup Firm'
    <3>1. CASE q = o
      BY <3>1, <1>1, BeginsRefl
    <3>2. CASE q \in promised \cup Firm
      <4>1. q \in 1 .. made
        BY <3>2, SwornIs
      <4> QED
        BY <4>1, <3>2, <1>6, LineStays
    <3> QED
      BY <3>1, <3>2, <1>8
  <2>5. ~Strict' /\ cp'.stage # "none" => \A h \in Lines(based, walFlushed)' : Begins(h, core')
    <3> SUFFICES ASSUME ~Strict', cp'.stage # "none", NEW h \in Lines(based, walFlushed)'
                 PROVE  Begins(h, core')
      OBVIOUS
    <3>1. h \in Lines(based, walFlushed) /\ h \in Flushed
      BY <1>4 DEF Flushed
    <3>2. Begins(h, core) /\ h \in Seq(Nat)
      BY <3>1, FlushedBegins, DiskIs
    <3> QED
      BY <3>2, <1>1, Facts, BeginsTrans
  <2> QED
    BY <2>1, <2>2, <2>3, <2>4, <2>5, <1>11 DEF Memory
<1>13. Durable'
  <2>1. ASSUME Strict, NEW q \in promised'
        PROVE  Acked(Place(based, q))'
    <3>1. q \in promised /\ q \in 1 .. made
      BY <2>1, SwornIs
    <3>2. PICK m \in Nat : m = Place(based, q) /\ m = Place(based', q)
      BY <3>1, LineStays, SwornIs
    <3>3. Acked(m)
      BY <2>1, <3>1, <3>2 DEF Durable
    <3> QED
      BY <3>2, <3>3, <1>7
  <2>2. ASSUME ~Strict, NEW c \in Contents'
        PROVE  Backed(Len(c))'
    <3>1. PICK m \in Nat : m = Len(c)
      BY <1>7, DiskIs
    <3>2. Backed(m)
      BY <2>2, <3>1, <1>7 DEF Durable
    <3> QED
      BY <3>1, <3>2, <2>2, <1>7
  <2>3. ASSUME ~Strict, cp'.stage # "none"
        PROVE  Backed(Len(cp.core))'
    <3>1. PICK m \in Nat : m = Len(cp.core) /\ m = Len(cp'.core)
      BY Facts
    <3>2. Backed(m)
      BY <2>3, <3>1 DEF Durable
    <3> QED
      BY <3>1, <3>2, <2>3, <1>7
  <2>4. ASSUME ~Strict, NEW q \in safe'
        PROVE  Backed(Place(based, q))'
    <3>1. q \in safe /\ q \in 1 .. made
      BY <2>4 DEF Types
    <3>2. PICK m \in Nat : m = Place(based, q) /\ m = Place(based', q)
      BY <3>1, LineStays, LineIs
    <3>3. Backed(m)
      BY <2>4, <3>1, <3>2 DEF Durable
    <3> QED
      BY <3>2, <3>3, <2>4, <1>7
  <2>5. OnDisk(Len(core))'
    <3>0. PICK p \in Nat : p = Len(wal) + 1
      BY Facts
    <3>1. p \in Frames(wal') /\ wal'[p].seq = n
      BY <3>0, <1>2, <1>3, <1>4
    <3>2. 1 .. Len(wal') = 1 .. p
      BY <3>0, <1>3
    <3>3. Readable(p)'
      BY <3>1, <3>2, <1>11 DEF Readable, Sound
    <3>4. Len(core') <= wal'[p].seq
      BY <3>1, <1>1
    <3> QED
      BY <3>1, <3>3, <3>4 DEF OnDisk
  <2> QED
    BY <2>1, <2>2, <2>3, <2>4, <2>5, <1>7 DEF Durable
<1>14. Checkpoint'
  <2> SUFFICES ASSUME cp.stage # "none"
               PROVE  Checkpoint'
    BY DEF Checkpoint
  <2>1. Begins(cp.core, core')
    BY <1>1, Facts, BeginsTrans DEF Checkpoint
  <2>2. /\ \A c \in Contents : Len(c) <= Len(cp.core)
        /\ IF cp.mirror THEN newest = cp.slot /\ slots[newest].state = "valid" /\ slots[newest].core = cp.core
           ELSE cp.slot = 1 - newest /\ cp.stage \in {"slot", "torn", "written"}
    BY DEF Checkpoint
  <2>3. cp.stage = "written" => slots[SlotNow] = [state |-> "valid", gen |-> cp.gen, core |-> cp.core]
    BY DEF Checkpoint
  <2>4. SlotNow' = SlotNow
    BY DEF SlotNow
  <2> QED
    BY <2>1, <2>2, <2>3, <2>4, <1>7 DEF Checkpoint
<1> QED
  BY <1>9, <1>10, <1>12, <1>13, <1>14

LEMMA CoreGrows ==
  ASSUME Types, NEW m \in Nat, made <= m, NEW o \in 1 .. m
  PROVE  core \in Seq(1 .. m) /\ Append(core, o) \in Seq(1 .. m)
<1>1. core \in Seq(1 .. made) /\ made \in Nat
  BY Facts
<1>2. \A i \in 1 .. Len(core) : core[i] \in 1 .. m
  <2> TAKE i \in 1 .. Len(core)
  <2>1. core[i] \in 1 .. made
    BY <1>1, ElementOfSeq
  <2> QED
    BY <2>1, <1>1
<1>3. core \in Seq(1 .. m)
  BY <1>1, <1>2, SeqIn
<1> QED
  BY <1>3

LEMMA LogFlushedStep ==
  ASSUME Good, LogFlushed
  PROVE  Good'
<1> DEFINE o == made + 1
<1>0. Types /\ Past /\ Operation /\ OneLine /\ Memory
  BY DEF Good
<1>1. /\ phase = "open" /\ ~poisoned /\ op = NoOp /\ Len(wal) = end /\ Sound
      /\ cp.stage \in {"none", "slot", "torn", "mirrored"} /\ Hist(based, core) /\ Strict
  BY Serving DEF LogFlushed
<1>2. /\ made' = o /\ core' = Append(core, o) /\ based' = Append(based, core) /\ wal' = Put(end, Frame(Len(core) + 1, o))
      /\ op' = [stage |-> "written", id |-> o, start |-> end]
      /\ UNCHANGED <<walFlushed, slots, slotsFlushed, acks, acksFlushed, dirty, lost, phase, poisoned, end, newest,
                     generation, latest, cp, retry, durability, trouble, promised, safe, soft>>
  BY DEF LogFlushed, Apply
<1>3. /\ Past' /\ Extends(based') /\ based' \in Seq(Seq(Nat)) /\ Len(based') = made' /\ o \in 1 .. Len(based') /\ based'[o] = core
  BY <1>0, <1>1, <1>2, PastGrows
<1>4. o \in Nat /\ made \in Nat /\ Len(core) + 1 \in Nat /\ core \in Seq(Nat) /\ Len(core) \in Nat /\ end \in Nat
  BY <1>0, Facts
<1>5. o \notin lost /\ dirty \cup lost \cup promised \cup safe \subseteq 1 .. made
  BY <1>0, <1>4 DEF Types
<1>6. /\ wal' \in Seq(Cells) /\ Len(wal') = Len(wal) + 1 /\ wal'[Len(wal) + 1] = Frame(Len(core) + 1, o)
  <2>1. Frame(Len(core) + 1, o) \in Cells
    BY <1>4, CellIs
  <2> QED
    BY <2>1, <1>0, <1>1, <1>2, PutEnd
<1>7. Types'
  <2>1. core' \in Seq(1 .. made')
    <3>1. made <= o /\ o \in 1 .. o
      BY <1>4
    <3> HIDE DEF o
    <3> QED
      BY <3>1, <1>0, <1>2, <1>4, CoreGrows
  <2>2. op' \in [stage : {"none", "staged", "written", "flushed", "acked"}, id : Nat, start : Nat]
    BY <1>2, <1>4
  <2>3. end' \in 0 .. Len(wal') + 1
    BY <1>1, <1>2, <1>4, <1>6
  <2>4. (dirty \cup lost \cup promised \cup safe)' \subseteq 1 .. made'
    BY <1>2, <1>4, <1>5
  <2> QED
    BY <2>1, <2>2, <2>3, <2>4, <1>0, <1>2, <1>3, <1>4, <1>6 DEF Types
<1>8. OneLine' /\ Sworn' /\ Surpassed' /\ Durable' /\ Memory' /\ Checkpoint'
  <2>1. Len(wal') = (IF op'.stage = "written" THEN end' + 1 ELSE end')
    BY <1>1, <1>2, <1>6
  <2> QED
    BY <2>1, <1>1, <1>2, <1>3, <1>4, <1>5, AppendStep
<1>9. Operation'
  <2>1. op'.stage = "written" /\ op'.id = o /\ op'.start = end /\ Strict'
    BY <1>1, <1>2 DEF Strict
  <2>2. core' = Line(based', o) /\ Len(core') = Len(core) + 1
    BY <1>2, <1>3, <1>4 DEF Line
  <2>3. wal'[end' + 1] = Frame(Len(core'), o) /\ end' <= op'.start + 1
    BY <2>1, <2>2, <1>1, <1>2, <1>4, <1>6
  <2>4. \A i \in Frames(walFlushed) : walFlushed[i].op \in 1 .. made
    BY <1>0, Facts DEF OneLine, Logged
  <2>5. \A i \in Frames(walFlushed') : walFlushed'[i].op # o
    BY <2>4, <1>2, <1>4
  <2> QED
    BY <2>1, <2>2, <2>3, <2>5, <1>1, <1>2, <1>3, <1>4 DEF Operation, Busy
<1> QED
  BY <1>3, <1>7, <1>8, <1>9 DEF Good

LEMMA LogUnflushedStep ==
  ASSUME Good, NEW payload \in BOOLEAN, LogUnflushed(payload)
  PROVE  Good'
<1> DEFINE o == made + 1
<1>0. Types /\ Past /\ Operation /\ OneLine /\ Memory
  BY DEF Good
<1>1. /\ phase = "open" /\ ~poisoned /\ op = NoOp /\ Len(wal) = end /\ Sound
      /\ cp.stage \in {"none", "slot", "torn", "mirrored"} /\ Hist(based, core)
  BY Serving DEF LogUnflushed
<1>2. /\ made' = o /\ core' = Append(core, o) /\ based' = Append(based, core) /\ wal' = Put(end, Frame(Len(core) + 1, o))
      /\ end' = end + 1 /\ dirty' \subseteq dirty \cup {o} /\ promised' \subseteq promised \cup {o}
      /\ (Strict => promised' = promised)
      /\ UNCHANGED <<walFlushed, slots, slotsFlushed, acks, acksFlushed, lost, phase, poisoned, newest,
                     generation, latest, op, cp, retry, durability, trouble, safe, soft>>
  BY DEF LogUnflushed, Apply, stepVars
<1>3. /\ Past' /\ Extends(based') /\ based' \in Seq(Seq(Nat)) /\ Len(based') = made' /\ o \in 1 .. Len(based') /\ based'[o] = core
  BY <1>0, <1>1, <1>2, PastGrows
<1>4. o \in Nat /\ made \in Nat /\ Len(core) + 1 \in Nat /\ core \in Seq(Nat) /\ Len(core) \in Nat /\ end \in Nat
  BY <1>0, Facts
<1>5. o \notin lost /\ dirty \cup lost \cup promised \cup safe \subseteq 1 .. made
  BY <1>0, <1>4 DEF Types
<1>6. /\ wal' \in Seq(Cells) /\ Len(wal') = Len(wal) + 1
  <2>1. Frame(Len(core) + 1, o) \in Cells
    BY <1>4, CellIs
  <2> QED
    BY <2>1, <1>0, <1>1, <1>2, PutEnd
<1>7. Types'
  <2>1. core' \in Seq(1 .. made')
    <3>1. made <= o /\ o \in 1 .. o
      BY <1>4
    <3> HIDE DEF o
    <3> QED
      BY <3>1, <1>0, <1>2, <1>4, CoreGrows
  <2>3. end' \in 0 .. Len(wal') + 1
    BY <1>1, <1>2, <1>4, <1>6
  <2>4. (dirty \cup lost \cup promised \cup safe)' \subseteq 1 .. made'
    BY <1>2, <1>4, <1>5
  <2> QED
    BY <2>1, <2>3, <2>4, <1>0, <1>2, <1>3, <1>4, <1>6 DEF Types
<1>8. OneLine' /\ Sworn' /\ Surpassed' /\ Durable' /\ Memory' /\ Checkpoint'
  <2>1. Len(wal') = (IF op'.stage = "written" THEN end' + 1 ELSE end')
    BY <1>1, <1>2, <1>6 DEF NoOp
  <2>2. \A q \in 1 .. made : q \in dirty' => q \in dirty
    BY <1>2, <1>4
  <2> QED
    BY <2>1, <2>2, <1>1, <1>2, <1>3, <1>4, <1>5, AppendStep
<1>9. Operation'
  BY <1>1, <1>2 DEF Operation, Busy, NoOp
<1> QED
  BY <1>3, <1>7, <1>8, <1>9 DEF Good

LEMMA CompleteStep ==
  ASSUME Good, Complete
  PROVE  Good'
<1> DEFINE o == op.id
<1>0. Types /\ Past /\ Operation /\ OneLine /\ Memory /\ Checkpoint
  BY DEF Good
<1>1. /\ phase = "open" /\ ~poisoned /\ op.stage = "staged" /\ Len(wal) = end /\ Sound /\ Hist(based, core)
      /\ cp.stage \notin {"resetting", "reset", "emptied"} /\ o \in 1 .. made /\ o \notin lost /\ based[o] = core
      /\ op.start <= end /\ end = op.start + 1 /\ \A i \in Frames(walFlushed) : walFlushed[i].op # o
  <2>1. op.stage = "staged" /\ Busy
    BY DEF Complete, Busy
  <2>2. phase = "open" /\ ~poisoned
    BY <2>1, <1>0 DEF Operation, NoOp
  <2>3. cp.stage \notin {"resetting", "reset", "emptied"}
    BY <2>1, <1>0 DEF Checkpoint
  <2>4. Len(wal) = end /\ Sound /\ Hist(based, core)
    BY <2>1, <2>2, <1>0 DEF Memory
  <2> QED
    BY <2>1, <2>2, <2>3, <2>4, <1>0 DEF Operation
<1>2. /\ core' = Append(core, o) /\ wal' = Put(end, Frame(Len(core) + 1, o))
      /\ UNCHANGED <<walFlushed, slots, slotsFlushed, acks, acksFlushed, dirty, lost, phase, poisoned, newest,
                     generation, latest, cp, retry, durability, made, trouble, safe, based, soft>>
      /\ IF Strict THEN op' = [op EXCEPT !.stage = "written"] /\ end' = end /\ promised' = promised
         ELSE op' = NoOp /\ end' = end + 1 /\ promised' = promised \cup {o}
  BY DEF Complete, countVars
<1>3. Past' /\ Extends(based')
  BY <1>0, <1>2, PastStays
<1>4. /\ o \in Nat /\ made \in Nat /\ Len(core) + 1 \in Nat /\ core \in Seq(Nat) /\ Len(core) \in Nat /\ end \in Nat
      /\ Len(based) = made
  BY <1>0, Facts
<1>5. dirty \cup lost \cup promised \cup safe \subseteq 1 .. made
  BY <1>0 DEF Types
<1>6. wal' \in Seq(Cells) /\ Len(wal') = Len(wal) + 1 /\ wal'[Len(wal) + 1] = Frame(Len(core) + 1, o)
  <2>1. Frame(Len(core) + 1, o) \in Cells
    BY <1>4, CellIs
  <2> QED
    BY <2>1, <1>0, <1>1, <1>2, PutEnd
<1>7. /\ op' \in [stage : {"none", "staged", "written", "flushed", "acked"}, id : Nat, start : Nat]
      /\ Strict => op'.stage = "written" /\ op'.id = o /\ op'.start = op.start
  BY <1>0, <1>2, <1>4, SMTT(40) DEF Types, NoOp
<1>8. Types'
  <2>1. core' \in Seq(1 .. made')
    BY <1>0, <1>1, <1>2, <1>4, CoreGrows, SMTT(40)
  <2>2. end' \in 0 .. Len(wal') + 1
    BY <1>1, <1>2, <1>4, <1>6
  <2>3. (dirty \cup lost \cup promised \cup safe)' \subseteq 1 .. made'
    BY <1>1, <1>2, <1>5
  <2> QED
    BY <2>1, <2>2, <2>3, <1>0, <1>2, <1>4, <1>6, <1>7 DEF Types
<1>9. OneLine' /\ Sworn' /\ Surpassed' /\ Durable' /\ Memory' /\ Checkpoint'
  <2>1. Len(wal') = (IF op'.stage = "written" THEN end' + 1 ELSE end')
    BY <1>1, <1>2, <1>6, <1>7 DEF NoOp
  <2>2. o \in 1 .. Len(based') /\ based'[o] = core /\ promised' \subseteq promised \cup {o} /\ (Strict => promised' = promised)
    BY <1>1, <1>2, <1>4
  <2> HIDE DEF o
  <2> QED
    BY <2>1, <2>2, <1>1, <1>2, <1>3, <1>4, AppendStep
<1>10. Operation'
  <2>1. CASE Strict
    <3>1. op'.stage = "written" /\ op'.id = o /\ op'.start = op.start /\ Strict'
      BY <2>1, <1>2, <1>7 DEF Strict
    <3>2. core' = Line(based', o) /\ Len(core') = Len(core) + 1
      BY <1>1, <1>2, <1>4 DEF Line
    <3>3. wal'[end' + 1] = Frame(Len(core'), o) /\ end' <= op'.start + 1 /\ op'.start <= end'
      BY <2>1, <3>1, <3>2, <1>1, <1>2, <1>4, <1>6
    <3> QED
      BY <3>1, <3>2, <3>3, <1>1, <1>2 DEF Operation, Busy
  <2>2. CASE ~Strict
    BY <2>2, <1>1, <1>2 DEF Operation, Busy, NoOp
  <2> QED
    BY <2>1, <2>2
<1> QED
  BY <1>3, <1>8, <1>9, <1>10 DEF Good

(* The disk gains nothing and loses nothing that counts. *)
LEMMA KeptStep ==
  ASSUME Good, durability' = durability, Extends(based'),
         \A o \in promised' : o \in promised \/ Fits(o), \A o \in Firm' : o \in Firm \/ Fits(o),
         \A i \in Frames(wal') : i \in Frames(wal) /\ wal'[i] = wal[i],
         walFlushed' = walFlushed \/ \A i \in Frames(walFlushed') : i \in Frames(wal) /\ walFlushed'[i] = wal[i],
         Cores(slots)' \subseteq Cores(slots), Cores(slotsFlushed)' \subseteq Contents,
         \A n \in Nat : Reaches(n) => Reaches(n)',
         \A c \in Cores(slotsFlushed)' : c \in Cores(slotsFlushed) \/ Reaches(Len(c))',
         Strict => \A h \in Lines(based, wal) : \/ h \in Lines(based, wal)' \/ h \notin Lines(based, walFlushed)'
                                                \/ Reaches(Len(h))'
  PROVE  /\ OneLine' /\ Sworn' /\ Surpassed'
         /\ Present' \subseteq Present /\ Contents' \subseteq Contents
         /\ Lines(based, walFlushed)' \subseteq Lines(based, wal) \cup Lines(based, walFlushed)
<1> USE DEF Good
<1>1. /\ Logged(based, wal)' /\ Lines(based, wal)' \subseteq Lines(based, wal)
  <2>1. Logged(based', wal) /\ Lines(based', wal) = Lines(based, wal)
    BY LoggedStays DEF OneLine
  <2>2. Logged(based', wal') /\ Lines(based', wal') \subseteq Lines(based', wal)
    BY <2>1, Thinner
  <2> QED
    BY <2>1, <2>2
<1>2. /\ Logged(based, walFlushed)' /\ Lines(based, walFlushed)' \subseteq Lines(based, wal) \cup Lines(based, walFlushed)
      /\ Lines(based, walFlushed)' = Lines(based, walFlushed) \/ Lines(based, walFlushed)' \subseteq Lines(based, wal)
  <2>1. CASE walFlushed' = walFlushed
    <3>1. Logged(based', walFlushed) /\ Lines(based', walFlushed) = Lines(based, walFlushed)
      BY LoggedStays DEF OneLine
    <3> QED
      BY <3>1, <2>1
  <2>2. CASE \A i \in Frames(walFlushed') : i \in Frames(wal) /\ walFlushed'[i] = wal[i]
    <3>1. Logged(based', wal) /\ Lines(based', wal) = Lines(based, wal)
      BY LoggedStays DEF OneLine
    <3>2. Logged(based', walFlushed') /\ Lines(based', walFlushed') \subseteq Lines(based', wal)
      BY <3>1, <2>2, Thinner
    <3> QED
      BY <3>1, <3>2
  <2> QED
    BY <2>1, <2>2
<1>3. OneLine' /\ Sworn'
  <2> HIDE DEF Good
  <2>1. Types /\ Past /\ OneLine /\ Sworn
    BY DEF Good
  <2> QED
    BY <2>1, <1>1, <1>2, LineSteady
<1>4. Strict' = Strict
  BY DEF Strict
<1>5. Surpassed'
  <2>1. ASSUME NEW c \in Cores(slotsFlushed)'
        PROVE  Reaches(Len(c))'
    <3>1. PICK n \in Nat : n = Len(c)
      BY <2>1, DiskIs
    <3>2. CASE c \in Cores(slotsFlushed)
      <4>1. Reaches(n)
        BY <3>1, <3>2 DEF Surpassed
      <4> QED
        BY <3>1, <4>1
    <3>3. CASE Reaches(Len(c))'
      BY <3>3
    <3> QED
      BY <3>2, <3>3, <2>1
  <2>2. ASSUME Strict, NEW h \in Lines(based, walFlushed)'
        PROVE  h \in Lines(based, wal)' \/ Reaches(Len(h))'
    <3>1. PICK n \in Nat : n = Len(h)
      BY <2>2, <1>2, DiskIs DEF Present, Flushed
    <3>2. h \in Lines(based, wal) \/ Reaches(n)
      BY <2>2, <3>1, <1>2 DEF Surpassed
    <3>3. CASE h \in Lines(based, wal)
      BY <2>2, <3>3
    <3>4. CASE Reaches(n)
      BY <3>1, <3>4
    <3> QED
      BY <3>2, <3>3, <3>4
  <2> QED
    BY <2>1, <2>2, <1>4 DEF Surpassed
<1>6. Present' \subseteq Present /\ Contents' \subseteq Contents
  BY <1>1 DEF Present, Contents
<1> QED
  BY <1>2, <1>3, <1>5, <1>6

LEMMA MemoryKept ==
  ASSUME Good, phase = "open", durability' = durability, Extends(based'), core' = core,
         Present' \subseteq Present, Contents' \subseteq Contents,
         \A o \in promised' \cup Firm' : o \in promised \cup Firm \/ (o \in 1 .. made /\ Begins(Line(based, o), core)),
         Lines(based, walFlushed)' \subseteq Lines(based, wal) \cup Lines(based, walFlushed),
         ~Strict /\ cp'.stage # "none" => cp.stage # "none" \/ Lines(based, walFlushed)' \subseteq Lines(based, wal),
         latest'.seq <= Len(core),
         ~poisoned' => Len(wal') = (IF op'.stage = "written" THEN end' + 1 ELSE end') /\ Sound'
  PROVE  Memory'
<1> USE DEF Good
<1>1. Hist(based', core)
  <2>1. Hist(based, core)
    BY DEF Memory
  <2> QED
    BY <2>1, HistStays
<1>2. \A h \in Present \cup Contents : Begins(h, core)
  BY DEF Memory
<1>3. \A o \in promised' \cup Firm' : Begins(Line(based', o), core)
  <2> TAKE o \in promised' \cup Firm'
  <2>1. o \in 1 .. made /\ Begins(Line(based, o), core)
    BY SwornIs DEF Memory
  <2> QED
    BY <2>1, LineStays
<1>4. Strict' = Strict
  BY DEF Strict
<1>5. ~Strict /\ cp'.stage # "none" => \A h \in Lines(based, walFlushed)' : Begins(h, core)
  BY DEF Memory, Present
<1> QED
  BY <1>1, <1>2, <1>3, <1>4, <1>5 DEF Memory

LEMMA LineInj ==
  ASSUME Types, Past, NEW o \in 1 .. made, NEW q \in 1 .. made, Line(based, o) = Line(based, q)
  PROVE  o = q
<1>1. Len(Line(based, o)) = Place(based, o) /\ Line(based, o)[Place(based, o)] = o
  BY LineIs
<1>2. Len(Line(based, q)) = Place(based, q) /\ Line(based, q)[Place(based, q)] = q
  BY LineIs
<1> QED
  BY <1>1, <1>2

(* The end of the log changes, or what of it was flushed. *)
LEMMA LogStep ==
  ASSUME Good, phase = "open", Extends(based'),
         UNCHANGED <<durability, core, slots, slotsFlushed, acks, acksFlushed, dirty, lost, phase, newest, latest,
                     promised, safe, cp>>,
         NEW k \in 0 .. Len(wal), k <= Len(wal'), Len(wal') \in Nat, \A i \in 1 .. k : wal'[i] = wal[i],
         \A i \in Frames(wal') : i <= k,
         ~Strict => \A p \in Frames(wal) : Readable(p) => p <= k,
         walFlushed' = walFlushed \/ walFlushed' = wal' \/ (walFlushed' = wal /\ k = Len(wal)),
         Strict => walFlushed' = wal' \/ \A i \in Frames(wal) : i <= k \/ \A j \in Frames(walFlushed) : walFlushed[j].op # wal[i].op,
         ~poisoned' => Len(wal') = (IF op'.stage = "written" THEN end' + 1 ELSE end') /\ Sound',
         cp.stage \notin {"resetting", "reset", "emptied"}
  PROVE  OneLine' /\ Sworn' /\ Surpassed' /\ Durable' /\ Memory' /\ Checkpoint'
<1>0. Types /\ Past /\ OneLine /\ Durable /\ Memory /\ Checkpoint
  BY DEF Good
<1>1. /\ Cores(slots)' = Cores(slots) /\ Cores(slotsFlushed)' = Cores(slotsFlushed) /\ Contents' = Contents
      /\ Strict' = Strict
      /\ \A n \in Nat : Acked(n) => Acked(n)'
      /\ \A n \in Nat : Reaches(n) <=> Reaches(n)'
      /\ \A n \in Nat : ~Strict /\ OnDisk(n) => OnDisk(n)'
      /\ \A n \in Nat : ~Strict /\ Backed(n) => Backed(n)'
  BY <1>0, DiskStays
<1>2. Firm' = Firm
  BY <1>1 DEF Firm
<1>3. \A i \in Frames(wal') : i \in Frames(wal) /\ wal'[i] = wal[i]
  <2> TAKE i \in Frames(wal')
  <2>1. i \in 1 .. k /\ i \in 1 .. Len(wal) /\ wal'[i].k = "frame"
    BY <1>0, Facts DEF Frames
  <2> QED
    BY <2>1 DEF Frames
<1>4. walFlushed' = walFlushed \/ \A i \in Frames(walFlushed') : i \in Frames(wal) /\ walFlushed'[i] = wal[i]
  BY <1>3
<1>5. ASSUME Strict, NEW h \in Lines(based, wal)
      PROVE  \/ h \in Lines(based, wal)' \/ h \notin Lines(based, walFlushed)' \/ Reaches(Len(h))'
  <2>1. PICK i \in Frames(wal) : h = Line(based, wal[i].op)
    BY <1>5 DEF Lines
  <2>2. wal[i].op \in 1 .. made /\ i \in 1 .. Len(wal)
    BY <1>0, FrameIs
  <2>3. h = Line(based', wal[i].op)
    BY <2>1, <2>2, LineStays
  <2>4. CASE walFlushed' = wal'
    BY <2>4
  <2>5. CASE i <= k
    <3>1. i \in Frames(wal') /\ wal'[i] = wal[i]
      BY <2>1, <2>2, <2>5 DEF Frames
    <3> QED
      BY <3>1, <2>3 DEF Lines
  <2>6. CASE ~(i <= k) /\ walFlushed' # wal'
    <3>1. ~(k = Len(wal))
      BY <2>2, <2>6, <1>0, Facts
    <3>2. walFlushed' = walFlushed
      BY <3>1, <2>6
    <3>3. \A j \in Frames(walFlushed) : walFlushed[j].op # wal[i].op
      BY <1>5, <2>6
    <3>4. Logged(based, walFlushed) /\ Lines(based', walFlushed) = Lines(based, walFlushed)
      BY <1>0, LoggedStays DEF OneLine
    <3>5. \A j \in Frames(walFlushed) : walFlushed[j].op \in 1 .. made
      BY <3>4, <1>0, Facts DEF Logged
    <3>6. h \notin Lines(based, walFlushed)
      <4> SUFFICES ASSUME NEW j \in Frames(walFlushed), h = Line(based, walFlushed[j].op)
                   PROVE  FALSE
        BY DEF Lines
      <4>1. walFlushed[j].op = wal[i].op
        BY <2>1, <2>2, <3>5, <1>0, LineInj
      <4> QED
        BY <4>1, <3>3
    <3> QED
      BY <3>2, <3>4, <3>6
  <2> QED
    BY <2>4, <2>5, <2>6
<1>6. /\ OneLine' /\ Sworn' /\ Surpassed'
      /\ Present' \subseteq Present /\ Contents' \subseteq Contents
      /\ Lines(based, walFlushed)' \subseteq Lines(based, wal) \cup Lines(based, walFlushed)
  <2>1. /\ Cores(slots)' \subseteq Cores(slots) /\ Cores(slotsFlushed)' \subseteq Contents
        /\ \A c \in Cores(slotsFlushed)' : c \in Cores(slotsFlushed) \/ Reaches(Len(c))'
        /\ promised' \subseteq promised /\ Firm' \subseteq Firm
    BY <1>1, <1>2 DEF Contents
  <2> QED
    BY <2>1, <1>1, <1>3, <1>4, <1>5, KeptStep
<1>7. Memory'
  <2>1. promised' \subseteq promised /\ Firm' \subseteq Firm /\ latest'.seq <= Len(core)
    BY <1>0, <1>2 DEF Memory
  <2> QED
    BY <2>1, <1>6, MemoryKept
<1>8. Durable'
  BY <1>0, <1>1, DurableSteady
<1>9. Checkpoint'
  <2>1. SlotNow' = SlotNow
    BY DEF SlotNow
  <2> QED
    BY <2>1, <1>0, <1>1 DEF Checkpoint
<1> QED
  BY <1>6, <1>7, <1>8, <1>9

LEMMA StageStep ==
  ASSUME Good, Stage
  PROVE  Good'
<1> DEFINE o == made + 1
<1>0. Types /\ Past /\ Operation /\ OneLine /\ Memory
  BY DEF Good
<1>1. /\ phase = "open" /\ ~poisoned /\ op = NoOp /\ op.stage = "none" /\ Len(wal) = end /\ Sound
      /\ cp.stage \in {"none", "slot", "torn", "mirrored"} /\ Hist(based, core)
  BY Serving DEF Stage
<1>2. /\ made' = o /\ based' = Append(based, core) /\ wal' = Put(end, Piece(o))
      /\ walFlushed' = walFlushed \/ walFlushed' = wal'
      /\ (Strict => walFlushed' = wal') /\ (~Strict => walFlushed' = walFlushed)
      /\ end' = end + 1 /\ op' = [stage |-> "staged", id |-> o, start |-> end]
      /\ UNCHANGED <<slots, slotsFlushed, acks, acksFlushed, dirty, lost, phase, core, poisoned, newest, generation,
                     latest, cp, retry, durability, trouble, promised, safe, soft>>
  BY DEF Stage
<1>3. /\ Past' /\ Extends(based') /\ based' \in Seq(Seq(Nat)) /\ Len(based') = made' /\ o \in 1 .. Len(based') /\ based'[o] = core
  BY <1>0, <1>1, <1>2, PastGrows
<1>4. o \in Nat /\ made \in Nat /\ core \in Seq(Nat) /\ Len(core) \in Nat /\ end \in Nat /\ Len(wal) \in Nat /\ walFlushed \in Seq(Cells)
  BY <1>0, Facts
<1>5. o \notin lost /\ dirty \cup lost \cup promised \cup safe \subseteq 1 .. made
  BY <1>0, <1>4 DEF Types
<1>6. /\ wal' \in Seq(Cells) /\ Len(wal') = Len(wal) + 1 /\ wal'[Len(wal) + 1].k = "piece"
      /\ \A i \in 1 .. Len(wal) : wal'[i] = wal[i]
  <2>1. Piece(o) \in Cells /\ Piece(o).k = "piece"
    BY <1>4, CellIs
  <2> HIDE DEF o
  <2> QED
    BY <2>1, <1>0, <1>1, <1>2, PutEnd
<1>7. Types'
  <2>1. core' \in Seq(1 .. made')
    <3>1. made <= o /\ o \in 1 .. o
      BY <1>4
    <3> HIDE DEF o
    <3> QED
      BY <3>1, <1>0, <1>2, <1>4, CoreGrows
  <2>2. op' \in [stage : {"none", "staged", "written", "flushed", "acked"}, id : Nat, start : Nat]
    BY <1>2, <1>4
  <2>3. end' \in 0 .. Len(wal') + 1
    BY <1>1, <1>2, <1>4, <1>6
  <2>4. (dirty \cup lost \cup promised \cup safe)' \subseteq 1 .. made'
    BY <1>2, <1>4, <1>5
  <2> QED
    BY <2>1, <2>2, <2>3, <2>4, <1>0, <1>2, <1>3, <1>4, <1>6 DEF Types
<1>8. \A i \in Frames(wal') : i <= Len(wal)
  BY <1>4, <1>6 DEF Frames
<1>9. Sound'
  <2>1. ASSUME NEW i \in 1 .. Len(wal')
        PROVE  wal'[i].k \in Whole /\ (wal'[i].k = "frame" => wal'[i].op \notin lost')
    <3>1. CASE i \in 1 .. Len(wal)
      BY <3>1, <1>1, <1>2, <1>6 DEF Sound
    <3>2. CASE i = Len(wal) + 1
      BY <3>2, <1>6 DEF Whole
    <3> QED
      BY <3>1, <3>2, <1>4, <1>6
  <2> QED
    BY <2>1 DEF Sound
<1>10. OneLine' /\ Sworn' /\ Surpassed' /\ Durable' /\ Memory' /\ Checkpoint'
  <2>1. Len(wal') = (IF op'.stage = "written" THEN end' + 1 ELSE end')
    BY <1>1, <1>2, <1>6
  <2>2. /\ Len(wal) \in 0 .. Len(wal) /\ Len(wal) <= Len(wal') /\ Len(wal') \in Nat
        /\ \A p \in Frames(wal) : p <= Len(wal)
    BY <1>4, <1>6 DEF Frames
  <2>3. cp.stage \notin {"resetting", "reset", "emptied"}
    BY <1>1
  <2> HIDE DEF o
  <2> QED
    BY <2>1, <2>2, <2>3, <1>1, <1>2, <1>3, <1>6, <1>8, <1>9, LogStep
<1>11. Operation'
  <2>1. op'.stage = "staged" /\ op'.id = o /\ op'.start = end /\ Busy'
    BY <1>2 DEF Busy
  <2>2. wal'[end'].k = "piece"
    BY <1>1, <1>2, <1>6
  <2>3. \A i \in Frames(walFlushed') : walFlushed'[i].op # o
    <3>1. \A i \in Frames(walFlushed) : walFlushed[i].op \in 1 .. made
      BY <1>0, Facts DEF OneLine, Logged
    <3>2. \A i \in Frames(wal) : wal[i].op \in 1 .. made
      BY <1>0, Facts DEF OneLine, Logged
    <3>3. \A i \in Frames(wal') : i \in Frames(wal) /\ wal'[i] = wal[i]
      BY <1>4, <1>6, <1>8 DEF Frames
    <3> QED
      BY <3>1, <3>2, <3>3, <1>2, <1>4
  <2> QED
    BY <2>1, <2>2, <2>3, <1>1, <1>2, <1>3, <1>4, <1>5 DEF Operation
<1> QED
  BY <1>3, <1>7, <1>10, <1>11 DEF Good

(* What an operation under way has. *)
LEMMA InOperation ==
  ASSUME Good, op.stage # "none"
  PROVE  /\ phase = "open" /\ ~poisoned /\ Sound /\ Hist(based, core) /\ cp.stage \notin {"resetting", "reset", "emptied"}
         /\ op.id \in 1 .. made /\ op.start \in Nat /\ op.start <= end
         /\ Len(wal) = IF op.stage = "written" THEN end + 1 ELSE end
<1>1. Busy /\ Types /\ Operation /\ Memory /\ Checkpoint
  BY DEF Busy, Good
<1>2. phase = "open"
  BY <1>1 DEF Operation, NoOp
<1>3. ~poisoned /\ op.id \in 1 .. made /\ op.start <= end /\ op.start \in Nat
  BY <1>1, Facts DEF Operation
<1> QED
  BY <1>1, <1>2, <1>3 DEF Memory, Checkpoint

LEMMA NoOperation ==
  ASSUME op' = NoOp, phase' = "open"
  PROVE  Operation'
  BY DEF Operation, Busy, NoOp

LEMMA UnstageStep ==
  ASSUME Good, Unstage
  PROVE  Good'
<1>0. Types /\ Past /\ Operation /\ OneLine /\ Memory
  BY DEF Good
<1>1. op.stage = "staged"
  BY DEF Unstage
<1>2. /\ phase = "open" /\ ~poisoned /\ Sound /\ cp.stage \notin {"resetting", "reset", "emptied"}
      /\ op.start \in Nat /\ op.start <= end /\ Len(wal) = end
  BY <1>1, InOperation
<1>3. end = op.start + 1 /\ wal[end].k = "piece"
  BY <1>0, <1>1 DEF Operation
<1>4. /\ op' = NoOp
      /\ UNCHANGED <<slots, slotsFlushed, acks, acksFlushed, dirty, lost, phase, core, newest, generation, latest, cp,
                     retry, durability, made, trouble, promised, safe, based, soft>>
      /\ \/ wal' = Truncated(wal, op.start) /\ walFlushed' = wal' /\ end' = op.start /\ poisoned' = poisoned
         \/ poisoned' = TRUE /\ UNCHANGED <<wal, walFlushed, end>>
  BY DEF Unstage, countVars, historyVars
<1>5. Past' /\ Extends(based')
  BY <1>0, <1>4, PastStays
<1>6. /\ wal \in Seq(Cells) /\ Len(wal) \in Nat /\ end \in Nat /\ walFlushed \in Seq(Cells)
  BY <1>0, Facts
<1>7. Operation'
  BY <1>2, <1>4, NoOperation
<1>8. CASE wal' = Truncated(wal, op.start) /\ walFlushed' = wal' /\ end' = op.start /\ poisoned' = poisoned
  <2>1. op.start \in 0 .. Len(wal)
    BY <1>2, <1>3, <1>6
  <2>2. wal' \in Seq(Cells) /\ Len(wal') = op.start /\ \A i \in 1 .. op.start : wal'[i] = wal[i] /\ i \in 1 .. Len(wal)
    BY <2>1, <1>6, <1>8, TruncatedIs
  <2>3. Types'
    BY <2>2, <1>0, <1>2, <1>4, <1>8 DEF Types, NoOp
  <2>4. \A p \in Frames(wal) : p <= op.start
    BY <1>2, <1>3, <1>6 DEF Frames
  <2>5. \A i \in Frames(wal') : i <= op.start
    BY <2>2, <1>2 DEF Frames
  <2>6. Sound'
    BY <2>2, <1>2, <1>4 DEF Sound
  <2>7. Len(wal') = (IF op'.stage = "written" THEN end' + 1 ELSE end')
    BY <2>2, <1>4, <1>8 DEF NoOp
  <2>8. OneLine' /\ Sworn' /\ Surpassed' /\ Durable' /\ Memory' /\ Checkpoint'
    BY <2>1, <2>2, <2>4, <2>5, <2>6, <2>7, <1>2, <1>4, <1>5, <1>8, LogStep
  <2> QED
    BY <2>3, <2>8, <1>5, <1>7 DEF Good
<1>9. CASE poisoned' = TRUE /\ UNCHANGED <<wal, walFlushed, end>>
  <2>1. Types'
    BY <1>0, <1>4, <1>9 DEF Types, NoOp
  <2>2. Len(wal) \in 0 .. Len(wal) /\ \A p \in Frames(wal) : p <= Len(wal)
    BY <1>6 DEF Frames
  <2>3. OneLine' /\ Sworn' /\ Surpassed' /\ Durable' /\ Memory' /\ Checkpoint'
    BY <2>2, <1>2, <1>4, <1>5, <1>6, <1>9, LogStep
  <2> QED
    BY <2>1, <2>3, <1>5, <1>7 DEF Good
<1> QED
  BY <1>4, <1>8, <1>9

LEMMA AppendFailsStep ==
  ASSUME Good, NEW cut \in BOOLEAN, AppendFails(cut)
  PROVE  Good'
<1>0. Types /\ Past /\ Operation /\ OneLine /\ Memory
  BY DEF Good
<1>1. /\ phase = "open" /\ ~poisoned /\ op = NoOp /\ op.stage = "none" /\ Len(wal) = end /\ Sound
      /\ cp.stage \in {"none", "slot", "torn", "mirrored"}
  BY Serving DEF AppendFails
<1>2. /\ wal' = Truncated(wal, end) \/ wal' = Put(end, Short)
      /\ poisoned' = TRUE /\ trouble' = trouble + 1
      /\ UNCHANGED <<walFlushed, slots, slotsFlushed, acks, acksFlushed, dirty, lost, phase, core, end, newest,
                     generation, latest, op, cp, retry, durability, made, promised, safe, based, soft>>
  BY DEF AppendFails, stepVars, historyVars
<1>3. Past' /\ Extends(based')
  BY <1>0, <1>2, PastStays
<1>4. /\ wal \in Seq(Cells) /\ Len(wal) \in Nat /\ end \in Nat
  BY <1>0, Facts
<1>5. /\ wal' \in Seq(Cells) /\ Len(wal') \in {Len(wal), Len(wal) + 1} /\ \A i \in 1 .. Len(wal) : wal'[i] = wal[i]
      /\ \A i \in Frames(wal') : i <= Len(wal)
  <2>1. CASE wal' = Truncated(wal, end)
    <3>1. wal' \in Seq(Cells) /\ Len(wal') = end /\ \A i \in 1 .. end : wal'[i] = wal[i]
      BY <2>1, <1>1, <1>4, TruncatedIs
    <3> QED
      BY <3>1, <1>1, <1>4 DEF Frames
  <2>2. CASE wal' = Put(end, Short)
    <3>1. Short \in Cells /\ Short.k = "short"
      BY CellIs
    <3>2. /\ wal' \in Seq(Cells) /\ Len(wal') = Len(wal) + 1 /\ wal'[Len(wal) + 1] = Short
          /\ \A i \in 1 .. Len(wal) : wal'[i] = wal[i]
      BY <2>2, <3>1, <1>0, <1>1, PutEnd
    <3>3. \A i \in Frames(wal') : i <= Len(wal)
      BY <3>1, <3>2, <1>4 DEF Frames
    <3> QED
      BY <3>2, <3>3
  <2> QED
    BY <2>1, <2>2, <1>2
<1>6. Types'
  BY <1>0, <1>1, <1>2, <1>4, <1>5 DEF Types
<1>7. Operation'
  BY <1>1, <1>2, NoOperation
<1>8. OneLine' /\ Sworn' /\ Surpassed' /\ Durable' /\ Memory' /\ Checkpoint'
  <2>1. Len(wal) \in 0 .. Len(wal) /\ (\A p \in Frames(wal) : p <= Len(wal)) /\ Len(wal) <= Len(wal') /\ Len(wal') \in Nat
        /\ cp.stage \notin {"resetting", "reset", "emptied"}
    BY <1>1, <1>4, <1>5 DEF Frames
  <2> QED
    BY <2>1, <1>1, <1>2, <1>3, <1>5, LogStep
<1> QED
  BY <1>3, <1>6, <1>7, <1>8 DEF Good

LEMMA FlushFrameStep ==
  ASSUME Good, FlushFrame
  PROVE  Good'
<1>0. Types /\ Past /\ Operation /\ OneLine /\ Memory
  BY DEF Good
<1>1. op.stage = "written"
  BY DEF FlushFrame
<1>2. /\ phase = "open" /\ ~poisoned /\ Sound /\ cp.stage \notin {"resetting", "reset", "emptied"}
      /\ op.id \in 1 .. made /\ op.start \in Nat /\ op.start <= end /\ Len(wal) = end + 1
  BY <1>1, InOperation
<1>3. /\ walFlushed' = wal /\ end' = end + 1 /\ op' = [op EXCEPT !.stage = "flushed"]
      /\ UNCHANGED <<wal, slots, slotsFlushed, acks, acksFlushed, dirty, lost, phase, core, poisoned, newest,
                     generation, latest, cp, retry, durability, made, trouble, promised, safe, based, soft>>
  BY DEF FlushFrame, countVars, historyVars
<1>4. Past' /\ Extends(based')
  BY <1>0, <1>3, PastStays
<1>5. wal \in Seq(Cells) /\ Len(wal) \in Nat /\ end \in Nat
  BY <1>0, Facts
<1>6. op'.stage = "flushed" /\ op'.id = op.id /\ op'.start = op.start
      /\ op' \in [stage : {"none", "staged", "written", "flushed", "acked"}, id : Nat, start : Nat]
  BY <1>0, <1>3 DEF Types
<1>7. Types'
  <2>1. end' \in 0 .. Len(wal') + 1 /\ walFlushed' \in Seq(Cells)
    BY <1>2, <1>3, <1>5
  <2> QED
    BY <2>1, <1>0, <1>3, <1>6 DEF Types
<1>8. Operation'
  <2>1. Strict' /\ core' = Line(based', op'.id)
    BY <1>0, <1>1, <1>3, <1>6 DEF Operation, Strict, Line
  <2> QED
    BY <2>1, <1>2, <1>3, <1>5, <1>6 DEF Operation, Busy
<1>9. OneLine' /\ Sworn' /\ Surpassed' /\ Durable' /\ Memory' /\ Checkpoint'
  <2>1. Len(wal) \in 0 .. Len(wal) /\ \A p \in Frames(wal) : p <= Len(wal)
    BY <1>5 DEF Frames
  <2>2. Sound'
    BY <1>2, <1>3 DEF Sound
  <2>3. Len(wal') = (IF op'.stage = "written" THEN end' + 1 ELSE end')
    BY <1>2, <1>3, <1>6
  <2> QED
    BY <2>1, <2>2, <2>3, <1>2, <1>3, <1>4, <1>5, LogStep
<1> QED
  BY <1>4, <1>7, <1>8, <1>9 DEF Good

LEMMA FrameFailsStep ==
  ASSUME Good, NEW keep, FrameFails(keep)
  PROVE  Good'
<1>0. Types /\ Past /\ Operation /\ OneLine /\ Memory
  BY DEF Good
<1>1. op.stage = "written" /\ Strict
  BY <1>0 DEF FrameFails, Operation
<1>2. /\ phase = "open" /\ ~poisoned /\ Sound /\ cp.stage \notin {"resetting", "reset", "emptied"}
      /\ op.id \in 1 .. made /\ op.start \in Nat /\ op.start <= end /\ Len(wal) = end + 1
  BY <1>1, InOperation
<1>3. /\ wal' = Truncated(wal, keep) /\ keep \in {op.start, end, end + 1}
      /\ walFlushed' = IF keep < end THEN wal' ELSE walFlushed
      /\ poisoned' = TRUE /\ op' = NoOp /\ trouble' = trouble + 1
      /\ UNCHANGED <<slots, slotsFlushed, acks, acksFlushed, dirty, lost, phase, core, end, newest, generation, latest,
                     cp, retry, durability, made, promised, safe, based, soft>>
  BY DEF FrameFails, historyVars
<1>4. Past' /\ Extends(based')
  BY <1>0, <1>3, PastStays
<1>5. wal \in Seq(Cells) /\ Len(wal) \in Nat /\ end \in Nat /\ walFlushed \in Seq(Cells)
  BY <1>0, Facts
<1>6. wal[end + 1].op = op.id /\ end <= op.start + 1 /\ \A i \in Frames(walFlushed) : walFlushed[i].op # op.id
  <2>1. wal[end + 1] = Frame(Len(core), op.id)
    BY <1>0, <1>1 DEF Operation
  <2>2. wal[end + 1].op = op.id
    BY <2>1 DEF Frame
  <2> QED
    BY <2>2, <1>0, <1>1 DEF Operation
<1>7. keep \in 0 .. Len(wal) /\ keep \in Nat
  BY <1>2, <1>3, <1>5
<1>8. wal' \in Seq(Cells) /\ Len(wal') = keep /\ \A i \in 1 .. keep : wal'[i] = wal[i]
  BY <1>3, <1>5, <1>7, TruncatedIs
<1>9. Types'
  <2>1. walFlushed' \in Seq(Cells)
    BY <1>3, <1>5, <1>8
  <2>2. end \in 0 .. keep + 1
    BY <1>2, <1>3, <1>5, <1>6, <1>7
  <2>3. trouble' \in Nat
    BY <1>0, <1>3 DEF Types
  <2> QED
    BY <2>1, <2>2, <2>3, <1>0, <1>3, <1>8 DEF Types, NoOp
<1>10. Operation'
  BY <1>2, <1>3, NoOperation
<1>11. walFlushed' = wal' \/ \A i \in Frames(wal) : i <= keep \/ \A j \in Frames(walFlushed) : walFlushed[j].op # wal[i].op
  <2> SUFFICES ASSUME walFlushed' # wal', NEW i \in Frames(wal), ~(i <= keep)
               PROVE  wal[i].op = op.id
    BY <1>6
  <2>1. ~(keep < end)
    BY <1>3
  <2>2. i = end + 1
    BY <2>1, <1>2, <1>3, <1>5 DEF Frames
  <2> QED
    BY <2>2, <1>6
<1>12. \A i \in Frames(wal') : i <= keep
  BY <1>7, <1>8 DEF Frames
<1>13. OneLine' /\ Sworn' /\ Surpassed' /\ Durable' /\ Memory' /\ Checkpoint'
  BY <1>1, <1>2, <1>3, <1>4, <1>7, <1>8, <1>11, <1>12, LogStep
<1> QED
  BY <1>4, <1>9, <1>10, <1>13 DEF Good

(***************************************************************************)
(* Acknowledgements and checkpoints leave the log as it is.                *)
(***************************************************************************)
LEMMA StandingStays ==
  ASSUME Types, phase = "open", phase' = "open", newest' = newest, slots'[newest] = slots[newest], NEW n
  PROVE  Reaches(n) <=> Reaches(n)'
  BY DEF Reaches, Standing

LEMMA LogStays ==
  ASSUME Types, Past, OneLine, lost' = lost, wal' = wal, dirty' \subseteq dirty,
         walFlushed' = walFlushed \/ walFlushed' = wal,
         \A n \in Nat : Reaches(n) => Reaches(n)', \A n \in Nat : Acked(n) => Acked(n)'
  PROVE  /\ \A n \in Nat : OnDisk(n) => OnDisk(n)'
         /\ \A n \in Nat : Backed(n) => Backed(n)'
<1>1. Len(wal) \in 0 .. Len(wal) /\ Len(wal) \in Nat /\ \A p \in Frames(wal) : p <= Len(wal)
  BY Facts DEF Frames
<1>2. \A n \in Nat : OnDisk(n) => OnDisk(n)'
  BY <1>1, OnDiskStays
<1>3. \A n \in Nat : Backed(n) => Backed(n)'
  BY <1>1, BackedStays
<1> QED
  BY <1>2, <1>3

(* An acknowledgement does not go back. *)
LEMMA PublishIs ==
  ASSUME Types, phase = "open", phase' = "open", NEW s \in Nat, NEW e \in Nat, latest.seq <= s, Publish(s, e),
         acksFlushed' = acksFlushed
  PROVE  /\ \A n \in Nat : Acked(n) => Acked(n)'
         /\ acks' \in [0 .. 1 -> AckContents] /\ latest' = Ack(s, e) /\ latest' \in AckContents /\ latest'.seq = s
         /\ acks'[s % 2] = Ack(s, e) /\ Ack(s, e).valid /\ Ack(s, e).seq = s
<1>1. s % 2 \in 0 .. 1 /\ Ack(s, e) \in AckContents /\ Ack(s, e).valid /\ Ack(s, e).seq = s
  BY DEF Ack, AckContents
<1>2. acks' = [acks EXCEPT ![s % 2] = Ack(s, e)] /\ latest' = Ack(s, e)
  BY DEF Publish
<1>3. acks \in [0 .. 1 -> AckContents] /\ latest.seq \in Nat
  BY Facts DEF Types
<1>4. acks' \in [0 .. 1 -> AckContents] /\ acks'[s % 2] = Ack(s, e) /\ \A i \in 0 .. 1 : i # s % 2 => acks'[i] = acks[i]
  BY <1>1, <1>2, <1>3
<1>5. ASSUME NEW n \in Nat, Acked(n)
      PROVE  Acked(n)'
  <2>1. n <= latest.seq /\ n <= s
    BY <1>3, <1>5 DEF Acked
  <2>2. PICK i \in 0 .. 1 : (acks[i].valid => n <= acks[i].seq) /\ (acksFlushed[i].valid => n <= acksFlushed[i].seq)
    BY <1>5 DEF Acked
  <2>3. acks'[i].valid => n <= acks'[i].seq
    BY <2>1, <2>2, <1>1, <1>4
  <2> QED
    BY <2>1, <2>2, <2>3, <1>1, <1>2 DEF Acked
<1> QED
  BY <1>1, <1>2, <1>4, <1>5

(* Only the acknowledgements change, or a checkpoint goes on or ends. *)
LEMMA StillStep ==
  ASSUME Good, phase = "open",
         UNCHANGED <<durability, based, made, core, promised, safe, slots, slotsFlushed, wal, lost, phase, newest>>,
         walFlushed' = walFlushed \/ walFlushed' = wal, dirty' \subseteq dirty,
         \A n \in Nat : Acked(n) => Acked(n)', latest'.seq <= Len(core),
         cp'.stage # "none" => (cp.stage # "none" /\ cp'.core = cp.core)
                               \/ (~Strict => Backed(Len(cp.core))' /\ walFlushed' = wal),
         ~poisoned' => ~poisoned /\ Len(wal) = (IF op'.stage = "written" THEN end' + 1 ELSE end')
  PROVE  Past' /\ OneLine' /\ Sworn' /\ Surpassed' /\ Durable' /\ Memory' /\ Contents' = Contents
<1>0. Types /\ Past /\ OneLine /\ Durable /\ Memory
  BY DEF Good
<1>1. Past' /\ Extends(based')
  BY <1>0, PastStays
<1>2. \A n \in Nat : Reaches(n) <=> Reaches(n)'
  BY <1>0, StandingStays
<1>3. /\ Cores(slots)' = Cores(slots) /\ Cores(slotsFlushed)' = Cores(slotsFlushed) /\ Contents' = Contents
      /\ Strict' = Strict /\ Firm' = Firm
  BY DEF Cores, Contents, Strict, Firm
<1>4. (\A n \in Nat : OnDisk(n) => OnDisk(n)') /\ (\A n \in Nat : Backed(n) => Backed(n)')
  BY <1>0, <1>2, LogStays
<1>5. Lines(based, wal)' = Lines(based, wal)
  BY DEF Lines
<1>6. /\ OneLine' /\ Sworn' /\ Surpassed'
      /\ Present' \subseteq Present /\ Contents' \subseteq Contents
      /\ Lines(based, walFlushed)' \subseteq Lines(based, wal) \cup Lines(based, walFlushed)
  <2>1. \A i \in Frames(wal') : i \in Frames(wal) /\ wal'[i] = wal[i]
    BY DEF Frames
  <2>2. walFlushed' = walFlushed \/ \A i \in Frames(walFlushed') : i \in Frames(wal) /\ walFlushed'[i] = wal[i]
    BY DEF Frames
  <2>3. /\ Cores(slots)' \subseteq Cores(slots) /\ Cores(slotsFlushed)' \subseteq Contents
        /\ \A c \in Cores(slotsFlushed)' : c \in Cores(slotsFlushed)
        /\ \A o \in promised' : o \in promised
        /\ \A o \in Firm' : o \in Firm
        /\ \A h \in Lines(based, wal) : h \in Lines(based, wal)'
    BY <1>3, <1>5 DEF Contents
  <2> QED
    BY <2>1, <2>2, <2>3, <1>1, <1>2, KeptStep
<1>7. Memory'
  <2>1. ~poisoned' => Sound'
    BY <1>0 DEF Memory, Sound
  <2>2. ~Strict /\ cp'.stage # "none" => cp.stage # "none" \/ Lines(based, walFlushed)' \subseteq Lines(based, wal)
    <3>1. walFlushed' = wal => Lines(based, walFlushed)' = Lines(based, wal)
      BY DEF Lines
    <3> QED
      BY <3>1
  <2>3. \A o \in promised' \cup Firm' : o \in promised \cup Firm
    BY <1>3
  <2> QED
    BY <2>1, <2>2, <2>3, <1>1, <1>6, MemoryKept
<1>8. Durable'
  BY <1>0, <1>1, <1>3, <1>4, DurableSteady
<1> QED
  BY <1>1, <1>3, <1>6, <1>7, <1>8

LEMMA PublishFrameStep ==
  ASSUME Good, PublishFrame
  PROVE  Good'
<1>0. Types /\ Operation /\ Memory /\ Checkpoint
  BY DEF Good
<1>1. op.stage = "flushed"
  BY DEF PublishFrame
<1>2. /\ phase = "open" /\ ~poisoned /\ cp.stage \notin {"resetting", "reset", "emptied"} /\ op.id \in 1 .. made
      /\ op.start \in Nat /\ op.start <= end /\ Len(wal) = end
  BY <1>1, InOperation
<1>3. /\ Publish(Len(core), end) /\ op' = [op EXCEPT !.stage = "acked"]
      /\ UNCHANGED <<wal, walFlushed, slots, slotsFlushed, acksFlushed, dirty, lost, phase, core, poisoned, end,
                     newest, generation, cp, retry, durability, made, trouble, promised, safe, based, soft>>
  BY DEF PublishFrame, countVars, historyVars
<1>4. Len(core) \in Nat /\ end \in Nat /\ latest.seq <= Len(core)
  BY <1>0, <1>2, Facts DEF Memory
<1>5. /\ \A n \in Nat : Acked(n) => Acked(n)'
      /\ acks' \in [0 .. 1 -> AckContents] /\ latest' \in AckContents /\ latest'.seq = Len(core)
      /\ acks'[Len(core) % 2].valid /\ acks'[Len(core) % 2].seq = Len(core)
  BY <1>0, <1>2, <1>3, <1>4, PublishIs
<1>6. op'.stage = "acked" /\ op'.id = op.id /\ op'.start = op.start
      /\ op' \in [stage : {"none", "staged", "written", "flushed", "acked"}, id : Nat, start : Nat]
  BY <1>0, <1>3 DEF Types
<1>7. Types'
  BY <1>0, <1>3, <1>5, <1>6 DEF Types
<1>8. Past' /\ OneLine' /\ Sworn' /\ Surpassed' /\ Durable' /\ Memory' /\ Contents' = Contents
  BY <1>2, <1>3, <1>4, <1>5, <1>6, StillStep
<1>9. Operation'
  <2>1. Strict' /\ core' = Line(based', op'.id)
    BY <1>0, <1>1, <1>3, <1>6 DEF Operation, Strict, Line
  <2>2. Stamped'
    BY <1>3, <1>5 DEF Stamped
  <2> QED
    BY <2>1, <2>2, <1>2, <1>3, <1>6 DEF Operation, Busy
<1>10. Checkpoint'
  <2>1. SlotNow' = SlotNow
    BY <1>3 DEF SlotNow
  <2> QED
    BY <2>1, <1>0, <1>2, <1>3, <1>8 DEF Checkpoint
<1> QED
  BY <1>7, <1>8, <1>9, <1>10 DEF Good

LEMMA PublishFailsStep ==
  ASSUME Good, NEW torn \in BOOLEAN, PublishFails(torn)
  PROVE  Good'
<1>0. Types /\ Operation /\ Memory /\ Checkpoint
  BY DEF Good
<1>1. op.stage # "none"
  BY DEF PublishFails
<1>2. phase = "open" /\ cp.stage \notin {"resetting", "reset", "emptied"}
  BY <1>1, InOperation
<1>3. /\ acks' = [acks EXCEPT ![Len(core) % 2] = TornAck] \/ acks' = acks
      /\ poisoned' = TRUE /\ op' = NoOp /\ trouble' = trouble + 1
      /\ UNCHANGED <<wal, walFlushed, slots, slotsFlushed, acksFlushed, dirty, lost, phase, core, end, newest,
                     generation, latest, cp, retry, durability, made, promised, safe, based, soft>>
  BY DEF PublishFails, historyVars
<1>4. TornAck \in AckContents /\ ~TornAck.valid /\ Len(core) % 2 \in 0 .. 1 /\ latest.seq <= Len(core)
  BY <1>0, <1>2, Facts DEF TornAck, AckContents, Memory
<1>5. acks' \in [0 .. 1 -> AckContents] /\ \A i \in 0 .. 1 : acks'[i] = acks[i] \/ ~acks'[i].valid
  BY <1>0, <1>3, <1>4 DEF Types
<1>6. \A n \in Nat : Acked(n) => Acked(n)'
  BY <1>2, <1>3, <1>5, AckedStays
<1>7. Types'
  BY <1>0, <1>3, <1>5 DEF Types, NoOp
<1>8. Past' /\ OneLine' /\ Sworn' /\ Surpassed' /\ Durable' /\ Memory' /\ Contents' = Contents
  BY <1>2, <1>3, <1>4, <1>6, StillStep
<1>9. Operation'
  BY <1>2, <1>3, NoOperation
<1>10. Checkpoint'
  <2>1. SlotNow' = SlotNow
    BY <1>3 DEF SlotNow
  <2> QED
    BY <2>1, <1>0, <1>2, <1>3, <1>8 DEF Checkpoint
<1> QED
  BY <1>7, <1>8, <1>9, <1>10 DEF Good

(* What is promised now is the whole core. *)
LEMMA AcknowledgeStep ==
  ASSUME Good, Acknowledge
  PROVE  Good'
<1>0. Types /\ Past /\ OneLine /\ Operation /\ Durable /\ Memory /\ Checkpoint
  BY DEF Good
<1> DEFINE o == op.id
<1>1. op.stage = "acked" /\ Strict /\ core = Line(based, o) /\ Stamped
  BY <1>0 DEF Acknowledge, Operation
<1>2. /\ phase = "open" /\ ~poisoned /\ Sound /\ cp.stage \notin {"resetting", "reset", "emptied"} /\ o \in 1 .. made
      /\ Len(wal) = end
  BY <1>1, InOperation
<1>3. /\ acksFlushed' = acks /\ op' = NoOp /\ promised' = promised \cup {o}
      /\ UNCHANGED <<wal, walFlushed, slots, slotsFlushed, acks, dirty, lost, phase, core, poisoned, end, newest,
                     generation, latest, cp, retry, durability, made, trouble, safe, based, soft>>
  BY DEF Acknowledge, memoryVars, countVars
<1>4. Past' /\ Extends(based')
  BY <1>0, <1>3, PastStays
<1>5. Types'
  BY <1>0, <1>2, <1>3 DEF Types, NoOp
<1>6. /\ Cores(slots)' = Cores(slots) /\ Cores(slotsFlushed)' = Cores(slotsFlushed) /\ Contents' = Contents
      /\ Strict' = Strict /\ Lines(based, wal)' = Lines(based, wal) /\ Lines(based, walFlushed)' = Lines(based, walFlushed)
      /\ (\A n \in Nat : Reaches(n) <=> Reaches(n)') /\ Firm' = Firm \cup {o}
  BY <1>1, <1>3 DEF Cores, Contents, Strict, Lines, Reaches, Standing, Firm
<1>7. \A n \in Nat : Acked(n) => Acked(n)'
  BY <1>2, <1>3, AckedStays
<1>8. (\A n \in Nat : OnDisk(n) => OnDisk(n)') /\ (\A n \in Nat : Backed(n) => Backed(n)')
  BY <1>0, <1>3, <1>6, <1>7, LogStays
<1>9. core \in Seq(Nat) /\ Begins(core, core) /\ Place(based, o) = Len(core) /\ Len(core) \in Nat
  BY <1>0, <1>1, <1>2, Facts, LineIs, BeginsRefl
<1>10. Fits(o)
  <2>1. \A h \in Present \cup Flushed : h \in Seq(Nat)
    BY <1>0, DiskIs
  <2>2. \A h \in Present \cup Flushed : Begins(h, core)
    BY <1>0, <1>1, <1>2, FlushedBegins DEF Memory
  <2>3. \A h \in Present \cup Flushed : Agree(core, h)
    BY <2>1, <2>2, <1>0, <1>9, UnderCore
  <2> QED
    BY <2>3, <1>1, <1>2 DEF Fits
<1>11. /\ OneLine' /\ Sworn' /\ Surpassed'
       /\ Present' \subseteq Present /\ Contents' \subseteq Contents
  <2>1. /\ \A q \in promised' : q \in promised \/ Fits(q)
        /\ \A q \in Firm' : q \in Firm \/ Fits(q)
    BY <1>3, <1>6, <1>10
  <2>2. /\ \A i \in Frames(wal') : i \in Frames(wal) /\ wal'[i] = wal[i]
        /\ Cores(slotsFlushed)' \subseteq Contents
    BY <1>3, <1>6 DEF Contents
  <2> HIDE DEF o
  <2> QED
    BY <2>1, <2>2, <1>3, <1>4, <1>6, KeptStep
<1>12. Memory'
  <2>1. \A q \in promised' \cup Firm' : q \in promised \cup Firm \/ (q \in 1 .. made /\ Begins(Line(based, q), core))
    BY <1>1, <1>2, <1>3, <1>6, <1>9
  <2>2. Sound' /\ latest'.seq <= Len(core) /\ Len(wal') = (IF op'.stage = "written" THEN end' + 1 ELSE end')
    BY <1>0, <1>2, <1>3 DEF Sound, Memory, NoOp
  <2>3. durability' = durability /\ core' = core /\ phase = "open" /\ (~Strict /\ cp'.stage # "none" => cp.stage # "none")
    BY <1>2, <1>3
  <2> HIDE DEF o
  <2> QED
    BY <2>1, <2>2, <2>3, <1>4, <1>6, <1>11, MemoryKept
<1>13. Durable'
  <2>1. PICK q \in 1 .. made : q = o
    BY <1>2
  <2>2. Acked(Place(based, q))'
    <3>1. PICK n \in Nat : n = Len(core) /\ n = Len(core')
      BY <1>3, <1>9
    <3>2. n % 2 \in 0 .. 1
      OBVIOUS
    <3>3. acks[n % 2].valid /\ acks[n % 2].seq = n /\ latest.seq = n
      BY <3>1, <1>1 DEF Stamped
    <3>4. Acked(n)'
      BY <3>2, <3>3, <1>3 DEF Acked
    <3>5. n = Place(based, q)'
      BY <2>1, <3>1, <1>3, <1>9 DEF Place
    <3> QED
      BY <3>4, <3>5
  <2>3. \A p \in promised' : p \in promised \/ p = q
    BY <2>1, <1>3
  <2>4. /\ durability' = durability /\ \A c \in Contents' : c \in Contents
        /\ cp' = cp /\ safe' = safe /\ phase = "open" /\ phase' = "open" /\ core' = core
    BY <1>2, <1>3, <1>6
  <2> HIDE DEF o
  <2> QED
    BY <2>2, <2>3, <2>4, <1>0, <1>3, <1>4, <1>6, <1>7, <1>8, DurableSteady
<1>14. Operation'
  BY <1>2, <1>3, NoOperation
<1>15. Checkpoint'
  <2>1. SlotNow' = SlotNow
    BY <1>3 DEF SlotNow
  <2> QED
    BY <2>1, <1>0, <1>2, <1>3, <1>6 DEF Checkpoint
<1> QED
  BY <1>4, <1>5, <1>11, <1>12, <1>13, <1>14, <1>15 DEF Good

LEMMA InCheckpoint ==
  ASSUME Good, cp.stage # "none"
  PROVE  /\ phase = "open" /\ Hist(based, core) /\ latest.seq <= Len(core) /\ Len(core) \in Nat /\ core \in Seq(Nat)
         /\ (~poisoned => Len(wal) = (IF op.stage = "written" THEN end + 1 ELSE end) /\ Sound)
         /\ Begins(cp.core, core) /\ cp.core \in Seq(Nat) /\ Len(cp.core) <= Len(core) /\ Len(cp.core) \in Nat
         /\ newest \in 0 .. 1
<1>1. Types /\ Operation /\ Memory /\ Checkpoint
  BY DEF Good
<1>2. phase = "open"
  BY <1>1 DEF Operation, NoCheckpoint
<1> QED
  BY <1>1, <1>2, Facts DEF Memory, Checkpoint, Begins, Types

LEMMA EndedIs ==
  ASSUME Types
  PROVE  /\ Ended.stage = "none"
         /\ Ended \in [stage : CheckpointStages, mirror : BOOLEAN, slot : 0 .. 1, closing : BOOLEAN, gen : Nat,
                       core : Seq(Nat), end : Nat]
<1>1. cp.closing \in BOOLEAN /\ << >> \in Seq(Nat)
  BY DEF Types
<1>2. Ended.stage = "none"
  BY DEF Ended, NoCheckpoint
<1>3. NoCheckpoint \in [stage : CheckpointStages, mirror : BOOLEAN, slot : 0 .. 1, closing : BOOLEAN, gen : Nat,
                        core : Seq(Nat), end : Nat]
  BY <1>1 DEF NoCheckpoint, CheckpointStages
<1>4. PICK r \in [stage : CheckpointStages, mirror : BOOLEAN, slot : 0 .. 1, closing : BOOLEAN, gen : Nat,
                  core : Seq(Nat), end : Nat] : r = NoCheckpoint
  BY <1>3
<1>5. Ended = [r EXCEPT !.closing = cp.closing]
  BY <1>4 DEF Ended
<1> QED
  BY <1>1, <1>2, <1>5

(* No operation is under way, or the one under way is left alone. *)
LEMMA OperationKept ==
  ASSUME Operation, phase = "open",
         UNCHANGED <<durability, phase, op, poisoned, made, based, core, end, wal, walFlushed, acks, latest, lost>>
  PROVE  Operation'
<1>1. Strict' = Strict /\ Busy' = Busy /\ Stamped' = Stamped
  BY DEF Strict, Busy, Stamped
<1>2. Frames(walFlushed') = Frames(walFlushed) /\ Line(based', op'.id) = Line(based, op.id)
  BY DEF Frames, Line
<1> QED
  BY <1>1, <1>2 DEF Operation

LEMMA BeginCheckpointStep ==
  ASSUME Good, NEW closing \in BOOLEAN, BeginCheckpoint(closing)
  PROVE  Good'
<1>0. Types /\ Past /\ OneLine /\ Durable /\ Memory /\ Checkpoint
  BY DEF Good
<1>1. /\ phase = "open" /\ ~poisoned /\ op = NoOp /\ op.stage = "none" /\ Len(wal) = end /\ Sound
  BY Serving DEF BeginCheckpoint
<1>2. /\ cp' = [stage |-> "slot", mirror |-> FALSE, closing |-> closing, slot |-> CheckpointSlot,
                gen |-> generation + 1, core |-> core, end |-> end]
      /\ (Strict => walFlushed' = walFlushed /\ dirty' = dirty)
      /\ (~Strict => walFlushed' = wal /\ dirty' = {})
      /\ trouble' \in {trouble, trouble + 1}
      /\ UNCHANGED <<wal, slots, slotsFlushed, acks, acksFlushed, lost, phase, core, poisoned, end, newest,
                     generation, latest, op, retry, durability, made, promised, safe, based, soft>>
  BY DEF BeginCheckpoint, memoryVars, historyVars
<1>3. core \in Seq(Nat) /\ Len(core) \in Nat /\ end \in Nat /\ wal \in Seq(Cells) /\ latest.seq <= Len(core)
  BY <1>0, <1>1, Facts DEF Memory
<1>4. Types'
  <2>1. cp' \in [stage : CheckpointStages, mirror : BOOLEAN, slot : 0 .. 1, closing : BOOLEAN, gen : Nat,
                 core : Seq(Nat), end : Nat]
    <3>1. CheckpointSlot \in 0 .. 1 /\ generation + 1 \in Nat
      BY <1>0 DEF CheckpointSlot, Types
    <3> QED
      BY <3>1, <1>2, <1>3 DEF CheckpointStages
  <2>2. walFlushed' \in Seq(Cells) /\ dirty' \subseteq dirty /\ trouble' \in Nat
    BY <1>0, <1>2, <1>3 DEF Types
  <2> QED
    BY <2>1, <2>2, <1>0, <1>2 DEF Types
<1>5. /\ \A n \in Nat : Acked(n) => Acked(n)'
      /\ \A n \in Nat : Reaches(n) => Reaches(n)'
  BY <1>2 DEF Acked, Reaches, Standing
<1>6. \A n \in Nat : Backed(n) => Backed(n)'
  <2>1. dirty' \subseteq dirty /\ (walFlushed' = walFlushed \/ walFlushed' = wal)
    BY <1>2
  <2> QED
    BY <2>1, <1>0, <1>2, <1>5, LogStays
<1>7. ASSUME ~Strict
      PROVE  Backed(Len(cp.core))'
  <2>1. PICK n \in Nat : n = Len(core)
    BY <1>3
  <2>2. n = Len(cp'.core)
    BY <2>1, <1>2
  <2>3. Backed(n)'
    <3>1. CASE n = 0
      BY <3>1 DEF Backed
    <3>2. CASE Reaches(n)
      <4>1. PICK i \in 0 .. 1 : slots[i].state = "valid" /\ n <= Len(slots[i].core)
        BY <3>2, <1>0 DEF Reaches, Standing, Types
      <4>2. PICK c \in Contents : c = slots[i].core
        BY <4>1 DEF Contents, Cores
      <4>3. Backed(Len(c)) /\ Len(c) \in Nat /\ n <= Len(c)
        BY <4>1, <4>2, <1>0, <1>7, DiskIs DEF Durable
      <4>4. Backed(n)
        BY <4>3, <1>0, BackedLess
      <4> QED
        BY <4>4, <1>6
    <3>3. ASSUME NEW p \in Frames(wal), Readable(p), n <= wal[p].seq
          PROVE  Backed(n)'
      <4>1. Readable(p)' /\ p \in Frames(wal') /\ n <= wal'[p].seq
        BY <3>3, <1>2 DEF Readable, Frames
      <4>2. p <= Len(walFlushed') /\ \A i \in 1 .. p : wal'[i] = walFlushed'[i] /\ (wal'[i].k = "frame" => wal'[i].op \notin dirty')
        BY <1>2, <1>3, <1>7 DEF Frames
      <4> QED
        BY <4>1, <4>2 DEF Backed
    <3>4. OnDisk(n)
      BY <2>1, <1>0, <1>1, <1>7 DEF Durable
    <3> QED
      BY <3>1, <3>2, <3>3, <3>4 DEF OnDisk
  <2> QED
    BY <2>2, <2>3
<1>8. Past' /\ OneLine' /\ Sworn' /\ Surpassed' /\ Durable' /\ Memory' /\ Contents' = Contents
  <2>1. dirty' \subseteq dirty /\ (walFlushed' = walFlushed \/ walFlushed' = wal) /\ (~Strict => walFlushed' = wal)
    BY <1>2
  <2>2. Len(wal) = (IF op'.stage = "written" THEN end' + 1 ELSE end')
    BY <1>1, <1>2
  <2> QED
    BY <2>1, <2>2, <1>1, <1>2, <1>3, <1>5, <1>7, StillStep
<1>9. Operation'
  BY <1>1, <1>2, NoOperation
<1>10. Checkpoint'
  <2>1. Begins(core, core)
    BY <1>3, BeginsRefl
  <2>2. \A c \in Contents : Len(c) <= Len(core)
    BY <1>0, <1>1 DEF Memory, Begins
  <2>3. cp'.stage = "slot" /\ ~cp'.mirror /\ cp'.slot = 1 - newest' /\ cp'.core = core'
    BY <1>2 DEF CheckpointSlot
  <2> QED
    BY <2>1, <2>2, <2>3, <1>2, <1>8 DEF Checkpoint
<1> QED
  BY <1>4, <1>8, <1>9, <1>10 DEF Good

LEMMA CheckpointFailsStep ==
  ASSUME Good, CheckpointFails
  PROVE  Good'
<1>0. Types /\ Operation
  BY DEF Good
<1>1. cp.stage # "none" /\ op = NoOp
  BY <1>0 DEF CheckpointFails, Operation, Busy
<1>2. /\ phase = "open" /\ latest.seq <= Len(core)
      /\ (~poisoned => Len(wal) = (IF op.stage = "written" THEN end + 1 ELSE end) /\ Sound)
  BY <1>1, InCheckpoint
<1>3. /\ cp' = Ended /\ trouble' = trouble + 1
      /\ UNCHANGED <<wal, walFlushed, slots, slotsFlushed, acks, acksFlushed, dirty, lost, phase, core, poisoned, end,
                     newest, generation, latest, op, retry, durability, made, promised, safe, based, soft>>
  BY DEF CheckpointFails, fileVars, memoryVars, historyVars
<1>4. cp'.stage = "none" /\ Types'
  BY <1>0, <1>3, EndedIs, SMTT(40) DEF Types
<1>5. \A n \in Nat : Acked(n) => Acked(n)'
  BY <1>3 DEF Acked
<1>6. Past' /\ OneLine' /\ Sworn' /\ Surpassed' /\ Durable' /\ Memory' /\ Contents' = Contents
  BY <1>2, <1>3, <1>4, <1>5, StillStep
<1>7. Operation'
  BY <1>1, <1>2, <1>3, NoOperation
<1>8. Checkpoint'
  BY <1>4 DEF Checkpoint
<1> QED
  BY <1>4, <1>6, <1>7, <1>8 DEF Good

(* A checkpoint leaves the newest slot alone. *)
LEMMA SlotNowIs ==
  ASSUME Good, cp.stage # "none"
  PROVE  SlotNow = 1 - newest /\ SlotNow \in 0 .. 1 /\ SlotNow # newest
  BY InCheckpoint DEF Good, Checkpoint, SlotNow

LEMMA CpIs ==
  ASSUME Types, NEW s \in CheckpointStages, NEW m \in BOOLEAN
  PROVE  /\ [cp EXCEPT !.stage = s] \in [stage : CheckpointStages, mirror : BOOLEAN, slot : 0 .. 1, closing : BOOLEAN,
                                         gen : Nat, core : Seq(Nat), end : Nat]
         /\ [cp EXCEPT !.stage = s, !.mirror = m] \in [stage : CheckpointStages, mirror : BOOLEAN, slot : 0 .. 1,
                                         closing : BOOLEAN, gen : Nat, core : Seq(Nat), end : Nat]
         /\ [cp EXCEPT !.stage = s].stage = s /\ [cp EXCEPT !.stage = s].core = cp.core
         /\ [cp EXCEPT !.stage = s].mirror = cp.mirror /\ [cp EXCEPT !.stage = s].slot = cp.slot
         /\ [cp EXCEPT !.stage = s].gen = cp.gen
         /\ [cp EXCEPT !.stage = s, !.mirror = m].stage = s /\ [cp EXCEPT !.stage = s, !.mirror = m].core = cp.core
         /\ [cp EXCEPT !.stage = s, !.mirror = m].mirror = m /\ [cp EXCEPT !.stage = s, !.mirror = m].slot = cp.slot
  BY DEF Types

(* Nothing changes but a slot that is not the newest. *)
LEMMA SlotStep ==
  ASSUME Good, cp.stage # "none", phase = "open", phase' = "open", newest' = newest, slots'[newest] = slots[newest],
         UNCHANGED <<durability, wal, walFlushed, slotsFlushed, acks, acksFlushed, dirty, lost, latest, based, promised, safe>>
  PROVE  /\ \A n \in Nat : Acked(n) => Acked(n)'
         /\ \A n \in Nat : Reaches(n) <=> Reaches(n)'
         /\ \A n \in Nat : OnDisk(n) => OnDisk(n)'
         /\ \A n \in Nat : Backed(n) => Backed(n)'
         /\ Strict' = Strict /\ Firm' = Firm /\ Cores(slotsFlushed)' = Cores(slotsFlushed)
         /\ Lines(based, wal)' = Lines(based, wal) /\ Lines(based, walFlushed)' = Lines(based, walFlushed)
         /\ Sound' = Sound
<1>0. Types /\ Past /\ OneLine
  BY DEF Good
<1>1. \A n \in Nat : Acked(n) => Acked(n)'
  BY DEF Acked
<1>2. \A n \in Nat : Reaches(n) <=> Reaches(n)'
  BY <1>0, StandingStays
<1>3. (\A n \in Nat : OnDisk(n) => OnDisk(n)') /\ (\A n \in Nat : Backed(n) => Backed(n)')
  BY <1>0, <1>1, <1>2, LogStays
<1>4. /\ Strict' = Strict /\ Firm' = Firm /\ Cores(slotsFlushed)' = Cores(slotsFlushed)
      /\ Lines(based, wal)' = Lines(based, wal) /\ Lines(based, walFlushed)' = Lines(based, walFlushed)
      /\ Sound' = Sound
  BY DEF Strict, Firm, Cores, Lines, Sound
<1> QED
  BY <1>1, <1>2, <1>3, <1>4

LEMMA TearSlotStep ==
  ASSUME Good, TearSlot
  PROVE  Good'
<1>0. Types /\ Past /\ OneLine /\ Operation /\ Durable /\ Checkpoint
  BY DEF Good
<1>1. cp.stage = "slot" /\ op = NoOp
  BY <1>0 DEF TearSlot, Operation, Busy
<1>2. /\ phase = "open" /\ latest.seq <= Len(core) /\ newest \in 0 .. 1
      /\ (~poisoned => Len(wal) = (IF op.stage = "written" THEN end + 1 ELSE end) /\ Sound)
  BY <1>1, InCheckpoint
<1>3. SlotNow \in 0 .. 1 /\ SlotNow # newest
  BY <1>1, SlotNowIs
<1>4. /\ slots' = [slots EXCEPT ![SlotNow] = Torn] /\ cp' = [cp EXCEPT !.stage = "torn"]
      /\ UNCHANGED <<wal, walFlushed, slotsFlushed, acks, acksFlushed, dirty, lost, phase, core, poisoned, end, newest,
                     generation, latest, op, retry, durability, made, trouble, promised, safe, based, soft>>
  BY DEF TearSlot, memoryVars, countVars, historyVars
<1>5. "torn" \in CheckpointStages /\ Torn \in SlotContents /\ Torn.state # "valid"
  BY DEF CheckpointStages, Torn, SlotContents
<1>6. slots \in [0 .. 1 -> SlotContents]
  BY <1>0 DEF Types
<1>7. slots' \in [0 .. 1 -> SlotContents] /\ slots'[newest] = slots[newest]
      /\ \A i \in 0 .. 1 : slots'[i] = slots[i] \/ slots'[i].state # "valid"
  BY <1>2, <1>3, <1>4, <1>5, <1>6
<1>8. /\ cp'.stage = "torn" /\ cp'.core = cp.core /\ cp'.mirror = cp.mirror /\ cp'.slot = cp.slot
      /\ cp' \in [stage : CheckpointStages, mirror : BOOLEAN, slot : 0 .. 1, closing : BOOLEAN, gen : Nat,
                  core : Seq(Nat), end : Nat]
  BY <1>0, <1>4, <1>5, CpIs
<1>9. Types'
  BY <1>0, <1>4, <1>7, <1>8 DEF Types
<1>10. /\ \A n \in Nat : Acked(n) => Acked(n)'
       /\ \A n \in Nat : Reaches(n) <=> Reaches(n)'
       /\ \A n \in Nat : OnDisk(n) => OnDisk(n)'
       /\ \A n \in Nat : Backed(n) => Backed(n)'
       /\ Strict' = Strict /\ Firm' = Firm /\ Cores(slotsFlushed)' = Cores(slotsFlushed)
       /\ Lines(based, wal)' = Lines(based, wal) /\ Lines(based, walFlushed)' = Lines(based, walFlushed)
       /\ Sound' = Sound
  BY <1>1, <1>2, <1>4, <1>7, SlotStep
<1>11. Past' /\ Extends(based')
  BY <1>0, <1>4, PastStays
<1>12. Cores(slots)' \subseteq Cores(slots)
  BY <1>7 DEF Cores
<1>13. /\ OneLine' /\ Sworn' /\ Surpassed'
       /\ Present' \subseteq Present /\ Contents' \subseteq Contents
       /\ Lines(based, walFlushed)' \subseteq Lines(based, wal) \cup Lines(based, walFlushed)
  <2>1. /\ \A i \in Frames(wal') : i \in Frames(wal) /\ wal'[i] = wal[i]
        /\ Cores(slotsFlushed)' \subseteq Contents /\ promised' \subseteq promised /\ Firm' \subseteq Firm
    BY <1>4, <1>10 DEF Contents
  <2> QED
    BY <2>1, <1>4, <1>10, <1>11, <1>12, KeptStep
<1>14. Memory'
  <2>1. promised' \subseteq promised /\ Firm' \subseteq Firm /\ cp.stage # "none"
        /\ (~poisoned' => Len(wal') = (IF op'.stage = "written" THEN end' + 1 ELSE end') /\ Sound')
    BY <1>1, <1>2, <1>4, <1>10
  <2> QED
    BY <2>1, <1>2, <1>4, <1>11, <1>13, MemoryKept
<1>15. Durable'
  <2>1. cp.stage # "none" /\ \A c \in Contents' : c \in Contents
    BY <1>1, <1>13
  <2> QED
    BY <2>1, <1>0, <1>2, <1>4, <1>8, <1>10, <1>11, DurableSteady
<1>16. Operation'
  BY <1>1, <1>2, <1>4, NoOperation
<1>17. Checkpoint'
  BY <1>0, <1>1, <1>4, <1>7, <1>8, <1>13 DEF Checkpoint
<1> QED
  BY <1>9, <1>11, <1>13, <1>14, <1>15, <1>16, <1>17 DEF Good

LEMMA WriteSlotStep ==
  ASSUME Good, WriteSlot
  PROVE  Good'
<1> DEFINE x == cp.core
           slot == [state |-> "valid", gen |-> cp.gen, core |-> cp.core]
<1>0. Types /\ Past /\ OneLine /\ Sworn /\ Surpassed /\ Operation /\ Durable /\ Memory /\ Checkpoint
  BY DEF Good
<1>1. cp.stage = "torn" /\ op = NoOp
  BY <1>0 DEF WriteSlot, Operation, Busy
<1>2. /\ phase = "open" /\ latest.seq <= Len(core) /\ newest \in 0 .. 1 /\ Hist(based, core) /\ core \in Seq(Nat)
      /\ (~poisoned => Len(wal) = (IF op.stage = "written" THEN end + 1 ELSE end) /\ Sound)
      /\ x \in Seq(Nat) /\ Begins(x, core) /\ Len(x) \in Nat
  BY <1>1, InCheckpoint
<1>3. SlotNow \in 0 .. 1 /\ SlotNow # newest
  BY <1>1, SlotNowIs
<1>4. /\ slots' = [slots EXCEPT ![SlotNow] = slot] /\ cp' = [cp EXCEPT !.stage = "written"]
      /\ UNCHANGED <<wal, walFlushed, slotsFlushed, acks, acksFlushed, dirty, lost, phase, core, poisoned, end, newest,
                     generation, latest, op, retry, durability, made, trouble, promised, safe, based, soft>>
  BY DEF WriteSlot, memoryVars, countVars, historyVars
<1>5. "written" \in CheckpointStages /\ slot \in SlotContents /\ slot.core = x /\ slots \in [0 .. 1 -> SlotContents]
  BY <1>0, <1>2 DEF CheckpointStages, SlotContents, Types
<1>6. slots' \in [0 .. 1 -> SlotContents] /\ slots'[newest] = slots[newest] /\ slots'[SlotNow] = slot
      /\ \A i \in 0 .. 1 : slots'[i] = slots[i] \/ slots'[i].core = x
  <2> HIDE DEF slot, x
  <2> QED
    BY <1>2, <1>3, <1>4, <1>5
<1>7. /\ cp'.stage = "written" /\ cp'.core = x /\ cp'.mirror = cp.mirror /\ cp'.slot = cp.slot /\ cp'.gen = cp.gen
      /\ cp' \in [stage : CheckpointStages, mirror : BOOLEAN, slot : 0 .. 1, closing : BOOLEAN, gen : Nat,
                  core : Seq(Nat), end : Nat]
  BY <1>0, <1>4, <1>5, CpIs
<1>8. Types'
  BY <1>0, <1>4, <1>6, <1>7 DEF Types
<1>9. /\ \A n \in Nat : Acked(n) => Acked(n)'
      /\ \A n \in Nat : Reaches(n) <=> Reaches(n)'
      /\ \A n \in Nat : OnDisk(n) => OnDisk(n)'
      /\ \A n \in Nat : Backed(n) => Backed(n)'
      /\ Strict' = Strict /\ Firm' = Firm /\ Cores(slotsFlushed)' = Cores(slotsFlushed)
      /\ Lines(based, wal)' = Lines(based, wal) /\ Lines(based, walFlushed)' = Lines(based, walFlushed)
      /\ Sound' = Sound
  BY <1>1, <1>2, <1>4, <1>6, SlotStep
<1>10. Past' /\ Extends(based')
  BY <1>0, <1>4, PastStays
<1>11. Cores(slots)' \subseteq Cores(slots) \cup {x}
  BY <1>6 DEF Cores
<1>12. /\ Present' \subseteq Present \cup {x} /\ Flushed' = Flushed /\ Contents' \subseteq Contents \cup {x}
  BY <1>9, <1>11 DEF Present, Flushed, Contents
<1>13. /\ \A h \in Present \cup Contents \cup Flushed \cup {x} : Begins(h, core) /\ h \in Seq(Nat)
       /\ \A o \in promised \cup Firm : Line(based, o) \in Seq(Nat) /\ Begins(Line(based, o), core)
  <2>1. \A h \in Flushed : Begins(h, core)
    BY <1>1, <1>2, FlushedBegins
  <2>2. \A h \in Present \cup Flushed \cup Contents : h \in Seq(Nat)
    BY <1>0, DiskIs
  <2> QED
    BY <2>1, <2>2, <1>0, <1>2, SwornIs DEF Memory
<1>14. Hist(based, x)
  <2> HIDE DEF x
  <2> QED
    BY <1>0, <1>2, HistBegins, Facts
<1>15. OneLine'
  <2>1. Logged(based, wal)' /\ Logged(based, walFlushed)'
    BY <1>0, <1>4 DEF OneLine, Logged, Frames
  <2>2. \A c \in Contents' : Hist(based, c)'
    BY <1>0, <1>4, <1>12, <1>14 DEF OneLine
  <2>3. ASSUME NEW c \in Contents \cup {x}, NEW h \in Present \cup Flushed \cup {x}
        PROVE  Agree(c, h)
    BY <1>0, <1>13, UnderCore
  <2> QED
    BY <2>1, <2>2, <2>3, <1>12 DEF OneLine
<1>16. Sworn'
  <2>1. \A o \in promised' \cup Firm' : Line(based, o)' = Line(based, o)
    BY <1>4 DEF Line
  <2>2. ASSUME NEW o \in promised \cup Firm
        PROVE  Agree(Line(based, o), x)
    BY <1>0, <1>13, UnderCore
  <2> QED
    BY <2>1, <2>2, <1>0, <1>4, <1>9, <1>12 DEF Sworn
<1>17. Surpassed'
  <2>1. \A c \in Cores(slotsFlushed) : Len(c) \in Nat
    BY <1>0, DiskIs DEF Contents
  <2>2. \A h \in Lines(based, walFlushed) : Len(h) \in Nat
    BY <1>0, DiskIs DEF Flushed
  <2> QED
    BY <2>1, <2>2, <1>0, <1>9 DEF Surpassed
<1>18. Memory'
  <2>1. Hist(based', core') /\ latest'.seq <= Len(core')
    BY <1>2, <1>4
  <2>2. \A h \in Present' \cup Contents' : Begins(h, core')
    BY <1>4, <1>12, <1>13
  <2>3. \A o \in promised' \cup Firm' : Begins(Line(based', o), core')
    BY <1>4, <1>9, <1>13
  <2>4. \A h \in Lines(based, walFlushed)' : Begins(h, core')
    BY <1>4, <1>9, <1>13 DEF Flushed
  <2>5. ~poisoned' => Len(wal') = (IF op'.stage = "written" THEN end' + 1 ELSE end') /\ Sound'
    BY <1>2, <1>4, <1>9
  <2> QED
    BY <2>1, <2>2, <2>3, <2>4, <2>5 DEF Memory
<1>19. Durable'
  <2>1. \A c \in Contents' : c \in Contents \/ Strict \/ Backed(Len(c))'
    <3>0. PICK y : y = x
      OBVIOUS
    <3>1. ~Strict => Backed(Len(y))
      BY <3>0, <1>0, <1>1 DEF Durable
    <3>2. PICK n \in Nat : n = Len(y)
      BY <3>0, <1>2
    <3>3. ~Strict => Backed(n)'
      BY <3>1, <3>2, <1>9
    <3>4. ~Strict => Backed(Len(y))'
      BY <3>3, <3>2
    <3> QED
      BY <3>0, <3>4, <1>12
  <2>2. cp.stage # "none"
    BY <1>1
  <2> HIDE DEF x
  <2> QED
    BY <2>1, <2>2, <1>0, <1>2, <1>4, <1>7, <1>9, <1>10, DurableSteady
<1>20. Operation'
  BY <1>1, <1>2, <1>4, NoOperation
<1>21. Checkpoint'
  <2>1. SlotNow' = SlotNow
    BY <1>7 DEF SlotNow
  <2>2. slots'[SlotNow'] = [state |-> "valid", gen |-> cp'.gen, core |-> cp'.core]
    BY <2>1, <1>6, <1>7
  <2>3. \A c \in Contents' : Len(c) <= Len(cp'.core)
    BY <1>0, <1>1, <1>2, <1>7, <1>12 DEF Checkpoint
  <2>4. IF cp'.mirror THEN newest' = cp'.slot /\ slots'[newest'].state = "valid" /\ slots'[newest'].core = cp'.core
        ELSE cp'.slot = 1 - newest' /\ cp'.stage \in {"slot", "torn", "written"}
    BY <1>0, <1>1, <1>4, <1>6, <1>7 DEF Checkpoint
  <2>5. Begins(cp'.core, core')
    BY <1>2, <1>4, <1>7
  <2> QED
    BY <2>2, <2>3, <2>4, <2>5, <1>7 DEF Checkpoint
<1> QED
  BY <1>8, <1>10, <1>15, <1>16, <1>17, <1>18, <1>19, <1>20, <1>21 DEF Good

(* What a checkpoint holds is safe once its first slot is flushed. *)
LEMMA FlushSlotStep ==
  ASSUME Good, FlushSlot
  PROVE  Good'
<1> DEFINE x == cp.core
<1>0. Types /\ Past /\ OneLine /\ Sworn /\ Surpassed /\ Operation /\ Durable /\ Memory /\ Checkpoint
  BY DEF Good
<1>1. cp.stage = "written"
  BY DEF FlushSlot
<1>2. /\ phase = "open" /\ latest.seq <= Len(core) /\ newest \in 0 .. 1 /\ Hist(based, core) /\ core \in Seq(Nat)
      /\ (~poisoned => Len(wal) = (IF op.stage = "written" THEN end + 1 ELSE end) /\ Sound)
      /\ x \in Seq(Nat) /\ Begins(x, core) /\ Len(x) \in Nat
  BY <1>1, InCheckpoint
<1>3. SlotNow \in 0 .. 1 /\ SlotNow = 1 - newest
  BY <1>1, SlotNowIs
<1>4. slots[SlotNow] = [state |-> "valid", gen |-> cp.gen, core |-> x]
  BY <1>0, <1>1 DEF Checkpoint
<1>5. /\ slotsFlushed' = [slotsFlushed EXCEPT ![SlotNow] = slots[SlotNow]]
      /\ \/ /\ cp.mirror /\ cp' = [cp EXCEPT !.stage = "mirrored"]
            /\ UNCHANGED <<newest, generation, safe>>
         \/ /\ ~cp.mirror /\ cp' = [cp EXCEPT !.stage = "slot", !.mirror = TRUE]
            /\ newest' = cp.slot /\ generation' = cp.gen /\ safe' = ToSet(x)
      /\ UNCHANGED <<wal, walFlushed, slots, acks, acksFlushed, dirty, lost, phase, core, poisoned, end, latest, op,
                     retry, durability, made, trouble, promised, based, soft>>
  BY DEF FlushSlot, countVars
<1>6. {"mirrored", "slot"} \subseteq CheckpointStages /\ {slots, slotsFlushed} \subseteq [0 .. 1 -> SlotContents]
  BY <1>0 DEF CheckpointStages, Types
<1>7. /\ cp'.core = x /\ cp'.slot = cp.slot /\ cp'.mirror /\ cp'.stage \in {"slot", "mirrored"}
      /\ cp' \in [stage : CheckpointStages, mirror : BOOLEAN, slot : 0 .. 1, closing : BOOLEAN, gen : Nat,
                  core : Seq(Nat), end : Nat]
  BY <1>0, <1>5, <1>6, CpIs
<1>8. slotsFlushed' \in [0 .. 1 -> SlotContents]
      /\ \A i \in 0 .. 1 : slotsFlushed'[i] \in {slotsFlushed[i], slots[i]}
  BY <1>3, <1>5, <1>6
<1>9. slots[newest'].state = "valid" /\ slots[newest'].core = x /\ newest' = cp.slot /\ newest' \in 0 .. 1
  <2>1. CASE cp.mirror
    BY <2>1, <1>0, <1>1, <1>2, <1>5 DEF Checkpoint
  <2>2. CASE ~cp.mirror
    <3>1. SlotNow = cp.slot
      BY <2>2 DEF SlotNow
    <3> HIDE DEF x
    <3> QED
      BY <2>2, <3>1, <1>3, <1>4, <1>5
  <2> QED
    BY <2>1, <2>2
<1>10. x \in Cores(slots) /\ x \in Contents /\ Hist(based, x) /\ \A c \in Contents : Len(c) <= Len(x)
  <2>1. x \in Cores(slots)
    BY <1>3, <1>4 DEF Cores
  <2> QED
    BY <2>1, <1>0, <1>1 DEF Contents, OneLine, Checkpoint
<1>11. \A o \in ToSet(x) : /\ o \in 1 .. made /\ Begins(Line(based, o), x) /\ Line(based, o) \in Seq(Nat)
                           /\ Place(based, o) \in Nat /\ Place(based, o) <= Len(x)
  <2> TAKE o \in ToSet(x)
  <2>1. PICK i \in 1 .. Len(x) : o = x[i]
    BY DEF ToSet
  <2>2. o \in 1 .. made /\ Begins(Line(based, o), x) /\ Place(based, o) = i
    BY <2>1, <1>0, <1>10, Within
  <2>3. Line(based, o) \in Seq(Nat)
    BY <2>2, <1>0, LineIs
  <2> QED
    BY <2>2, <2>3, <1>2
<1>12. Types'
  <2>1. generation' \in Nat /\ safe' \subseteq 1 .. made
    BY <1>0, <1>5, <1>11 DEF Types
  <2> QED
    BY <2>1, <1>0, <1>5, <1>7, <1>8, <1>9, SMTT(40) DEF Types
<1>13. Past' /\ Extends(based')
  BY <1>0, <1>5, PastStays
<1>14. /\ Strict' = Strict /\ Cores(slots)' = Cores(slots) /\ Lines(based, wal)' = Lines(based, wal)
       /\ Lines(based, walFlushed)' = Lines(based, walFlushed) /\ Sound' = Sound
  BY <1>5 DEF Strict, Cores, Lines, Sound
<1>15. Cores(slotsFlushed)' \subseteq Contents
  BY <1>8 DEF Cores, Contents
<1>16. \A c \in Contents : Reaches(Len(c))'
  BY <1>2, <1>5, <1>9, <1>10 DEF Reaches, Standing
<1>17. \A n \in Nat : Reaches(n) => Reaches(n)'
  <2> SUFFICES ASSUME NEW n \in Nat, Reaches(n)
               PROVE  Reaches(n)'
    OBVIOUS
  <2>1. PICK i \in 0 .. 1 : slots[i].state = "valid" /\ n <= Len(slots[i].core)
    BY <1>0 DEF Reaches, Standing, Types
  <2>2. slots[i].core \in Contents
    BY <2>1 DEF Contents, Cores
  <2>3. n <= Len(x)
    <3>1. Len(slots[i].core) \in Nat
      BY <1>0, SlotIs, LenProperties
    <3> HIDE DEF x
    <3> QED
      BY <2>1, <2>2, <3>1, <1>2, <1>10
  <2> QED
    BY <2>3, <1>2, <1>5, <1>9 DEF Reaches, Standing
<1>18. \A n \in Nat : Acked(n) => Acked(n)'
  BY <1>5 DEF Acked
<1>19. (\A n \in Nat : OnDisk(n) => OnDisk(n)') /\ (\A n \in Nat : Backed(n) => Backed(n)')
  BY <1>0, <1>5, <1>17, <1>18, LogStays
<1>20. \A o \in safe' : o \in safe \/ o \in ToSet(x)
  BY <1>5
<1>21. \A o \in ToSet(x) : Fits(o)
  <2> SUFFICES ASSUME NEW o \in ToSet(x), NEW h \in Present \cup Flushed
               PROVE  Agree(Line(based, o), h)
    BY <1>11 DEF Fits
  <2>1. h \in Seq(Nat)
    BY <1>0, DiskIs
  <2>2. Agree(x, h)
    BY <1>0, <1>10 DEF OneLine
  <2> QED
    BY <2>1, <2>2, <1>2, <1>11, AgreeUnder
<1>22. \A o \in Firm' : o \in Firm \/ o \in ToSet(x)
  BY <1>5, <1>14, <1>20 DEF Firm
<1>23. /\ OneLine' /\ Sworn' /\ Surpassed'
       /\ Present' \subseteq Present /\ Contents' \subseteq Contents
       /\ Lines(based, walFlushed)' \subseteq Lines(based, wal) \cup Lines(based, walFlushed)
  <2>1. /\ \A i \in Frames(wal') : i \in Frames(wal) /\ wal'[i] = wal[i]
        /\ promised' \subseteq promised /\ \A o \in Firm' : o \in Firm \/ Fits(o)
        /\ walFlushed' = walFlushed /\ durability' = durability
        /\ \A c \in Cores(slotsFlushed)' : Reaches(Len(c))'
        /\ \A h \in Lines(based, wal) : h \in Lines(based, wal)'
    BY <1>5, <1>14, <1>15, <1>16, <1>21, <1>22
  <2> HIDE DEF x
  <2> QED
    BY <2>1, <1>13, <1>14, <1>15, <1>17, KeptStep
<1>24. Memory'
  <2>1. \A o \in promised' \cup Firm' : o \in promised \cup Firm \/ (o \in 1 .. made /\ Begins(Line(based, o), core))
    <3>1. ASSUME NEW o \in ToSet(x)
          PROVE  o \in 1 .. made /\ Begins(Line(based, o), core)
      <4> HIDE DEF x
      <4> QED
        BY <1>2, <1>11, BeginsTrans
    <3> QED
      BY <3>1, <1>5, <1>22
  <2>2. /\ cp.stage # "none" /\ latest'.seq <= Len(core) /\ durability' = durability /\ core' = core
        /\ (~poisoned' => Len(wal') = (IF op'.stage = "written" THEN end' + 1 ELSE end') /\ Sound')
    BY <1>1, <1>2, <1>5, <1>14
  <2> HIDE DEF x
  <2> QED
    BY <2>1, <2>2, <1>2, <1>13, <1>23, MemoryKept
<1>25. Durable'
  <2>1. ASSUME NEW o \in ToSet(x), ~Strict
        PROVE  Backed(Place(based, o))'
    <3>1. Backed(Len(x))
      BY <2>1, <1>0, <1>1 DEF Durable
    <3>2. PICK n \in Nat : n = Place(based, o) /\ n <= Len(x)
      BY <1>11
    <3>3. Backed(n)
      BY <3>1, <3>2, <1>0, <1>2, BackedLess
    <3>4. n = Place(based, o)'
      BY <3>2, <1>5 DEF Place
    <3> QED
      BY <3>3, <3>4, <1>19
  <2>2. \A o \in safe' : o \in safe \/ Strict \/ Backed(Place(based, o))'
    BY <2>1, <1>20
  <2>3. /\ cp.stage # "none" /\ cp'.core = cp.core /\ (\A c \in Contents' : c \in Contents)
        /\ promised' = promised /\ durability' = durability /\ phase' = phase /\ core' = core /\ phase = "open"
    BY <1>1, <1>2, <1>5, <1>7, <1>23
  <2> HIDE DEF x
  <2> QED
    BY <2>2, <2>3, <1>0, <1>13, <1>18, <1>19, DurableSteady
<1>26. Operation'
  BY <1>0, <1>2, <1>5, OperationKept
<1>27. Checkpoint'
  <2>1. \A c \in Contents' : Len(c) <= Len(cp'.core)
    BY <1>7, <1>10, <1>23
  <2>2. newest' = cp'.slot /\ slots'[newest'].state = "valid" /\ slots'[newest'].core = cp'.core
    BY <1>5, <1>7, <1>9
  <2>3. Begins(cp'.core, core')
    BY <1>2, <1>5, <1>7
  <2> HIDE DEF x
  <2> QED
    BY <2>1, <2>2, <2>3, <1>7 DEF Checkpoint
<1> QED
  BY <1>12, <1>13, <1>23, <1>24, <1>25, <1>26, <1>27 DEF Good

LEMMA MirroredStep ==
  ASSUME Good, Mirrored
  PROVE  Good'
<1>0. Types /\ Operation /\ Memory /\ Checkpoint
  BY DEF Good
<1>1. cp.stage = "mirrored" /\ op = NoOp /\ ~Busy
  BY <1>0 DEF Mirrored, Operation
<1>2. /\ phase = "open" /\ latest.seq <= Len(core) /\ newest \in 0 .. 1 /\ Len(core) \in Nat
      /\ (~poisoned => Len(wal) = (IF op.stage = "written" THEN end + 1 ELSE end) /\ Sound)
      /\ Begins(cp.core, core) /\ Len(cp.core) <= Len(core) /\ Len(cp.core) \in Nat
  BY <1>1, InCheckpoint
<1>3. /\ UNCHANGED <<wal, walFlushed, slots, slotsFlushed, acksFlushed, dirty, lost, phase, core, poisoned, end, newest,
                     generation, op, retry, durability, made, trouble, promised, safe, based, soft>>
      /\ \/ core = cp.core /\ ~poisoned /\ Publish(Len(core), end) /\ cp' = [cp EXCEPT !.stage = "resetting"]
         \/ latest.seq < Len(cp.core) /\ Publish(Len(cp.core), cp.end) /\ cp' = [cp EXCEPT !.stage = "keeping"]
         \/ cp' = Ended /\ acks' = acks /\ latest' = latest
  BY DEF Mirrored, CoversLog, countVars, historyVars
<1>4. end \in Nat /\ cp.end \in Nat /\ latest.seq \in Nat /\ {"resetting", "keeping"} \subseteq CheckpointStages
  BY <1>0, Facts DEF Types, CheckpointStages
<1>5. cp.mirror /\ newest = cp.slot /\ slots[newest].state = "valid" /\ slots[newest].core = cp.core
  BY <1>0, <1>1 DEF Checkpoint
<1>6. /\ \A n \in Nat : Acked(n) => Acked(n)'
      /\ acks' \in [0 .. 1 -> AckContents] /\ latest' \in AckContents /\ latest'.seq <= Len(core)
      /\ cp' \in [stage : CheckpointStages, mirror : BOOLEAN, slot : 0 .. 1, closing : BOOLEAN, gen : Nat,
                  core : Seq(Nat), end : Nat]
      /\ cp'.stage # "none" => /\ cp'.core = cp.core /\ cp'.mirror = cp.mirror /\ cp'.slot = cp.slot
                               /\ cp'.stage \in {"resetting", "keeping"}
      /\ cp'.stage = "resetting" => /\ core = cp.core /\ ~poisoned
                                    /\ acks'[Len(core) % 2].valid /\ acks'[Len(core) % 2].seq = Len(core)
                                    /\ latest'.seq = Len(core)
  <2>1. CASE core = cp.core /\ ~poisoned /\ Publish(Len(core), end) /\ cp' = [cp EXCEPT !.stage = "resetting"]
    <3>1. /\ \A n \in Nat : Acked(n) => Acked(n)'
          /\ acks' \in [0 .. 1 -> AckContents] /\ latest' \in AckContents /\ latest'.seq = Len(core)
          /\ acks'[Len(core) % 2].valid /\ acks'[Len(core) % 2].seq = Len(core)
      BY <2>1, <1>0, <1>2, <1>3, <1>4, PublishIs
    <3>2. /\ cp'.stage = "resetting" /\ cp'.core = cp.core /\ cp'.mirror = cp.mirror /\ cp'.slot = cp.slot
          /\ cp' \in [stage : CheckpointStages, mirror : BOOLEAN, slot : 0 .. 1, closing : BOOLEAN, gen : Nat,
                      core : Seq(Nat), end : Nat]
      BY <2>1, <1>0, <1>4, CpIs
    <3> QED
      BY <2>1, <3>1, <3>2, <1>2
  <2>2. CASE latest.seq < Len(cp.core) /\ Publish(Len(cp.core), cp.end) /\ cp' = [cp EXCEPT !.stage = "keeping"]
    <3>1. latest.seq <= Len(cp.core)
      BY <2>2, <1>2, <1>4
    <3>2. /\ \A n \in Nat : Acked(n) => Acked(n)'
          /\ acks' \in [0 .. 1 -> AckContents] /\ latest' \in AckContents /\ latest'.seq = Len(cp.core)
      BY <2>2, <3>1, <1>0, <1>2, <1>3, <1>4, PublishIs
    <3>3. /\ cp'.stage = "keeping" /\ cp'.core = cp.core /\ cp'.mirror = cp.mirror /\ cp'.slot = cp.slot
          /\ cp' \in [stage : CheckpointStages, mirror : BOOLEAN, slot : 0 .. 1, closing : BOOLEAN, gen : Nat,
                      core : Seq(Nat), end : Nat]
      BY <2>2, <1>0, <1>4, CpIs
    <3> QED
      BY <3>2, <3>3, <1>2
  <2>3. CASE cp' = Ended /\ acks' = acks /\ latest' = latest
    <3>1. cp'.stage = "none" /\ cp' \in [stage : CheckpointStages, mirror : BOOLEAN, slot : 0 .. 1, closing : BOOLEAN,
                                         gen : Nat, core : Seq(Nat), end : Nat]
      BY <2>3, <1>0, EndedIs
    <3>2. acks' \in [0 .. 1 -> AckContents] /\ latest' \in AckContents
      BY <2>3, <1>0 DEF Types
    <3>3. \A n \in Nat : Acked(n) => Acked(n)'
      BY <2>3, <1>3 DEF Acked
    <3> QED
      BY <2>3, <3>1, <3>2, <3>3, <1>2
  <2> QED
    BY <2>1, <2>2, <2>3, <1>3
<1>7. Types'
  BY <1>0, <1>3, <1>6 DEF Types
<1>8. Past' /\ OneLine' /\ Sworn' /\ Surpassed' /\ Durable' /\ Memory' /\ Contents' = Contents
  <2>1. cp'.stage # "none" => cp.stage # "none" /\ cp'.core = cp.core
    BY <1>1, <1>6
  <2> QED
    BY <2>1, <1>2, <1>3, <1>6, StillStep
<1>9. Operation'
  BY <1>1, <1>2, <1>3, NoOperation
<1>10. Checkpoint'
  <2>1. ASSUME cp'.stage # "none"
        PROVE  /\ Begins(cp'.core, core') /\ \A c \in Contents' : Len(c) <= Len(cp'.core)
               /\ cp'.mirror /\ newest' = cp'.slot /\ slots'[newest'].state = "valid" /\ slots'[newest'].core = cp'.core
               /\ cp'.stage \in {"resetting", "keeping"}
    BY <2>1, <1>0, <1>1, <1>2, <1>3, <1>5, <1>6, <1>8 DEF Checkpoint
  <2>2. cp'.stage = "resetting" => core' = cp'.core /\ ~poisoned' /\ ~Busy' /\ Stamped'
    BY <1>1, <1>3, <1>6 DEF Stamped, Busy
  <2> QED
    BY <2>1, <2>2 DEF Checkpoint
<1> QED
  BY <1>7, <1>8, <1>9, <1>10 DEF Good

LEMMA FlushBoundaryStep ==
  ASSUME Good, FlushBoundary
  PROVE  Good'
<1>0. Types /\ Operation /\ Memory /\ Checkpoint
  BY DEF Good
<1>1. cp.stage \in {"resetting", "keeping"}
  BY DEF FlushBoundary
<1>2. /\ phase = "open" /\ latest.seq <= Len(core) /\ newest \in 0 .. 1 /\ Len(core) \in Nat
      /\ (~poisoned => Len(wal) = (IF op.stage = "written" THEN end + 1 ELSE end) /\ Sound)
      /\ Begins(cp.core, core)
  BY <1>1, InCheckpoint
<1>3. /\ acksFlushed' = acks
      /\ \/ cp' = Ended
         \/ cp.stage = "resetting" /\ cp' = [cp EXCEPT !.stage = "reset"]
      /\ UNCHANGED <<wal, walFlushed, slots, slotsFlushed, acks, dirty, lost, phase, core, poisoned, end, newest,
                     generation, latest, op, retry, durability, made, trouble, promised, safe, based, soft>>
  BY DEF FlushBoundary, memoryVars, countVars, historyVars
<1>4. "reset" \in CheckpointStages
  BY DEF CheckpointStages
<1>5. cp.mirror /\ newest = cp.slot /\ slots[newest].state = "valid" /\ slots[newest].core = cp.core
  BY <1>0, <1>1 DEF Checkpoint
<1>6. /\ cp' \in [stage : CheckpointStages, mirror : BOOLEAN, slot : 0 .. 1, closing : BOOLEAN, gen : Nat,
                  core : Seq(Nat), end : Nat]
      /\ cp'.stage # "none" => /\ cp.stage = "resetting" /\ cp'.core = cp.core /\ cp'.mirror = cp.mirror
                               /\ cp'.slot = cp.slot /\ cp'.stage = "reset"
  BY <1>0, <1>3, <1>4, EndedIs, CpIs
<1>7. Types'
  BY <1>0, <1>3, <1>6 DEF Types
<1>8. \A n \in Nat : Acked(n) => Acked(n)'
  BY <1>2, <1>3, AckedStays
<1>9. Past' /\ OneLine' /\ Sworn' /\ Surpassed' /\ Durable' /\ Memory' /\ Contents' = Contents
  <2>1. cp'.stage # "none" => cp.stage # "none" /\ cp'.core = cp.core
    BY <1>1, <1>6
  <2> QED
    BY <2>1, <1>2, <1>3, <1>8, StillStep
<1>10. Operation'
  BY <1>0, <1>2, <1>3, OperationKept
<1>11. Checkpoint'
  <2>1. ASSUME cp'.stage # "none"
        PROVE  /\ Begins(cp'.core, core') /\ \A c \in Contents' : Len(c) <= Len(cp'.core)
               /\ cp'.mirror /\ newest' = cp'.slot /\ slots'[newest'].state = "valid" /\ slots'[newest'].core = cp'.core
               /\ cp'.stage = "reset" /\ core' = cp'.core /\ ~poisoned' /\ ~Busy'
    BY <2>1, <1>0, <1>1, <1>2, <1>3, <1>5, <1>6, <1>9 DEF Checkpoint, Busy
  <2>2. ASSUME cp'.stage # "none"
        PROVE  Acked(Len(core))'
    <3>1. Stamped
      BY <2>2, <1>0, <1>6 DEF Checkpoint
    <3>2. PICK n \in Nat : n = Len(core) /\ n = Len(core')
      BY <1>2, <1>3
    <3>3. n % 2 \in 0 .. 1
      OBVIOUS
    <3>4. acks[n % 2].valid /\ acks[n % 2].seq = n /\ latest.seq = n
      BY <3>1, <3>2 DEF Stamped
    <3>5. Acked(n)'
      BY <3>3, <3>4, <1>3 DEF Acked
    <3> QED
      BY <3>2, <3>5
  <2> QED
    BY <2>1, <2>2 DEF Checkpoint
<1> QED
  BY <1>7, <1>9, <1>10, <1>11 DEF Good

LEMMA FlushResetStep ==
  ASSUME Good, FlushReset
  PROVE  Good'
<1>0. Types /\ Operation /\ Checkpoint
  BY DEF Good
<1>1. cp.stage = "emptied" /\ op = NoOp
  BY <1>0 DEF FlushReset, Operation, Checkpoint
<1>2. /\ phase = "open" /\ latest.seq <= Len(core)
      /\ (~poisoned => Len(wal) = (IF op.stage = "written" THEN end + 1 ELSE end) /\ Sound)
  BY <1>1, InCheckpoint
<1>3. /\ cp' = Ended /\ walFlushed' = wal
      /\ UNCHANGED <<wal, slots, slotsFlushed, acks, acksFlushed, dirty, lost, phase, core, poisoned, end, newest,
                     generation, latest, op, retry, durability, made, trouble, promised, safe, based, soft>>
  BY DEF FlushReset, memoryVars, countVars, historyVars
<1>4. cp'.stage = "none" /\ Types'
  BY <1>0, <1>3, EndedIs DEF Types
<1>5. \A n \in Nat : Acked(n) => Acked(n)'
  BY <1>3 DEF Acked
<1>6. Past' /\ OneLine' /\ Sworn' /\ Surpassed' /\ Durable' /\ Memory' /\ Contents' = Contents
  BY <1>2, <1>3, <1>4, <1>5, StillStep
<1>7. Operation'
  BY <1>1, <1>2, <1>3, NoOperation
<1>8. Checkpoint'
  BY <1>4 DEF Checkpoint
<1> QED
  BY <1>4, <1>6, <1>7, <1>8 DEF Good

(* The log is emptied: the newest slot holds the whole core.                *)
LEMMA ResetStep ==
  ASSUME Good, Reset
  PROVE  Good'
<1>0. Types /\ Past /\ OneLine /\ Operation /\ Durable /\ Memory /\ Checkpoint
  BY DEF Good
<1>1. cp.stage = "reset" /\ op = NoOp /\ ~Busy /\ core = cp.core /\ ~poisoned /\ Acked(Len(core))
  BY <1>0 DEF Reset, Operation, Checkpoint
<1>2. /\ phase = "open" /\ latest.seq <= Len(core) /\ newest \in 0 .. 1 /\ Len(core) \in Nat /\ core \in Seq(Nat)
      /\ Begins(cp.core, core)
  BY <1>1, InCheckpoint
<1>3. /\ wal' = << >> /\ end' = 0 /\ cp' = [cp EXCEPT !.stage = "emptied"]
      /\ UNCHANGED <<walFlushed, slots, slotsFlushed, acks, acksFlushed, dirty, lost, phase, core, poisoned, newest,
                     generation, latest, op, retry, durability, made, trouble, promised, safe, based, soft>>
  BY DEF Reset, countVars, historyVars
<1>4. "emptied" \in CheckpointStages
  BY DEF CheckpointStages
<1>5. cp.mirror /\ newest = cp.slot /\ slots[newest].state = "valid" /\ slots[newest].core = core
  BY <1>0, <1>1 DEF Checkpoint
<1>6. /\ cp'.stage = "emptied" /\ cp'.core = cp.core /\ cp'.mirror = cp.mirror /\ cp'.slot = cp.slot
      /\ cp' \in [stage : CheckpointStages, mirror : BOOLEAN, slot : 0 .. 1, closing : BOOLEAN, gen : Nat,
                  core : Seq(Nat), end : Nat]
  BY <1>0, <1>3, <1>4, CpIs
<1>7. Len(wal') = 0 /\ Frames(wal') = {} /\ Sound' /\ wal' \in Seq(Cells)
  BY <1>3 DEF Frames, Sound
<1>8. Types'
  BY <1>0, <1>3, <1>6, <1>7, SMTT(40) DEF Types
<1>9. Past' /\ Extends(based')
  BY <1>0, <1>3, PastStays
<1>10. /\ Strict' = Strict /\ Firm' = Firm /\ Cores(slots)' = Cores(slots) /\ Cores(slotsFlushed)' = Cores(slotsFlushed)
       /\ Contents' = Contents
  BY <1>3 DEF Strict, Firm, Cores, Contents
<1>11. /\ \A n \in Nat : Reaches(n) => Reaches(n)'
       /\ \A n \in Nat : Acked(n) => Acked(n)'
  BY <1>3 DEF Reaches, Standing, Acked
<1>12. \A n \in Nat : n <= Len(core) => Reaches(n)' /\ Acked(n)'
  <2> TAKE n \in Nat
  <2> HAVE n <= Len(core)
  <2>1. Reaches(n)
    BY <1>2, <1>5 DEF Reaches, Standing
  <2>2. Acked(n)
    BY <1>0, <1>1, <1>2, BackedLess
  <2> QED
    BY <2>1, <2>2, <1>11
<1>13. \A h \in Lines(based, wal) : Len(h) \in Nat /\ Len(h) <= Len(core)
  <2>1. \A h \in Lines(based, wal) : h \in Seq(Nat)
    BY <1>0, DiskIs DEF Present
  <2>2. \A h \in Lines(based, wal) : Begins(h, core)
    BY <1>0, <1>2 DEF Memory, Present
  <2> QED
    BY <2>1, <2>2 DEF Begins
<1>14. \A p \in Frames(wal) : wal[p].seq \in Nat /\ wal[p].seq <= Len(core)
  <2> TAKE p \in Frames(wal)
  <2>1. Line(based, wal[p].op) \in Lines(based, wal) /\ Len(Line(based, wal[p].op)) = wal[p].seq
    BY <1>0, FrameIs
  <2> QED
    BY <2>1, <1>13
<1>15. /\ OneLine' /\ Sworn' /\ Surpassed'
       /\ Present' \subseteq Present /\ Contents' \subseteq Contents
       /\ Lines(based, walFlushed)' \subseteq Lines(based, wal) \cup Lines(based, walFlushed)
  <2>1. /\ promised' \subseteq promised /\ Firm' \subseteq Firm
        /\ (\A i \in Frames(wal') : i \in Frames(wal) /\ wal'[i] = wal[i])
        /\ Cores(slotsFlushed)' \subseteq Contents
    BY <1>3, <1>7, <1>10 DEF Contents
  <2>2. ASSUME NEW h \in Lines(based, wal)
        PROVE  Reaches(Len(h))'
    <3>1. PICK n \in Nat : n = Len(h) /\ n <= Len(core)
      BY <1>13
    <3> QED
      BY <3>1, <1>12
  <2> QED
    BY <2>1, <2>2, <1>3, <1>9, <1>10, <1>11, KeptStep
<1>16. Memory'
  <2>1. /\ promised' \subseteq promised /\ Firm' \subseteq Firm /\ cp.stage # "none"
        /\ Len(wal') = (IF op'.stage = "written" THEN end' + 1 ELSE end')
    BY <1>1, <1>3, <1>7, <1>10 DEF NoOp
  <2> QED
    BY <2>1, <1>2, <1>3, <1>7, <1>9, <1>15, MemoryKept
<1>17. \A n \in Nat : Backed(n) => Backed(n)'
  <2> SUFFICES ASSUME NEW n \in Nat, Backed(n)
               PROVE  Backed(n)'
    OBVIOUS
  <2>1. n = 0 \/ Acked(n) \/ \E p \in Frames(wal) : n <= wal[p].seq
    BY DEF Backed
  <2>2. n = 0 \/ Acked(n) \/ n <= Len(core)
    BY <2>1, <1>2, <1>14
  <2>3. n = 0 \/ Acked(n)'
    BY <2>2, <1>11, <1>12
  <2> QED
    BY <2>3 DEF Backed
<1>18. \A n \in Nat : OnDisk(n) => OnDisk(n)'
  <2> SUFFICES ASSUME NEW n \in Nat, OnDisk(n)
               PROVE  OnDisk(n)'
    OBVIOUS
  <2>1. n = 0 \/ Reaches(n) \/ \E p \in Frames(wal) : n <= wal[p].seq
    BY DEF OnDisk
  <2>2. n = 0 \/ Reaches(n) \/ n <= Len(core)
    BY <2>1, <1>2, <1>14
  <2>3. n = 0 \/ Reaches(n)'
    BY <2>2, <1>11, <1>12
  <2> QED
    BY <2>3 DEF OnDisk
<1>19. Durable'
  <2>1. cp.stage # "none" /\ phase' = phase
    BY <1>1, <1>3
  <2> QED
    BY <2>1, <1>0, <1>2, <1>3, <1>6, <1>9, <1>10, <1>11, <1>17, <1>18, DurableSteady
<1>20. Operation'
  BY <1>1, <1>2, <1>3, NoOperation
<1>21. Checkpoint'
  <2>1. Acked(Len(core))'
    <3>1. PICK n \in Nat : n = Len(core) /\ n = Len(core')
      BY <1>2, <1>3
    <3> QED
      BY <3>1, <1>12
  <2> QED
    BY <2>1, <1>0, <1>1, <1>3, <1>5, <1>6, <1>10 DEF Checkpoint, Busy
<1> QED
  BY <1>8, <1>9, <1>15, <1>16, <1>19, <1>20, <1>21 DEF Good

(***************************************************************************)
(* The leader goes away.                                                   *)
(***************************************************************************)
LEMMA ForgottenIs ==
  ASSUME Forget
  PROVE  /\ phase' = "down" /\ core' = << >> /\ poisoned' = FALSE /\ end' = 0 /\ newest' = 0 /\ generation' = 0
         /\ latest' = Ack(0, 0) /\ op' = NoOp /\ cp' = NoCheckpoint /\ retry' = NoRetry
         /\ Operation' /\ Memory' /\ Checkpoint' /\ cp'.stage = "none"
<1>1. /\ phase' = "down" /\ core' = << >> /\ poisoned' = FALSE /\ end' = 0 /\ newest' = 0 /\ generation' = 0
      /\ latest' = Ack(0, 0) /\ op' = NoOp /\ cp' = NoCheckpoint /\ retry' = NoRetry
  BY DEF Forget
<1>2. op'.stage = "none" /\ cp'.stage = "none"
  BY <1>1 DEF NoOp, NoCheckpoint
<1> QED
  BY <1>1, <1>2 DEF Operation, Busy, Memory, Checkpoint

LEMMA ForgottenTypes ==
  ASSUME Forget, wal' \in Seq(Cells), walFlushed' \in Seq(Cells),
         {slots, slotsFlushed}' \subseteq [0 .. 1 -> SlotContents], {acks, acksFlushed}' \subseteq [0 .. 1 -> AckContents],
         durability' \in Durabilities, (dirty \cup lost \cup promised \cup safe)' \subseteq 1 .. made', soft' \in BOOLEAN,
         made' \in Nat, trouble' \in Nat, based' \in Seq(Seq(Nat)), Len(based') = made'
  PROVE  Types'
<1>1. core' \in Seq(1 .. made') /\ end' \in 0 .. Len(wal') + 1 /\ newest' \in 0 .. 1 /\ generation' \in Nat
  <2>1. Len(wal') \in Nat
    OBVIOUS
  <2> QED
    BY <2>1, ForgottenIs
<1>2. latest' \in AckContents
  <2>1. Ack(0, 0) \in AckContents
    BY DEF Ack, AckContents
  <2> QED
    BY <2>1, ForgottenIs
<1>3. op' \in [stage : {"none", "staged", "written", "flushed", "acked"}, id : Nat, start : Nat]
  BY ForgottenIs DEF NoOp
<1>4. cp' \in [stage : CheckpointStages, mirror : BOOLEAN, slot : 0 .. 1, closing : BOOLEAN, gen : Nat,
               core : Seq(Nat), end : Nat]
  <2>1. << >> \in Seq(Nat)
    OBVIOUS
  <2>2. NoCheckpoint \in [stage : CheckpointStages, mirror : BOOLEAN, slot : 0 .. 1, closing : BOOLEAN, gen : Nat,
                          core : Seq(Nat), end : Nat]
    BY <2>1 DEF NoCheckpoint, CheckpointStages
  <2>3. cp' = NoCheckpoint
    BY ForgottenIs
  <2> QED
    BY <2>2, <2>3
<1> QED
  BY <1>1, <1>2, <1>3, <1>4, ForgottenIs DEF Types

(* What changes at the end of a log is no line that was flushed. *)
LEMMA LinesKept ==
  ASSUME Types, Past, OneLine, Extends(based'),
         NEW k \in 0 .. Len(wal), k <= Len(wal'), Len(wal') \in Nat, \A i \in 1 .. k : wal'[i] = wal[i],
         walFlushed' = walFlushed,
         \A i \in Frames(wal) : i <= k \/ \A j \in Frames(walFlushed) : walFlushed[j].op # wal[i].op
  PROVE  \A h \in Lines(based, wal) : h \in Lines(based, wal)' \/ h \notin Lines(based, walFlushed)'
<1> SUFFICES ASSUME NEW h \in Lines(based, wal)
             PROVE  h \in Lines(based, wal)' \/ h \notin Lines(based, walFlushed)'
  OBVIOUS
<1>1. PICK i \in Frames(wal) : h = Line(based, wal[i].op)
  BY DEF Lines
<1>2. wal[i].op \in 1 .. made /\ i \in 1 .. Len(wal)
  BY FrameIs
<1>3. h = Line(based', wal[i].op)
  BY <1>1, <1>2, LineStays
<1>4. CASE i <= k
  <2>1. i \in Frames(wal') /\ wal'[i] = wal[i]
    BY <1>1, <1>2, <1>4 DEF Frames
  <2> QED
    BY <2>1, <1>3 DEF Lines
<1>5. CASE \A j \in Frames(walFlushed) : walFlushed[j].op # wal[i].op
  <2>1. Logged(based, walFlushed) /\ Lines(based', walFlushed) = Lines(based, walFlushed)
    BY LoggedStays DEF OneLine
  <2>2. \A j \in Frames(walFlushed) : walFlushed[j].op \in 1 .. made
    BY <2>1, Facts DEF Logged
  <2>3. h \notin Lines(based, walFlushed)
    <3> SUFFICES ASSUME NEW j \in Frames(walFlushed), h = Line(based, walFlushed[j].op)
                 PROVE  FALSE
      BY DEF Lines
    <3>1. walFlushed[j].op = wal[i].op
      BY <1>1, <1>2, <2>2, LineInj
    <3> QED
      BY <3>1, <1>5
  <2> QED
    BY <2>1, <2>3
<1> QED
  BY <1>4, <1>5

LEMMA ForgetStep ==
  ASSUME Good, phase = "open", Forget, trouble' \in Nat,
         UNCHANGED <<durability, walFlushed, slots, slotsFlushed, acksFlushed, dirty, lost, made, promised, safe, based, soft>>,
         acks' \in [0 .. 1 -> AckContents], \A i \in 0 .. 1 : acks'[i] = acks[i] \/ ~acks'[i].valid,
         wal' \in Seq(Cells), Len(wal') \in Nat,
         NEW k \in 0 .. Len(wal), k <= Len(wal'), \A i \in 1 .. k : wal'[i] = wal[i],
         \A i \in Frames(wal') : i <= k, ~Strict => \A p \in Frames(wal) : p <= k,
         \A i \in Frames(wal) : i <= k \/ \A j \in Frames(walFlushed) : walFlushed[j].op # wal[i].op
  PROVE  Good'
<1>0. Types /\ Past /\ OneLine /\ Durable /\ Memory
  BY DEF Good
<1>1. phase' = "down" /\ Operation' /\ Memory' /\ Checkpoint' /\ cp'.stage = "none"
  BY ForgottenIs
<1>2. Types'
  <2>1. /\ {slots, slotsFlushed}' \subseteq [0 .. 1 -> SlotContents] /\ {acks, acksFlushed}' \subseteq [0 .. 1 -> AckContents]
        /\ (dirty \cup lost \cup promised \cup safe)' \subseteq 1 .. made' /\ soft' \in BOOLEAN
        /\ durability' \in Durabilities /\ walFlushed' \in Seq(Cells)
        /\ made' \in Nat /\ based' \in Seq(Seq(Nat)) /\ Len(based') = made'
    BY <1>0 DEF Types
  <2> QED
    BY <2>1, ForgottenTypes
<1>3. Past' /\ Extends(based')
  BY <1>0, PastStays
<1>4. /\ Strict' = Strict /\ Firm' = Firm /\ Cores(slots)' = Cores(slots) /\ Cores(slotsFlushed)' = Cores(slotsFlushed)
      /\ Contents' = Contents
  BY DEF Strict, Firm, Cores, Contents
<1>5. \A n \in Nat : Acked(n) => Acked(n)'
  BY <1>1, AckedStays
<1>6. \A n \in Nat : Reaches(n) => Reaches(n)'
  <2>1. \A i \in Standing : i \in Standing' /\ slots'[i].core = slots[i].core
    BY <1>0, <1>1 DEF Standing, Types
  <2> QED
    BY <2>1, <1>0, ReachesStays
<1>7. \A n \in Nat : ~Strict /\ OnDisk(n) => OnDisk(n)'
  BY <1>0, <1>6, OnDiskStays
<1>8. \A n \in Nat : ~Strict /\ Backed(n) => Backed(n)'
  BY <1>0, <1>5, BackedStays
<1>9. OneLine' /\ Sworn' /\ Surpassed'
  <2>1. \A i \in Frames(wal') : i \in Frames(wal) /\ wal'[i] = wal[i]
    <3> TAKE i \in Frames(wal')
    <3>1. i \in 1 .. k /\ i \in 1 .. Len(wal) /\ wal'[i].k = "frame"
      BY <1>0, Facts DEF Frames
    <3> QED
      BY <3>1 DEF Frames
  <2>2. /\ promised' \subseteq promised /\ Firm' \subseteq Firm /\ Cores(slotsFlushed)' \subseteq Contents
    BY <1>4 DEF Contents
  <2>3. \A h \in Lines(based, wal) : h \in Lines(based, wal)' \/ h \notin Lines(based, walFlushed)'
    BY <1>0, <1>3, LinesKept
  <2> QED
    BY <2>1, <2>2, <2>3, <1>3, <1>4, <1>6, KeptStep
<1>10. Durable'
  <2>1. ASSUME ~Strict, NEW o \in promised
        PROVE  OnDisk(Place(based, o))'
    <3>1. o \in 1 .. made /\ Line(based, o) \in Seq(Nat) /\ Place(based, o) \in Nat /\ Len(Line(based, o)) = Place(based, o)
      BY <1>0, SwornIs
    <3>2. Place(based, o) <= Len(core) /\ Len(core) \in Nat
      BY <3>1, <1>0, Facts DEF Memory, Begins
    <3>3. OnDisk(Len(core))
      BY <2>1, <1>0 DEF Durable
    <3>4. PICK n \in Nat : n = Place(based, o)
      BY <3>1
    <3>5. OnDisk(n)
      BY <3>2, <3>3, <3>4, <1>0, BackedLess
    <3>6. n = Place(based, o)'
      BY <3>4 DEF Place
    <3> QED
      BY <2>1, <3>5, <3>6, <1>7
  <2>2. phase' = "down" => Strict \/ \A o \in promised' : OnDisk(Place(based, o))' \/ Acked(Place(based, o))'
    BY <2>1
  <2> QED
    BY <2>2, <1>0, <1>1, <1>3, <1>4, <1>5, <1>7, <1>8, DurableSteady
<1> QED
  BY <1>1, <1>2, <1>3, <1>9, <1>10 DEF Good

LEMMA ShutdownStep ==
  ASSUME Good, Shutdown
  PROVE  Good'
<1>0. Types
  BY DEF Good
<1>1. /\ phase = "open" /\ Forget
      /\ UNCHANGED <<wal, walFlushed, slots, slotsFlushed, acks, acksFlushed, dirty, lost, durability, made, trouble,
                     promised, safe, based, soft>>
  BY DEF Shutdown, fileVars, countVars, historyVars
<1>2. /\ Len(wal) \in 0 .. Len(wal) /\ Len(wal) \in Nat /\ wal' \in Seq(Cells) /\ \A i \in Frames(wal) : i <= Len(wal)
  BY <1>0, <1>1, Facts DEF Frames
<1>3. trouble' \in Nat /\ acks' \in [0 .. 1 -> AckContents]
  BY <1>0, <1>1 DEF Types
<1> QED
  BY <1>1, <1>2, <1>3, ForgetStep

LEMMA TabDiesStep ==
  ASSUME Good, NEW short \in BOOLEAN, NEW torn \in BOOLEAN, TabDies(short, torn)
  PROVE  Good'
<1>0. Types /\ Operation /\ Memory
  BY DEF Good
<1>1. /\ phase = "open" /\ Forget /\ (short => Logging) /\ trouble' = trouble + 1
      /\ wal' = IF short THEN Put(end, Short) ELSE wal
      /\ acks' = IF torn THEN [acks EXCEPT ![latest.seq % 2] = TornAck] ELSE acks
      /\ UNCHANGED <<walFlushed, slots, slotsFlushed, acksFlushed, dirty, lost, durability, made,
                     promised, safe, based, soft>>
  BY DEF TabDies, historyVars
<1>2. Len(wal) \in Nat /\ wal \in Seq(Cells) /\ end \in Nat
  BY <1>0, Facts
<1>3. acks' \in [0 .. 1 -> AckContents] /\ \A i \in 0 .. 1 : acks'[i] = acks[i] \/ ~acks'[i].valid
  <2>1. TornAck \in AckContents /\ ~TornAck.valid
    BY DEF TornAck, AckContents
  <2>2. latest.seq % 2 \in 0 .. 1
    <3>1. latest.seq \in Nat
      BY <1>0, Facts
    <3> QED
      BY <3>1
  <2>3. acks \in [0 .. 1 -> AckContents]
    BY <1>0 DEF Types
  <2> QED
    BY <2>1, <2>2, <2>3, <1>1
<1>4. trouble' \in Nat
  BY <1>0, <1>1 DEF Types
<1>5. Short \in Cells /\ Short.k = "short"
  BY CellIs
<1>6. CASE ~short
  <2>1. /\ Len(wal) \in 0 .. Len(wal) /\ wal' \in Seq(Cells) /\ Len(wal') = Len(wal) /\ wal' = wal
        /\ \A i \in Frames(wal) : i <= Len(wal)
    BY <1>1, <1>2, <1>6 DEF Frames
  <2> QED
    BY <2>1, <1>1, <1>2, <1>3, <1>4, ForgetStep
<1>7. CASE short /\ op.stage = "written"
  <2>1. Len(wal) = end + 1
    BY <1>7, InOperation
  <2>2. Strict /\ wal[end + 1] = Frame(Len(core), op.id) /\ \A i \in Frames(walFlushed) : walFlushed[i].op # op.id
    BY <1>0, <1>7 DEF Operation
  <2>3. wal[end + 1].op = op.id
    BY <2>2 DEF Frame
  <2>4. /\ wal' \in Seq(Cells) /\ Len(wal') = end + 1 /\ wal'[end + 1] = Short
        /\ \A i \in 1 .. Len(wal) : i # end + 1 => wal'[i] = wal[i]
    <3>1. wal' = Put(end, Short) /\ end <= Len(wal)
      BY <2>1, <1>1, <1>2, <1>7
    <3>2. LET v == Put(end, Short)
          IN  /\ v \in Seq(Cells) /\ Len(v) = IF Len(wal) > end THEN Len(wal) ELSE end + 1
              /\ v[end + 1] = Short /\ \A i \in 1 .. Len(wal) : i # end + 1 => v[i] = wal[i]
      BY <3>1, <1>0, <1>2, <1>5, PutIs
    <3> QED
      BY <3>1, <3>2, <2>1, <1>2
  <2>5. /\ end \in 0 .. Len(wal) /\ end <= Len(wal') /\ Len(wal') \in Nat
        /\ \A i \in 1 .. end : wal'[i] = wal[i]
    BY <2>1, <2>4, <1>2
  <2>6. \A i \in Frames(wal') : i <= end
    BY <2>4, <1>2, <1>5 DEF Frames
  <2>7. \A i \in Frames(wal) : i <= end \/ \A j \in Frames(walFlushed) : walFlushed[j].op # wal[i].op
    <3> TAKE i \in Frames(wal)
    <3>1. i <= end \/ i = end + 1
      BY <2>1, <1>2 DEF Frames
    <3> QED
      BY <3>1, <2>2, <2>3
  <2> QED
    BY <2>2, <2>4, <2>5, <2>6, <2>7, <1>1, <1>3, <1>4, ForgetStep
<1>8. CASE short /\ op.stage # "written"
  <2>1. Len(wal) = end
    <3>1. CASE op.stage = "staged"
      BY <3>1, InOperation
    <3>2. CASE QueueTurn \/ LeaseLane
      BY <3>2, Serving
    <3> QED
      BY <3>1, <3>2, <1>1, <1>8 DEF Logging
  <2>2. /\ wal' \in Seq(Cells) /\ Len(wal') = Len(wal) + 1 /\ wal'[Len(wal) + 1] = Short
        /\ \A i \in 1 .. Len(wal) : wal'[i] = wal[i]
    BY <2>1, <1>0, <1>1, <1>5, <1>8, PutEnd
  <2>3. /\ Len(wal) \in 0 .. Len(wal) /\ Len(wal) <= Len(wal') /\ Len(wal') \in Nat
        /\ \A i \in Frames(wal) : i <= Len(wal)
    BY <2>2, <1>2 DEF Frames
  <2>4. \A i \in Frames(wal') : i <= Len(wal)
    BY <2>2, <1>2, <1>5 DEF Frames
  <2> QED
    BY <2>2, <2>3, <2>4, <1>1, <1>3, <1>4, ForgetStep
<1> QED
  BY <1>6, <1>7, <1>8

(***************************************************************************)
(* A power loss.                                                           *)
(***************************************************************************)
LEMMA CommonIs ==
  ASSUME NEW w \in Seq(Cells), NEW f \in Seq(Cells)
  PROVE  /\ Common(w, f) \in 0 .. Len(w)
         /\ \A p \in 0 .. Len(w) : p <= Len(f) /\ (\A i \in 1 .. p : w[i] = f[i]) => p <= Common(w, f)
<1> DEFINE I == {n \in 0 .. Len(w) : n <= Len(f) /\ \A i \in 1 .. n : w[i] = f[i]}
<1>1. Len(w) \in Nat /\ Len(f) \in Nat
  OBVIOUS
<1>2. I \in SUBSET (0 .. Len(w)) /\ 0 \in I
  BY <1>1
<1>3. Common(w, f) = Max(I)
  BY DEF Common
<1>4. Max(I) \in I /\ \A y \in I : y <= Max(I)
  <2> HIDE DEF I
  <2> QED
    BY <1>1, <1>2, Greatest
<1> QED
  BY <1>2, <1>3, <1>4

(* What is left of a log: as it was flushed, or frames of it; and whatever  *)
(* the two have in common.                                                  *)
LEMMA WrittenIs ==
  ASSUME NEW w \in Seq(Cells), NEW f \in Seq(Cells), NEW v \in WrittenBack(w, f)
  PROVE  /\ v \in Seq(Cells)
         /\ v = f \/ \A i \in Frames(v) : i \in Frames(w) /\ v[i] = w[i]
         /\ \A p \in 0 .. Len(w) : p <= Len(f) /\ (\A i \in 1 .. p : w[i] = f[i])
                                   => p <= Len(v) /\ \A i \in 1 .. p : v[i] = w[i]
<1> DEFINE kept == Common(w, f)
           left(n, holes) == [i \in 1 .. n |-> IF i \in holes THEN Zero ELSE w[i]]
<1>1. /\ kept \in 0 .. Len(w) /\ Len(w) \in Nat /\ Len(f) \in Nat
      /\ \A p \in 0 .. Len(w) : p <= Len(f) /\ (\A i \in 1 .. p : w[i] = f[i]) => p <= kept
  <2>1. Len(w) \in Nat /\ Len(f) \in Nat
    OBVIOUS
  <2>2. /\ kept \in 0 .. Len(w)
        /\ \A p \in 0 .. Len(w) : p <= Len(f) /\ (\A i \in 1 .. p : w[i] = f[i]) => p <= kept
    BY CommonIs, Zenon
  <2> QED
    BY <2>1, <2>2
<1>2. \/ v = f
      \/ \E n \in kept + 1 .. Len(w) : \E holes \in SUBSET (kept + 1 .. n) :
            v = left(n, holes) \/ v = [left(n, holes) EXCEPT ![n] = Short]
  BY DEF WrittenBack
<1>3. CASE v = f
  BY <1>3, <1>1
<1>4. ASSUME NEW n \in kept + 1 .. Len(w), NEW holes \in SUBSET (kept + 1 .. n),
             v = left(n, holes) \/ v = [left(n, holes) EXCEPT ![n] = Short]
      PROVE  /\ v \in Seq(Cells)
             /\ \A i \in Frames(v) : i \in Frames(w) /\ v[i] = w[i]
             /\ \A i \in 1 .. kept : i <= Len(v) /\ v[i] = w[i]
             /\ kept <= Len(v)
  <2>1. n \in Nat /\ n <= Len(w) /\ kept < n /\ n \in 1 .. n
    BY <1>1
  <2>2. /\ Zero \in Cells /\ Short \in Cells /\ Zero.k # "frame" /\ Short.k # "frame"
    <3>1. Zero \in Cells /\ Short \in Cells /\ Zero.k = "zero" /\ Short.k = "short"
      BY CellIs
    <3> QED
      BY <3>1
  <2>3. \A i \in 1 .. n : w[i] \in Cells
    BY <2>1, ElementOfSeq
  <2>4. left(n, holes) \in [1 .. n -> Cells] /\ \A i \in 1 .. n : left(n, holes)[i] = IF i \in holes THEN Zero ELSE w[i]
    BY <2>2, <2>3
  <2>5. /\ v \in [1 .. n -> Cells]
        /\ \A i \in 1 .. n : v[i] \in {Zero, Short} \/ v[i] = w[i]
        /\ \A i \in 1 .. n : i # n /\ i \notin holes => v[i] = w[i]
    <3>1. CASE v = left(n, holes)
      BY <3>1, <2>4
    <3>2. CASE v = [left(n, holes) EXCEPT ![n] = Short]
      <4> HIDE DEF left
      <4> QED
        BY <3>2, <2>1, <2>2, <2>4
    <3> QED
      BY <3>1, <3>2, <1>4
  <2>6. v \in Seq(Cells) /\ Len(v) = n
    BY <2>1, <2>5
  <2>7. \A i \in 1 .. kept : i \in 1 .. n /\ i # n /\ i \notin holes
    BY <1>1, <2>1
  <2>8. ASSUME NEW i \in Frames(v)
        PROVE  i \in Frames(w) /\ v[i] = w[i]
    <3>1. i \in 1 .. n /\ v[i].k = "frame" /\ i \in 1 .. Len(w)
      BY <2>1, <2>6, <1>1 DEF Frames
    <3>2. v[i] = w[i]
      BY <3>1, <2>2, <2>5
    <3> QED
      BY <3>1, <3>2 DEF Frames
  <2> QED
    BY <2>1, <2>5, <2>6, <2>7, <2>8, <1>1
<1>5. CASE v # f
  <2>1. /\ v \in Seq(Cells)
        /\ \A i \in Frames(v) : i \in Frames(w) /\ v[i] = w[i]
        /\ \A i \in 1 .. kept : i <= Len(v) /\ v[i] = w[i]
        /\ kept <= Len(v)
    BY <1>2, <1>4, <1>5
  <2>2. ASSUME NEW p \in 0 .. Len(w), p <= Len(f), \A i \in 1 .. p : w[i] = f[i]
        PROVE  p <= Len(v) /\ \A i \in 1 .. p : v[i] = w[i]
    <3>1. p <= kept
      BY <2>2, <1>1
    <3>2. Len(v) \in Nat
      BY <2>1
    <3> HIDE DEF kept
    <3> QED
      BY <2>1, <3>1, <3>2, <1>1
  <2> QED
    BY <2>1, <2>2
<1> QED
  BY <1>3, <1>5

LEMMA OutcomeIs ==
  ASSUME NEW S, NEW a \in [0 .. 1 -> S], NEW b \in [0 .. 1 -> S], NEW t \in S, NEW v \in SlotOutcomes(a, b, t)
  PROVE  v \in [0 .. 1 -> S] /\ \A i \in 0 .. 1 : v[i] \in {a[i], b[i], t}
<1> DEFINE left(i) == {a[i], b[i]} \cup IF a[i] = b[i] THEN {} ELSE {t}
<1>1. \A i \in 0 .. 1 : left(i) \subseteq {a[i], b[i], t} /\ {a[i], b[i], t} \subseteq S
  OBVIOUS
<1>2. PICK x \in left(0), y \in left(1) : v = [i \in 0 .. 1 |-> IF i = 0 THEN x ELSE y]
  BY DEF SlotOutcomes
<1>3. x \in {a[0], b[0], t} /\ y \in {a[1], b[1], t} /\ x \in S /\ y \in S
  <2>1. 0 \in 0 .. 1 /\ 1 \in 0 .. 1
    OBVIOUS
  <2> QED
    BY <2>1, <1>1, <1>2
<1> HIDE DEF left
<1>4. v \in [0 .. 1 -> S] /\ v[0] = x /\ v[1] = y
  BY <1>2, <1>3
<1> QED
  BY <1>3, <1>4

LEMMA PowerLossStep ==
  ASSUME Good, PowerLoss
  PROVE  Good'
<1>0. Types /\ Past /\ OneLine /\ Sworn /\ Surpassed /\ Durable
  BY DEF Good
<1>1. /\ wal' \in WrittenBack(wal, walFlushed) /\ walFlushed' = wal'
      /\ slots' \in SlotOutcomes(slots, slotsFlushed, Torn) /\ slotsFlushed' = slots'
      /\ acks' \in SlotOutcomes(acks, acksFlushed, TornAck) /\ acksFlushed' = acks'
      /\ dirty' = {} /\ Forget /\ trouble' = trouble + 1
      /\ promised' = IF Strict THEN promised ELSE promised \cap safe
      /\ UNCHANGED <<durability, made, safe, based>>
  BY DEF PowerLoss
<1>2. PICK gone \in SUBSET dirty : lost' = lost \cup gone
  BY DEF PowerLoss
<1>3. wal \in Seq(Cells) /\ walFlushed \in Seq(Cells) /\ Len(wal) \in Nat
  BY <1>0, Facts
<1>4. /\ wal' \in Seq(Cells) /\ Len(wal') \in Nat
      /\ wal' = walFlushed \/ \A i \in Frames(wal') : i \in Frames(wal) /\ wal'[i] = wal[i]
      /\ \A p \in 0 .. Len(wal) : p <= Len(walFlushed) /\ (\A i \in 1 .. p : wal[i] = walFlushed[i])
                                  => p <= Len(wal') /\ \A i \in 1 .. p : wal'[i] = wal[i]
  BY <1>1, <1>3, WrittenIs
<1>5. /\ Torn \in SlotContents /\ Torn.state # "valid" /\ TornAck \in AckContents /\ ~TornAck.valid
  BY DEF Torn, TornAck, SlotContents, AckContents
<1>6. /\ slots \in [0 .. 1 -> SlotContents] /\ slotsFlushed \in [0 .. 1 -> SlotContents]
      /\ acks \in [0 .. 1 -> AckContents] /\ acksFlushed \in [0 .. 1 -> AckContents]
  BY <1>0 DEF Types
<1>7. slots' \in [0 .. 1 -> SlotContents] /\ \A i \in 0 .. 1 : slots'[i] \in {slots[i], slotsFlushed[i], Torn}
  BY <1>1, <1>5, <1>6, OutcomeIs
<1>8. acks' \in [0 .. 1 -> AckContents] /\ \A i \in 0 .. 1 : acks'[i] \in {acks[i], acksFlushed[i], TornAck}
  BY <1>1, <1>5, <1>6, OutcomeIs
<1>9. phase' = "down" /\ Operation' /\ Memory' /\ Checkpoint' /\ cp'.stage = "none"
  BY <1>1, ForgottenIs
<1>10. Types'
  <2>1. dirty \cup lost \cup promised \cup safe \subseteq 1 .. made /\ trouble \in Nat
    BY <1>0 DEF Types
  <2>2. (dirty \cup lost \cup promised \cup safe)' \subseteq 1 .. made' /\ trouble' \in Nat
    BY <2>1, <1>1, <1>2
  <2>3. soft' \in BOOLEAN
    <3>1. soft' = (soft \/ (Strict /\ (UnflushedFrames \/ SlotAhead(slots', wal')))) /\ soft \in BOOLEAN
      BY <1>0 DEF PowerLoss, Types
    <3> QED
      BY <3>1
  <2>4. durability' \in Durabilities /\ made' \in Nat /\ based' \in Seq(Seq(Nat)) /\ Len(based') = made'
    BY <1>0, <1>1 DEF Types
  <2>5. {slots, slotsFlushed}' \subseteq [0 .. 1 -> SlotContents] /\ {acks, acksFlushed}' \subseteq [0 .. 1 -> AckContents]
    BY <1>1, <1>7, <1>8
  <2> QED
    BY <2>2, <2>3, <2>4, <2>5, <1>1, <1>4, ForgottenTypes
<1>11. Past'
  BY <1>0, <1>1, PastStays
<1>12. Cores(slots)' \subseteq Contents /\ Cores(slotsFlushed)' = Cores(slots)' /\ Contents' \subseteq Contents
  <2>1. Cores(slots)' \subseteq Contents
    BY <1>5, <1>7 DEF Cores, Contents
  <2>2. Cores(slotsFlushed)' = Cores(slots)'
    BY <1>1 DEF Cores
  <2> QED
    BY <2>1, <2>2 DEF Contents
<1>13. /\ Logged(based, wal)' /\ Lines(based, wal)' \subseteq Lines(based, wal) \cup Lines(based, walFlushed)
       /\ Logged(based, walFlushed)' /\ Lines(based, walFlushed)' = Lines(based, wal)'
  <2>1. Logged(based, wal') /\ Lines(based, wal') \subseteq Lines(based, wal) \cup Lines(based, walFlushed)
    <3>1. CASE wal' = walFlushed
      BY <3>1, <1>0 DEF OneLine
    <3>2. CASE \A i \in Frames(wal') : i \in Frames(wal) /\ wal'[i] = wal[i]
      <4>1. Logged(based, wal') /\ Lines(based, wal') \subseteq Lines(based, wal)
        BY <3>2, <1>0, Thinner DEF OneLine
      <4> QED
        BY <4>1
    <3> QED
      BY <3>1, <3>2, <1>4
  <2> QED
    BY <2>1, <1>1
<1>14. Contents \subseteq Present \cup Flushed /\ Present' \cup Flushed' \subseteq Present \cup Flushed
  <2>1. Contents \subseteq Present \cup Flushed
    BY DEF Contents, Present, Flushed
  <2>2. Lines(based, wal) \cup Lines(based, walFlushed) \subseteq Present \cup Flushed
    BY DEF Present, Flushed
  <2> QED
    BY <2>1, <2>2, <1>12, <1>13 DEF Present, Flushed
<1>15. OneLine'
  <2>1. \A c \in Contents' : Hist(based, c)'
    BY <1>0, <1>1, <1>12 DEF OneLine
  <2>2. \A c \in Contents' : \A h \in Present' \cup Flushed' : Agree(c, h)
    BY <1>0, <1>12, <1>14 DEF OneLine
  <2> QED
    BY <2>1, <2>2, <1>13 DEF OneLine
<1>16. Strict' = Strict /\ promised' \subseteq Firm /\ Firm' \subseteq Firm
  <2>1. Strict' = Strict
    BY <1>1 DEF Strict
  <2> QED
    BY <2>1, <1>1 DEF Firm
<1>17. Sworn'
  <2>1. \A o \in Firm : Line(based, o)' = Line(based, o)
    BY <1>1 DEF Line
  <2>2. \A o \in Firm : \A h \in Present' \cup Flushed' : Agree(Line(based, o), h)
    BY <1>0, <1>14 DEF Sworn
  <2> QED
    BY <2>1, <2>2, <1>16 DEF Sworn
<1>18. Surpassed'
  <2>1. ASSUME NEW c \in Cores(slotsFlushed)'
        PROVE  Reaches(Len(c))'
    <3>1. PICK i \in 0 .. 1 : slots'[i].state = "valid" /\ c = slots'[i].core
      BY <2>1, <1>1 DEF Cores
    <3>2. i \in Standing'
      BY <3>1, <1>9 DEF Standing
    <3>3. Len(c) \in Nat
      BY <3>1, <1>10, SlotIs, <1>7 DEF SlotContents
    <3>4. Len(c) <= Len(slots'[i].core)
      BY <3>1, <3>3
    <3> QED
      BY <3>2, <3>4 DEF Reaches
  <2> QED
    BY <2>1, <1>13 DEF Surpassed
<1>19. \A n \in Nat : Acked(n) => Acked(n)'
  <2>1. \A i \in 0 .. 1 : acks'[i] \in {acks[i], acksFlushed[i]} \/ ~acks'[i].valid
    BY <1>5, <1>8
  <2> QED
    BY <2>1, <1>1, <1>9, AckedStays
<1>20. ASSUME NEW n \in Nat, Backed(n)
       PROVE  Backed(n)' /\ (OnDisk(n)' \/ Acked(n)')
  <2>1. CASE n = 0
    BY <2>1 DEF Backed, OnDisk
  <2>2. CASE Acked(n)
    BY <2>2, <1>19 DEF Backed
  <2>3. ASSUME NEW p \in Frames(wal), Readable(p), n <= wal[p].seq, p <= Len(walFlushed),
               \A i \in 1 .. p : wal[i] = walFlushed[i] /\ (wal[i].k = "frame" => wal[i].op \notin dirty)
        PROVE  Backed(n)' /\ OnDisk(n)'
    <3>1. p \in 1 .. Len(wal) /\ p \in 0 .. Len(wal) /\ wal[p].k = "frame"
      BY <1>3 DEF Frames
    <3>2. p <= Len(wal') /\ \A i \in 1 .. p : wal'[i] = wal[i]
      BY <2>3, <3>1, <1>4
    <3>3. p \in Frames(wal') /\ n <= wal'[p].seq
      BY <2>3, <3>1, <3>2, <1>4 DEF Frames
    <3>4. \A i \in 1 .. p : wal'[i].k \in Whole /\ (wal'[i].k = "frame" => wal'[i].op \notin lost')
      BY <2>3, <3>2, <1>2 DEF Readable
    <3>5. Readable(p)'
      BY <3>3, <3>4 DEF Readable
    <3> QED
      BY <3>2, <3>3, <3>5, <1>1 DEF Backed, OnDisk
  <2> QED
    BY <2>1, <2>2, <2>3, <1>20 DEF Backed
<1>21. Durable'
  <2>1. \A o \in promised \cup Firm : Place(based, o) \in Nat /\ Place(based, o)' = Place(based, o)
    BY <1>0, <1>1, SwornIs DEF Place
  <2>2. CASE Strict
    <3>1. ASSUME NEW o \in promised
          PROVE  Acked(Place(based, o))'
      <4>1. PICK n \in Nat : n = Place(based, o) /\ n = Place(based, o)'
        BY <2>1
      <4>2. Acked(n)
        BY <2>2, <4>1, <1>0 DEF Durable
      <4> QED
        BY <4>1, <4>2, <1>19
    <3> QED
      BY <2>2, <3>1, <1>1, <1>16 DEF Durable
  <2>3. CASE ~Strict
    <3>1. ASSUME NEW c \in Contents'
          PROVE  Backed(Len(c))'
      <4>1. c \in Contents /\ Len(c) \in Nat
        BY <1>0, <1>12, DiskIs
      <4>2. PICK n \in Nat : n = Len(c)
        BY <4>1
      <4>3. Backed(n)
        BY <2>3, <4>1, <4>2, <1>0 DEF Durable
      <4> QED
        BY <4>2, <4>3, <1>20
    <3>2. ASSUME NEW o \in safe
          PROVE  Backed(Place(based, o))' /\ (OnDisk(Place(based, o))' \/ Acked(Place(based, o))')
      <4>1. PICK n \in Nat : n = Place(based, o) /\ n = Place(based, o)'
        BY <2>1, <2>3 DEF Firm
      <4>2. Backed(n)
        BY <2>3, <4>1, <1>0 DEF Durable
      <4> QED
        BY <4>1, <4>2, <1>20
    <3>3. \A o \in promised' : o \in safe
      BY <2>3, <1>1
    <3> QED
      BY <2>3, <3>1, <3>2, <3>3, <1>1, <1>9, <1>16 DEF Durable
  <2> QED
    BY <2>2, <2>3
<1> QED
  BY <1>9, <1>10, <1>11, <1>15, <1>17, <1>18, <1>21 DEF Good

(***************************************************************************)
(* Recovery.                                                               *)
(***************************************************************************)
LEMMA LastAckIs ==
  ASSUME Types, ~AcksRefused
  PROVE  /\ LastAck \in AckContents /\ LastAck.seq \in Nat
         /\ \A i \in 0 .. 1 : acks[i].valid /\ acks[i].seq <= LastAck.seq
<1>1. acks \in [0 .. 1 -> AckContents]
  BY DEF Types
<1>2. acks[0] \in AckContents /\ acks[1] \in AckContents
  BY <1>1
<1>3. acks[0].seq \in Nat /\ acks[1].seq \in Nat
  BY <1>2 DEF AckContents
<1>4. \A i \in 0 .. 1 : acks[i].valid
  BY DEF AcksRefused
<1>5. LastAck \in {acks[0], acks[1]} /\ acks[0].seq <= LastAck.seq /\ acks[1].seq <= LastAck.seq
  BY <1>3 DEF LastAck
<1>6. \A i \in 0 .. 1 : acks[i].seq <= LastAck.seq
  <2> TAKE i \in 0 .. 1
  <2>1. i = 0 \/ i = 1
    OBVIOUS
  <2> QED
    BY <2>1, <1>5
<1> QED
  BY <1>2, <1>3, <1>4, <1>5, <1>6

(* A strict log keeps every frame, or recovery refuses it. *)
LEMMA StrictTail ==
  ASSUME Types, Strict, ~FramesRefused, ~TailRefused, NEW i \in Frames(wal)
  PROVE  i \in FramesTo(Replayed)
<1> DEFINE n == WholeCells
<1>1. Unverified = {}
  BY DEF FramesRefused
<1>2. Replayed = n
  BY <1>1, ReplayedIs
<1>3. /\ n \in 0 .. Len(wal) /\ Len(wal) \in Nat /\ wal \in Seq(Cells)
      /\ \A j \in 1 .. n : wal[j].k \in Whole
      /\ \A m \in 0 .. Len(wal) : (\A j \in 1 .. m : wal[j].k \in Whole) => m <= n
  BY Facts, WholeIs
<1>4. i \in 1 .. Len(wal) /\ wal[i].k = "frame"
  BY DEF Frames
<1>5. ASSUME n < i
      PROVE  FALSE
  <2>1. n + 1 \in 1 .. Len(wal) /\ n + 1 \in 0 .. Len(wal) /\ n < Len(wal) /\ n + 1 <= i
    BY <1>3, <1>4, <1>5
  <2>2. wal[n + 1].k \notin Whole
    <3> SUFFICES ASSUME wal[n + 1].k \in Whole PROVE FALSE
      OBVIOUS
    <3>1. \A j \in 1 .. n + 1 : wal[j].k \in Whole
      <4> TAKE j \in 1 .. n + 1
      <4>1. j \in 1 .. n \/ j = n + 1
        BY <1>3
      <4> QED
        BY <4>1, <1>3
    <3>2. n + 1 <= n
      BY <2>1, <3>1, <1>3
    <3> QED
      BY <3>2, <1>3
  <2>3. wal[n + 1] \in Cells
    BY <2>1, <1>3, ElementOfSeq
  <2>4. wal[n + 1].k \in {"zero", "short"}
    BY <2>2, <2>3 DEF Cells, Whole
  <2>5. CASE wal[n + 1].k = "zero"
    <3>1. \A j \in n + 1 .. Len(wal) : wal[j].k = "zero"
      BY <2>1, <2>5, <1>1 DEF TailRefused, ZeroedFrameEndsLog
    <3>2. i \in n + 1 .. Len(wal)
      BY <2>1, <1>4, <1>3
    <3> QED
      BY <3>1, <3>2, <1>4
  <2>6. CASE wal[n + 1].k = "short"
    <3>1. ~(n + 1 < Len(wal))
      BY <2>1, <2>6, <1>1 DEF TailRefused
    <3>2. i = n + 1
      BY <3>1, <2>1, <1>3, <1>4
    <3> QED
      BY <3>2, <2>6, <1>4
  <2> QED
    BY <2>4, <2>5, <2>6
<1> QED
  BY <1>2, <1>3, <1>4, <1>5 DEF FramesTo

(* What recovery can still read, it reads. *)
LEMMA ReadableRead ==
  ASSUME Types, NEW p \in Frames(wal), Readable(p)
  PROVE  p \in FramesTo(Replayed)
<1>1. p \in 1 .. Len(wal) /\ Len(wal) \in Nat /\ wal[p].k = "frame"
  BY Facts DEF Frames
<1>2. p <= WholeCells /\ p \in 0 .. WholeCells
  <2>1. p \in 0 .. Len(wal) /\ \A i \in 1 .. p : wal[i].k \in Whole
    BY <1>1 DEF Readable
  <2>2. WholeCells \in 0 .. Len(wal) /\ p <= WholeCells
    BY <2>1, WholeIs
  <2> QED
    BY <2>2, <1>1
<1>3. \A i \in FramesTo(p) : i \notin Unverified
  BY DEF FramesTo, Unverified, Readable
<1>4. p <= Replayed /\ Replayed \in 0 .. WholeCells
  BY <1>2, <1>3, ReplayedIs
<1>5. WholeCells \in 0 .. Len(wal)
  BY WholeIs
<1> QED
  BY <1>1, <1>4, <1>5 DEF FramesTo

(* Nothing that is backed is longer than what recovery returns. *)
LEMMA RecoveredLong ==
  ASSUME Good, ~RecoveryRefused
  PROVE  /\ RecoveredCore \in Seq(Nat) /\ Len(RecoveredCore) \in Nat /\ Hist(based, RecoveredCore)
         /\ Begins(Base, RecoveredCore) /\ LastAck.seq <= Len(RecoveredCore)
         /\ \A n \in Nat : Reaches(n) => Valid # {} /\ n <= Len(Base) /\ n <= Len(RecoveredCore)
         /\ \A n \in Nat : Acked(n) => n <= LastAck.seq /\ n <= Len(RecoveredCore)
         /\ \A n \in Nat : OnDisk(n) => n <= Len(RecoveredCore)
         /\ \A n \in Nat : Backed(n) => n <= Len(RecoveredCore)
<1> DEFINE x == RecoveredCore
<1>0. Types /\ Past /\ OneLine
  BY DEF Good
<1>1. ~SlotsRefused /\ ~AcksRefused /\ ~FramesRefused /\ ~(Len(x) < LastAck.seq)
  BY DEF RecoveryRefused
<1>2. /\ x \in Seq(Nat) /\ Hist(based, x) /\ Begins(Base, x)
      /\ \A i \in FramesTo(Replayed) : Begins(Line(based, wal[i].op), x)
  BY <1>0, <1>1, RecoveredIs
<1>3. Len(x) \in Nat
  <2> HIDE DEF x
  <2> QED
    BY <1>2
<1>4. /\ Len(Base) \in Nat /\ Base \in Seq(Nat) /\ \A c \in Cores(slots) : Begins(c, Base)
  BY <1>0, <1>1, BaseIs
<1>5. LastAck.seq \in Nat /\ \A i \in 0 .. 1 : acks[i].valid /\ acks[i].seq \in Nat /\ acks[i].seq <= LastAck.seq
  <2>1. \A i \in 0 .. 1 : acks[i].seq \in Nat
    BY <1>0 DEF Types, AckContents
  <2> QED
    BY <2>1, <1>0, <1>1, LastAckIs
<1>6. LastAck.seq <= Len(x)
  <2> HIDE DEF x
  <2> QED
    BY <1>1, <1>3, <1>5
<1>7. Len(Base) <= Len(x)
  BY <1>2 DEF Begins
<1>8. ASSUME NEW n \in Nat, Reaches(n)
      PROVE  Valid # {} /\ n <= Len(Base) /\ n <= Len(x)
  <2>1. PICK i \in 0 .. 1 : slots[i].state = "valid" /\ n <= Len(slots[i].core)
    BY <1>0, <1>8 DEF Reaches, Standing, Types
  <2>2. Valid # {} /\ slots[i].core \in Cores(slots)
    BY <2>1 DEF Valid, Cores
  <2>3. Len(slots[i].core) <= Len(Base) /\ Len(slots[i].core) \in Nat
    BY <2>2, <1>0, <1>4, SlotIs, LenProperties DEF Begins
  <2> HIDE DEF x
  <2> QED
    BY <2>1, <2>2, <2>3, <1>3, <1>4, <1>7
<1>9. ASSUME NEW n \in Nat, Acked(n)
      PROVE  n <= LastAck.seq /\ n <= Len(x)
  <2>1. PICK i \in 0 .. 1 : acks[i].valid => n <= acks[i].seq
    BY <1>9 DEF Acked
  <2>2. n <= LastAck.seq
    BY <2>1, <1>5
  <2> HIDE DEF x
  <2> QED
    BY <2>2, <1>3, <1>5, <1>6
<1>10. ASSUME NEW n \in Nat, NEW p \in Frames(wal), Readable(p), n <= wal[p].seq
       PROVE  n <= Len(x)
  <2>1. Begins(Line(based, wal[p].op), x)
    BY <1>0, <1>2, <1>10, ReadableRead
  <2>2. Len(Line(based, wal[p].op)) = wal[p].seq /\ wal[p].seq \in Nat
    BY <1>0, FrameIs
  <2>3. wal[p].seq <= Len(x)
    BY <2>1, <2>2 DEF Begins
  <2> HIDE DEF x
  <2> QED
    BY <2>2, <2>3, <1>3, <1>10
<1>11. ASSUME NEW n \in Nat, OnDisk(n)
       PROVE  n <= Len(x)
  BY <1>3, <1>8, <1>10, <1>11 DEF OnDisk
<1>12. ASSUME NEW n \in Nat, Backed(n)
       PROVE  n <= Len(x)
  BY <1>3, <1>9, <1>10, <1>12 DEF Backed
<1> QED
  BY <1>2, <1>3, <1>6, <1>8, <1>9, <1>11, <1>12

(* What recovery returns continues everything that is on the disk and       *)
(* everything that was promised.                                            *)
LEMMA RecoveredContinues ==
  ASSUME Good, ~RecoveryRefused, phase # "refused"
  PROVE  /\ \A c \in Contents : Begins(c, RecoveredCore)
         /\ \A o \in promised \cup Firm : Begins(Line(based, o), RecoveredCore)
<1> DEFINE x == RecoveredCore
<1>0. Types /\ Past /\ OneLine /\ Sworn /\ Surpassed /\ Durable /\ Memory
  BY DEF Good
<1>1. ~SlotsRefused /\ ~FramesRefused
  BY DEF RecoveryRefused
<1>2. /\ x \in Seq(Nat) /\ Len(x) \in Nat /\ Begins(Base, x)
      /\ \A n \in Nat : Acked(n) => n <= Len(x)
      /\ \A n \in Nat : OnDisk(n) => n <= Len(x)
      /\ \A n \in Nat : Backed(n) => n <= Len(x)
  BY RecoveredLong
<1>3. x \in Present \cup {<< >>}
  BY <1>0, <1>1, RecoveredIs
<1>4. Base \in Seq(Nat) /\ \A c \in Cores(slots) : Begins(c, Base)
  BY <1>0, <1>1, BaseIs
<1>5. \A h \in Present \cup Flushed \cup Contents : h \in Seq(Nat)
  BY <1>0, DiskIs
<1>6. ASSUME NEW c \in Cores(slots)
      PROVE  Begins(c, x)
  <2>1. c \in Seq(Nat)
    BY <1>5 DEF Contents
  <2> HIDE DEF x
  <2> QED
    BY <2>1, <1>2, <1>4, BeginsTrans
<1>7. ASSUME NEW c \in Cores(slotsFlushed)
      PROVE  Begins(c, x)
  <2>1. Reaches(Len(c)) /\ c \in Flushed /\ c \in Seq(Nat) /\ Len(c) \in Nat
    BY <1>0, <1>5 DEF Surpassed, Flushed
  <2>2. PICK i \in 0 .. 1 : slots[i].state = "valid" /\ Len(c) <= Len(slots[i].core)
    BY <2>1, <1>0 DEF Reaches, Standing, Types
  <2>3. PICK d \in Cores(slots) : d = slots[i].core
    BY <2>2 DEF Cores
  <2>4. d \in Contents /\ d \in Seq(Nat)
    BY <1>5 DEF Contents
  <2>5. Agree(d, c)
    BY <2>1, <2>4, <1>0 DEF OneLine
  <2>6. Begins(c, d)
    BY <2>1, <2>2, <2>3, <2>4, <2>5, AgreeSym, AgreeBegins
  <2>7. Begins(d, x)
    BY <1>6
  <2> HIDE DEF x
  <2> QED
    BY <2>1, <2>4, <2>6, <2>7, <1>2, BeginsTrans
<1>8. ASSUME NEW o \in promised \cup Firm
      PROVE  Begins(Line(based, o), x)
  <2>1. /\ o \in 1 .. made /\ Line(based, o) \in Seq(Nat) /\ Place(based, o) \in Nat
        /\ Len(Line(based, o)) = Place(based, o)
    BY <1>0, SwornIs
  <2>2. Place(based, o) # 0
    BY <2>1, <1>0, LineIs
  <2>3. Place(based, o) <= Len(x)
    <3>1. CASE Strict
      <4>1. Acked(Place(based, o))
        BY <3>1, <1>0 DEF Durable, Firm
      <4> HIDE DEF x
      <4> QED
        BY <4>1, <2>1, <1>2
    <3>2. CASE ~Strict /\ o \in safe
      <4>1. Backed(Place(based, o))
        BY <3>2, <1>0 DEF Durable
      <4> HIDE DEF x
      <4> QED
        BY <4>1, <2>1, <1>2
    <3>3. CASE ~Strict /\ o \in promised /\ phase = "down"
      <4>1. OnDisk(Place(based, o)) \/ Acked(Place(based, o))
        BY <3>3, <1>0 DEF Durable
      <4> HIDE DEF x
      <4> QED
        BY <4>1, <2>1, <1>2
    <3>4. CASE ~Strict /\ o \in promised /\ phase = "open"
      <4>1. OnDisk(Len(core)) /\ Len(core) \in Nat
        BY <3>4, <1>0, Facts DEF Durable
      <4>2. Begins(Line(based, o), core)
        BY <3>4, <1>0 DEF Memory
      <4>3. Place(based, o) <= Len(core)
        BY <4>2, <2>1 DEF Begins
      <4>4. Len(core) <= Len(x)
        BY <4>1, <1>2
      <4> HIDE DEF x
      <4> QED
        BY <4>1, <4>3, <4>4, <2>1, <1>2
    <3>5. phase \in {"open", "down"}
      BY <1>0 DEF Types
    <3> QED
      BY <3>1, <3>2, <3>3, <3>4, <3>5 DEF Firm
  <2>4. x # << >>
    <3> HIDE DEF x
    <3> QED
      BY <2>1, <2>2, <2>3
  <2>5. x \in Present
    BY <2>4, <1>3
  <2>6. Agree(Line(based, o), x)
    BY <2>5, <1>0 DEF Sworn
  <2> HIDE DEF x
  <2> QED
    BY <2>1, <2>3, <2>6, <1>2, AgreeBegins
<1> QED
  BY <1>6, <1>7, <1>8 DEF Contents

LEMMA RecoverStep ==
  ASSUME Good, phase # "refused", ~RecoveryRefused, Recover, wal' = TailCutOff, op = NoOp, cp = NoCheckpoint,
         UNCHANGED <<walFlushed, slots, slotsFlushed, acks, acksFlushed, dirty, lost, op, cp, retry, durability, made,
                     trouble, promised, safe, based>>
  PROVE  Good'
<1> DEFINE x == RecoveredCore
           r == Replayed
           l == LastFrame(r)
<1>0. Types /\ Past /\ OneLine /\ Durable
  BY DEF Good
<1>1. ~SlotsRefused /\ ~AcksRefused /\ ~FramesRefused /\ ~TailRefused
  BY DEF RecoveryRefused
<1>2. /\ phase' = "open" /\ poisoned' = FALSE /\ core' = x /\ end' = l /\ newest' = Selected /\ latest' = LastAck
      /\ generation' = (IF Valid = {} THEN generation ELSE slots[Selected].gen)
      /\ soft' = (soft \/ slots[Selected] # slotsFlushed[Selected])
  BY DEF Recover
<1>3. /\ x \in Seq(Nat) /\ Len(x) \in Nat /\ Hist(based, x) /\ Begins(Base, x) /\ LastAck.seq <= Len(x)
      /\ \A n \in Nat : Reaches(n) => Valid # {} /\ n <= Len(Base)
      /\ \A n \in Nat : Acked(n) => n <= LastAck.seq
  BY RecoveredLong
<1>4. /\ \A i \in FramesTo(r) : Begins(Line(based, wal[i].op), x) /\ wal[i].op \notin lost
      /\ x = Base \/ (l # 0 /\ Len(x) = wal[l].seq)
  BY <1>0, <1>1, RecoveredIs
<1>5. /\ Selected \in 0 .. 1 /\ Len(Base) \in Nat
      /\ Valid # {} => slots[Selected].state = "valid" /\ slots[Selected].core = Base
      /\ Valid = {} => Base = << >>
  BY <1>0, <1>1, BaseIs
<1>6. /\ Len(wal) \in Nat /\ wal \in Seq(Cells) /\ r \in 0 .. Len(wal)
      /\ \A i \in 1 .. r : i \in 1 .. Len(wal) /\ wal[i].k \in Whole
  <2>1. /\ WholeCells \in 0 .. Len(wal) /\ \A i \in 1 .. WholeCells : wal[i].k \in Whole
    BY <1>0, WholeIs
  <2>2. Replayed \in 0 .. WholeCells
    BY <1>0, ReplayedIs
  <2> QED
    BY <2>1, <2>2, <1>0, Facts
<1>7. l \in 0 .. r /\ (l # 0 => l \in FramesTo(r)) /\ \A i \in FramesTo(r) : i <= l /\ i \in 1 .. r
  BY <1>0, <1>6, LastFrameIs
<1>8. l \in 0 .. Len(wal) /\ l \in Nat /\ r \in Nat
  BY <1>6, <1>7
<1>9. /\ wal' \in Seq(Cells) /\ Len(wal') = l /\ \A i \in 1 .. l : wal'[i] = wal[i]
  <2>1. wal' = SubSeq(wal, 1, l)
    BY DEF TailCutOff
  <2> HIDE DEF l
  <2> QED
    BY <2>1, <1>6, <1>8
<1>10. \A i \in Frames(wal') : i \in Frames(wal) /\ i \in FramesTo(r) /\ wal'[i] = wal[i]
  <2> TAKE i \in Frames(wal')
  <2>1. i \in 1 .. l /\ wal'[i] = wal[i] /\ wal[i].k = "frame"
    BY <1>9 DEF Frames
  <2>2. i \in 1 .. r /\ i \in 1 .. Len(wal)
    BY <2>1, <1>6, <1>7, <1>8
  <2> QED
    BY <2>1, <2>2 DEF Frames, FramesTo
<1>11. \A i \in FramesTo(r) : i \in Frames(wal')
  <2> TAKE i \in FramesTo(r)
  <2>1. i \in 1 .. l /\ wal[i].k = "frame"
    BY <1>7, <1>8 DEF FramesTo
  <2> QED
    BY <2>1, <1>9 DEF Frames
<1>12. \A p \in Frames(wal) : Readable(p) => p <= l
  BY <1>0, <1>7, ReadableRead
<1>13. Sound'
  <2>1. ASSUME NEW i \in 1 .. Len(wal')
        PROVE  wal'[i].k \in Whole /\ (wal'[i].k = "frame" => wal'[i].op \notin lost')
    <3>1. i \in 1 .. l /\ i \in 1 .. r /\ wal'[i] = wal[i] /\ wal[i].k \in Whole
      BY <2>1, <1>6, <1>7, <1>8, <1>9
    <3>2. wal[i].k = "frame" => i \in FramesTo(r)
      BY <3>1 DEF FramesTo
    <3> QED
      BY <3>1, <3>2, <1>4
  <2> QED
    BY <2>1 DEF Sound
<1>14. Types'
  <2>1. core' \in Seq(1 .. made')
    BY <1>0, <1>2, <1>3, HistType
  <2>2. latest' \in AckContents
    BY <1>0, <1>1, <1>2, LastAckIs
  <2>3. generation' \in Nat
    BY <1>0, <1>2, <1>5, SlotIs DEF Types
  <2>4. soft' \in BOOLEAN /\ poisoned' \in BOOLEAN
    BY <1>0, <1>2 DEF Types
  <2>5. end' \in 0 .. Len(wal') + 1
    BY <1>2, <1>8, <1>9
  <2>6. wal' \in Seq(Cells) /\ newest' \in 0 .. 1
    BY <1>2, <1>5, <1>9
  <2> HIDE DEF x, l
  <2> QED
    BY <2>1, <2>2, <2>3, <2>4, <2>5, <2>6, <1>0, <1>2 DEF Types
<1>15. Past' /\ Extends(based')
  BY <1>0, PastStays
<1>16. /\ Strict' = Strict /\ Firm' = Firm /\ Cores(slots)' = Cores(slots) /\ Cores(slotsFlushed)' = Cores(slotsFlushed)
       /\ Contents' = Contents
  BY DEF Strict, Firm, Cores, Contents
<1>17. \A n \in Nat : n <= Len(Base) /\ Valid # {} => Reaches(n)'
  BY <1>2, <1>5 DEF Reaches, Standing
<1>18. \A n \in Nat : Reaches(n) => Reaches(n)'
  BY <1>3, <1>17
<1>19. ASSUME NEW n \in Nat, Acked(n)
       PROVE  Acked(n)'
  <2>1. n <= LastAck.seq
    BY <1>3, <1>19
  <2> QED
    BY <2>1, <1>2, <1>19 DEF Acked
<1>20. Len(wal') \in Nat /\ l <= Len(wal')
  BY <1>8, <1>9
<1>21. ASSUME NEW n \in Nat, OnDisk(n)
       PROVE  OnDisk(n)'
  <2> HIDE DEF l
  <2> QED
    BY <1>0, <1>8, <1>9, <1>12, <1>18, <1>20, <1>21, OnDiskStays
<1>22. ASSUME NEW n \in Nat, Backed(n)
       PROVE  Backed(n)'
  <2> HIDE DEF l
  <2> QED
    BY <1>0, <1>8, <1>9, <1>12, <1>19, <1>20, <1>22, BackedStays
<1>23. /\ OneLine' /\ Sworn' /\ Surpassed'
       /\ Present' \subseteq Present /\ Contents' \subseteq Contents
  <2>1. /\ promised' \subseteq promised /\ Firm' \subseteq Firm /\ Cores(slotsFlushed)' \subseteq Contents
    BY <1>16 DEF Contents
  <2>2. ASSUME Strict, NEW h \in Lines(based, wal)
        PROVE  h \in Lines(based, wal)'
    <3>1. PICK i \in Frames(wal) : h = Line(based, wal[i].op)
      BY DEF Lines
    <3>2. i \in Frames(wal') /\ wal'[i] = wal[i]
      BY <2>2, <1>0, <1>1, <1>10, <1>11, StrictTail
    <3>3. h = Line(based', wal'[i].op)
      BY <3>1, <3>2
    <3> QED
      BY <3>2, <3>3 DEF Lines
  <2>3. \A i \in Frames(wal') : i \in Frames(wal) /\ wal'[i] = wal[i]
    BY <1>10
  <2> QED
    BY <2>1, <2>2, <2>3, <1>15, <1>16, <1>18, KeptStep
<1>24. Durable'
  <2>1. OnDisk(Len(core))'
    <3>1. PICK n \in Nat : n = Len(x)
      BY <1>3
    <3>2. CASE x = Base
      <4>1. n = 0 \/ Reaches(n)'
        <5> HIDE DEF x
        <5> QED
          BY <3>1, <3>2, <1>5, <1>17
      <4>2. OnDisk(n)'
        BY <4>1 DEF OnDisk
      <4> QED
        BY <4>2, <3>1, <1>2
    <3>3. CASE l # 0 /\ Len(x) = wal[l].seq
      <4>1. l \in FramesTo(r) /\ l \in 1 .. l
        BY <3>3, <1>7, <1>8
      <4>2. PICK p : p = l
        OBVIOUS
      <4>3. p \in Frames(wal') /\ wal'[p].seq = n /\ n <= wal'[p].seq
        BY <4>1, <4>2, <3>1, <3>3, <1>9, <1>11
      <4>4. Readable(p)'
        BY <4>3, <1>13, <1>14, <1>20 DEF Readable, Sound, Frames
      <4>5. OnDisk(n)'
        BY <4>3, <4>4 DEF OnDisk
      <4> QED
        BY <4>5, <3>1, <1>2
    <3> QED
      BY <3>2, <3>3, <1>4
  <2>2. cp'.stage = "none" /\ phase' # "down" /\ \A c \in Contents' : c \in Contents
    BY <1>2, <1>16 DEF NoCheckpoint
  <2> HIDE DEF x
  <2> QED
    BY <2>1, <2>2, <1>0, <1>15, <1>19, <1>21, <1>22, DurableSteady
<1>25. Memory'
  <2>1. Hist(based', core') /\ latest'.seq <= Len(core')
    BY <1>2, <1>3
  <2>2. ASSUME NEW h \in Lines(based, wal)'
        PROVE  Begins(h, x)
    <3>1. PICK i \in Frames(wal') : h = Line(based, wal'[i].op)
      BY DEF Lines
    <3> QED
      BY <3>1, <1>4, <1>10
  <2>3. \A c \in Contents : Begins(c, x)
    BY RecoveredContinues
  <2>4. \A h \in Present' \cup Contents' : Begins(h, core')
    BY <2>2, <2>3, <1>2, <1>16 DEF Present, Contents
  <2>5. \A o \in promised' \cup Firm' : Begins(Line(based', o), core')
    BY <1>2, <1>16, RecoveredContinues
  <2>6. cp'.stage = "none" /\ op'.stage = "none"
    BY DEF NoCheckpoint, NoOp
  <2>7. Len(wal') = end'
    BY <1>2, <1>9
  <2> HIDE DEF x, l
  <2> QED
    BY <2>1, <2>4, <2>5, <2>6, <2>7, <1>13 DEF Memory
<1>26. Operation'
  BY <1>2, NoOperation
<1>27. Checkpoint'
  BY DEF Checkpoint, NoCheckpoint
<1> QED
  BY <1>14, <1>15, <1>23, <1>24, <1>25, <1>26, <1>27 DEF Good

LEMMA GoodInv ==
  ASSUME Good
  PROVE  Inv
  BY DEF Good, Inv

LEMMA RefuseStep ==
  ASSUME Good, Refuse, op = NoOp, cp = NoCheckpoint,
         UNCHANGED <<walFlushed, slots, slotsFlushed, acks, acksFlushed, dirty, lost, op, cp, retry, durability, made,
                     trouble, promised, safe, based>>
  PROVE  Inv'
<1>0. Types /\ Past
  BY DEF Good
<1>1. phase' = "refused" /\ UNCHANGED <<wal, core, poisoned, end, newest, generation, latest, soft>>
  BY DEF Refuse
<1>2. Types'
  BY <1>0, <1>1 DEF Types
<1>3. Past'
  BY <1>0, PastStays
<1>4. Operation'
  <2>1. op'.stage = "none"
    BY DEF NoOp
  <2> QED
    BY <2>1, <1>1 DEF Operation, Busy
<1> QED
  BY <1>1, <1>2, <1>3, <1>4 DEF Inv

LEMMA OpenStep ==
  ASSUME Good, Open
  PROVE  Inv'
<1>1. phase = "down" /\ op = NoOp /\ cp = NoCheckpoint
  BY DEF Open, Good, Operation
<1>2. UNCHANGED <<walFlushed, slots, slotsFlushed, acks, acksFlushed, dirty, lost, op, cp, retry, durability, made,
                  trouble, promised, safe, based>>
  BY DEF Open, stepVars, countVars
<1>3. CASE RecoveryRefused
  BY <1>1, <1>2, <1>3, RefuseStep DEF Open
<1>4. CASE ~RecoveryRefused
  <2>1. Recover /\ wal' = TailCutOff /\ phase # "refused"
    BY <1>1, <1>4 DEF Open
  <2>2. Good'
    BY <2>1, <1>1, <1>2, <1>4, RecoverStep
  <2> QED
    BY <2>2 DEF Good, Inv
<1> QED
  BY <1>3, <1>4

LEMMA ReloadStep ==
  ASSUME Good, Reload
  PROVE  Inv'
<1>1. phase = "open" /\ op = NoOp /\ cp = NoCheckpoint
  BY DEF Reload, Good, Operation
<1>2. UNCHANGED <<walFlushed, slots, slotsFlushed, acks, acksFlushed, dirty, lost, op, cp, retry, durability, made,
                  trouble, promised, safe, based>>
  BY DEF Reload, stepVars, countVars
<1>3. CASE RecoveryRefused
  BY <1>1, <1>2, <1>3, RefuseStep DEF Reload
<1>4. CASE ~RecoveryRefused
  <2>1. Recover /\ wal' = TailCutOff /\ phase # "refused"
    BY <1>1, <1>4 DEF Reload
  <2>2. Good'
    BY <2>1, <1>1, <1>2, <1>4, RecoverStep
  <2> QED
    BY <2>2 DEF Good, Inv
<1> QED
  BY <1>3, <1>4

(***************************************************************************)
(* The invariant.                                                          *)
(***************************************************************************)
LEMMA InitGood ==
  ASSUME Init
  PROVE  Good
<1> USE DEF Init
<1>1. Len(wal) = 0 /\ Len(core) = 0 /\ wal \in Seq(Cells) /\ core \in Seq(1 .. made) /\ Frames(wal) = {} /\ Frames(walFlushed) = {}
  BY DEF Frames
<1>2. Empty \in SlotContents /\ Empty.state # "valid" /\ Ack(0, 0) \in AckContents
  <2>1. << >> \in Seq(Nat)
    OBVIOUS
  <2> QED
    BY <2>1 DEF Empty, SlotContents, Ack, AckContents
<1>3. op.stage = "none" /\ cp.stage = "none"
  BY DEF NoOp, NoCheckpoint
<1>4. Types
  <2>1. op \in [stage : {"none", "staged", "written", "flushed", "acked"}, id : Nat, start : Nat]
    BY DEF NoOp
  <2>2. cp \in [stage : CheckpointStages, mirror : BOOLEAN, slot : 0 .. 1, closing : BOOLEAN, gen : Nat,
                core : Seq(Nat), end : Nat]
    <3>1. << >> \in Seq(Nat)
      OBVIOUS
    <3> QED
      BY <3>1 DEF NoCheckpoint, CheckpointStages
  <2>3. {slots, slotsFlushed} \subseteq [0 .. 1 -> SlotContents] /\ {acks, acksFlushed} \subseteq [0 .. 1 -> AckContents]
    BY <1>2
  <2>4. based \in Seq(Seq(Nat)) /\ Len(based) = made /\ latest \in AckContents /\ walFlushed \in Seq(Cells)
    BY <1>1, <1>2
  <2>5. /\ durability \in Durabilities /\ phase \in {"open", "down", "refused"} /\ poisoned \in BOOLEAN /\ soft \in BOOLEAN
        /\ dirty \cup lost \cup promised \cup safe \subseteq 1 .. made
        /\ newest \in 0 .. 1 /\ generation \in Nat /\ retry = NoRetry /\ made \in Nat /\ trouble \in Nat
    OBVIOUS
  <2>6. end \in 0 .. Len(wal) + 1
    BY <1>1
  <2> QED
    BY <2>1, <2>2, <2>3, <2>4, <2>5, <2>6, <1>1 DEF Types
<1>5. Past
  BY DEF Past
<1>6. Cores(slots) = {} /\ Cores(slotsFlushed) = {} /\ Lines(based, wal) = {} /\ Lines(based, walFlushed) = {}
  BY <1>1, <1>2 DEF Cores, Lines
<1>7. Contents = {} /\ Present = {} /\ Flushed = {} /\ Firm = {}
  BY <1>6 DEF Contents, Present, Flushed, Firm
<1>8. OneLine
  BY <1>1, <1>7 DEF OneLine, Logged
<1>9. Sworn /\ Surpassed
  BY <1>6, <1>7 DEF Sworn, Surpassed
<1>10. Durable
  BY <1>1, <1>3, <1>7 DEF Durable, OnDisk
<1>11. Memory
  <2>1. Hist(based, core)
    BY <1>1 DEF Hist
  <2>2. latest.seq <= Len(core)
    BY <1>1 DEF Ack
  <2>3. Sound
    BY <1>1 DEF Sound
  <2> QED
    BY <2>1, <2>2, <2>3, <1>1, <1>3, <1>7 DEF Memory
<1>12. Operation /\ Checkpoint
  BY <1>3 DEF Operation, Busy, Checkpoint
<1> QED
  BY <1>4, <1>5, <1>8, <1>9, <1>10, <1>11, <1>12 DEF Good

LEMMA StutterStep ==
  ASSUME Inv, UNCHANGED vars
  PROVE  Inv'
<1>1. UNCHANGED <<wal, walFlushed, slots, slotsFlushed, acks, acksFlushed, dirty, lost, phase, core, poisoned, end, newest,
                  generation, latest, op, cp, retry, durability, made, trouble, promised, safe, based, soft>>
  BY DEF vars, fileVars, memoryVars, stepVars, countVars, historyVars
<1>2. Types' = Types /\ Past' = Past
  BY <1>1 DEF Types, Past
<1>3. Strict' = Strict /\ Present' = Present /\ Flushed' = Flushed /\ Contents' = Contents /\ Standing' = Standing
  BY <1>1 DEF Strict, Present, Flushed, Contents, Standing, Cores, Lines
<1>4. Firm' = Firm /\ Stamped' = Stamped /\ Busy' = Busy /\ Sound' = Sound /\ SlotNow' = SlotNow
  BY <1>1, <1>3 DEF Firm, Stamped, Busy, Sound, SlotNow
<1>5. \A n : Reaches(n)' = Reaches(n) /\ Acked(n)' = Acked(n) /\ Readable(n)' = Readable(n)
  BY <1>1, <1>3 DEF Reaches, Acked, Readable
<1>6. \A n : OnDisk(n)' = OnDisk(n) /\ Backed(n)' = Backed(n)
  BY <1>1, <1>5 DEF OnDisk, Backed
<1>7. OneLine' = OneLine
  BY <1>1, <1>3 DEF OneLine
<1>8. Sworn' = Sworn /\ Surpassed' = Surpassed
  BY <1>1, <1>3, <1>4, <1>5 DEF Sworn, Surpassed, Cores, Lines
<1>9. Durable' = Durable
  BY <1>1, <1>3, <1>5, <1>6 DEF Durable, Place
<1>10. Memory' = Memory
  BY <1>1, <1>3, <1>4 DEF Memory, Lines, Line
<1>11. Operation' = Operation
  BY <1>1, <1>3, <1>4 DEF Operation, Line
<1>12. Checkpoint' = Checkpoint
  BY <1>1, <1>3, <1>4, <1>5 DEF Checkpoint
<1> QED
  BY <1>1, <1>2, <1>7, <1>8, <1>9, <1>10, <1>11, <1>12 DEF Inv

(* After recovery refused the files nothing happens. *)
LEMMA RefusedStays ==
  ASSUME Inv, phase = "refused"
  PROVE  ~Next
<1>1. op.stage = "none" /\ cp.stage = "none"
  BY DEF Inv, Operation, NoOp, NoCheckpoint
<1>2. ~QueueTurn /\ ~LeaseLane
  BY DEF QueueTurn, LeaseLane
<1>3. /\ ~LogFlushed /\ (\A payload \in BOOLEAN : ~LogUnflushed(payload)) /\ ~Stage /\ ~Complete /\ ~Unstage
      /\ (\A cut \in BOOLEAN : ~AppendFails(cut)) /\ ~FlushFrame /\ (\A keep : ~FrameFails(keep))
  BY <1>1, <1>2 DEF LogFlushed, LogUnflushed, Stage, Complete, Unstage, AppendFails, FlushFrame, FrameFails
<1>4. /\ ~PublishFrame /\ ~Acknowledge /\ (\A torn \in BOOLEAN : ~PublishFails(torn))
      /\ (\A closing \in BOOLEAN : ~BeginCheckpoint(closing)) /\ ~TearSlot /\ ~WriteSlot /\ ~FlushSlot
  BY <1>1, <1>2 DEF PublishFrame, Acknowledge, PublishFails, BeginCheckpoint, TearSlot, WriteSlot, FlushSlot
<1>5. /\ ~Mirrored /\ ~FlushBoundary /\ ~Reset /\ ~FlushReset /\ ~CheckpointFails
  BY <1>1 DEF Mirrored, FlushBoundary, Reset, FlushReset, CheckpointFails
<1>6. /\ ~Shutdown /\ ~Open /\ ~Reload /\ (\A short, torn \in BOOLEAN : ~TabDies(short, torn)) /\ ~PowerLoss
  BY DEF Shutdown, Open, Reload, TabDies, PowerLoss
<1> QED
  BY <1>3, <1>4, <1>5, <1>6 DEF Next

LEMMA NextGood ==
  ASSUME Inv, Next
  PROVE  Good /\ phase # "refused"
  BY RefusedStays DEF Inv, Good

LEMMA NextStep ==
  ASSUME Inv, Next
  PROVE  Inv'
<1>1. Good
  BY NextGood
<1>2. CASE LogFlushed
  BY <1>1, <1>2, LogFlushedStep DEF Good, Inv
<1>3. ASSUME NEW payload \in BOOLEAN, LogUnflushed(payload)
      PROVE  Inv'
  BY <1>1, <1>3, LogUnflushedStep DEF Good, Inv
<1>4. CASE Stage
  BY <1>1, <1>4, StageStep DEF Good, Inv
<1>5. CASE Complete
  BY <1>1, <1>5, CompleteStep DEF Good, Inv
<1>6. CASE Unstage
  BY <1>1, <1>6, UnstageStep DEF Good, Inv
<1>7. ASSUME NEW cut \in BOOLEAN, AppendFails(cut)
      PROVE  Inv'
  BY <1>1, <1>7, AppendFailsStep DEF Good, Inv
<1>8. CASE FlushFrame
  BY <1>1, <1>8, FlushFrameStep DEF Good, Inv
<1>9. ASSUME NEW keep, FrameFails(keep)
      PROVE  Inv'
  BY <1>1, <1>9, FrameFailsStep DEF Good, Inv
<1>10. CASE PublishFrame
  BY <1>1, <1>10, PublishFrameStep DEF Good, Inv
<1>11. CASE Acknowledge
  BY <1>1, <1>11, AcknowledgeStep DEF Good, Inv
<1>12. ASSUME NEW torn \in BOOLEAN, PublishFails(torn)
       PROVE  Inv'
  BY <1>1, <1>12, PublishFailsStep DEF Good, Inv
<1>13. ASSUME NEW closing \in BOOLEAN, BeginCheckpoint(closing)
       PROVE  Inv'
  BY <1>1, <1>13, BeginCheckpointStep DEF Good, Inv
<1>14. CASE TearSlot
  BY <1>1, <1>14, TearSlotStep DEF Good, Inv
<1>15. CASE WriteSlot
  BY <1>1, <1>15, WriteSlotStep DEF Good, Inv
<1>16. CASE FlushSlot
  BY <1>1, <1>16, FlushSlotStep DEF Good, Inv
<1>17. CASE Mirrored
  BY <1>1, <1>17, MirroredStep DEF Good, Inv
<1>18. CASE FlushBoundary
  BY <1>1, <1>18, FlushBoundaryStep DEF Good, Inv
<1>19. CASE Reset
  BY <1>1, <1>19, ResetStep DEF Good, Inv
<1>20. CASE FlushReset
  BY <1>1, <1>20, FlushResetStep DEF Good, Inv
<1>21. CASE CheckpointFails
  BY <1>1, <1>21, CheckpointFailsStep DEF Good, Inv
<1>22. CASE Shutdown
  BY <1>1, <1>22, ShutdownStep DEF Good, Inv
<1>23. CASE Open
  BY <1>1, <1>23, OpenStep
<1>24. CASE Reload
  BY <1>1, <1>24, ReloadStep
<1>25. ASSUME NEW short \in BOOLEAN, NEW torn \in BOOLEAN, TabDies(short, torn)
       PROVE  Inv'
  BY <1>1, <1>25, TabDiesStep DEF Good, Inv
<1>26. CASE PowerLoss
  BY <1>1, <1>26, PowerLossStep DEF Good, Inv
<1> QED
  BY <1>2, <1>3, <1>4, <1>5, <1>6, <1>7, <1>8, <1>9, <1>10, <1>11, <1>12, <1>13, <1>14, <1>15, <1>16, <1>17, <1>18,
     <1>19, <1>20, <1>21, <1>22, <1>23, <1>24, <1>25, <1>26 DEF Next

(* What was written, flushed, promised and served lies on one line of       *)
(* operations, and recovery finds what was promised on it.                  *)
THEOREM Invariance == Spec => []Inv
<1>1. Init => Inv
  BY InitGood, GoodInv
<1>2. Inv /\ [Next]_vars => Inv'
  BY StutterStep, NextStep
<1> QED
  BY <1>1, <1>2, PTL DEF Spec

(* Whatever the leader does, every file, slot and step is of its kind.      *)
THEOREM TypeCorrect == Spec => []TypeOK
<1>1. Inv => TypeOK
  <2> SUFFICES ASSUME Inv PROVE TypeOK
    OBVIOUS
  <2>1. Types
    BY DEF Inv
  <2>2. \A i \in 0 .. 1 : slots[i].state \in {"empty", "torn", "valid"}
    BY <2>1, SlotIs DEF SlotContents
  <2> QED
    BY <2>1, <2>2 DEF Types, TypeOK
<1> QED
  BY <1>1, Invariance, PTL

(* A leader that serves (#loadFromDisk and every operation after it) holds  *)
(* every operation that was reported done and that its durability keeps.    *)
THEOREM AckedAlwaysSurvive == Spec => []AckedSurvive
<1>1. Inv => AckedSurvive
  <2> SUFFICES ASSUME Inv, phase = "open", NEW o \in promised
               PROVE  o \in ToSet(core)
    BY DEF AckedSurvive
  <2>1. Types /\ Past /\ Memory
    BY DEF Inv
  <2>2. o \in 1 .. made /\ core \in Seq(Nat)
    BY <2>1, Facts, SwornIs
  <2>3. Begins(Line(based, o), core)
    BY <2>1 DEF Memory
  <2> QED
    BY <2>1, <2>2, <2>3, Has
<1> QED
  BY <1>1, Invariance, PTL

(* The core that a leader serves is a history that happened: every          *)
(* operation in it was applied to exactly the operations before it.         *)
THEOREM HistoriesIntact == Spec => []HistoryIntact
<1>1. Inv => HistoryIntact
  BY DEF Inv, Memory, Hist, HistoryIntact
<1> QED
  BY <1>1, Invariance, PTL
--------------------------------------------------------------------------------
(***************************************************************************)
(* What memory says of the files, so that a reload finds it again.         *)
(***************************************************************************)
(* What a served log continues: the slot that is not about to be written.   *)
Floor == IF slots[newest].state = "valid" THEN slots[newest].core ELSE <<>>

(* The log of a serving leader ends where its core does.                    *)
Kept == IF op.stage = "staged" THEN op.start ELSE Len(wal)
Tip == IF Kept = 0 THEN Len(core) = Len(Floor) ELSE wal[Kept].k = "frame" /\ wal[Kept].seq = Len(core)

Serves ==
    phase = "open" /\ ~poisoned =>
        /\ latest = LastAck /\ \A i \in 0 .. 1 : acks[i].valid
        /\ ~soft => Tip
        /\ op.stage \in {"staged", "written"} /\ op.start < end => wal[end].k = "piece" /\ wal[end].op = op.id

(* Each slot of the acknowledgement file has its parity.                    *)
Stamps(a) == \A i \in 0 .. 1 : a[i].valid => a[i].seq % 2 = i \/ a[i] = Ack(0, 0)

(* n is the newest slot, of generation g and flushed, and the other one is  *)
(* its mirror or one generation from it.                                    *)
Beside(s, n, g) ==
    s.state = "valid" =>
        /\ s.gen = g => s.core = slots[n].core
        /\ s.gen < g => s.gen = g - 1 /\ Len(s.core) <= Len(slots[n].core)
        /\ s.gen > g => s.gen = g + 1 /\ Len(s.core) >= Len(slots[n].core)

Paired(n, g) ==
    IF slots[n].state = "valid"
    THEN /\ slots[n].gen = g /\ slotsFlushed[n] = slots[n]
         /\ Beside(slots[1 - n], n, g) /\ Beside(slotsFlushed[1 - n], n, g)
         /\ slotsFlushed[1 - n].state = "valid" => slotsFlushed[1 - n].gen <= g
    ELSE g = 0 /\ \A i \in 0 .. 1 : slotsFlushed[i].state # "valid"

Twins == ~soft => \E n \in 0 .. 1, g \in Nat : Paired(n, g) /\ (phase = "open" => n = newest /\ g = generation)

(* A log that has a frame that a checkpoint of n operations covers has all  *)
(* of them, and no power loss can take one.                                 *)
Pending == Contents \cup (IF cp.stage = "none" THEN {} ELSE {cp.core})

Led(n) ==
    \/ \A i \in Frames(wal) : wal[i].seq > n
    \/ Strict /\ \E p \in Frames(wal) : n <= wal[p].seq /\ wal[p].op # op.id
    \/ ~Strict /\ \E p \in Frames(wal) :
          /\ Readable(p) /\ n <= wal[p].seq /\ p <= Len(walFlushed)
          /\ \A i \in 1 .. p : wal[i] = walFlushed[i] /\ (wal[i].k = "frame" => wal[i].op \notin dirty)

LedFlushed(n) ==
    \/ \A i \in Frames(walFlushed) : walFlushed[i].seq > n
    \/ \E p \in Frames(walFlushed) :
          /\ n <= walFlushed[p].seq
          /\ \A i \in 1 .. p : /\ walFlushed[i].k \in Whole
                               /\ walFlushed[i].k = "frame" => walFlushed[i].op \notin lost \cup dirty

(* A strict log without frames of finished operations has every slot at one *)
(* place.                                                                   *)
Bare == \A i \in Frames(wal) : wal[i].op = op.id

Even ==
    ~soft => /\ Strict /\ Bare => \A c, d \in Pending : Len(c) = Len(d)
             /\ \A c \in Pending : Led(Len(c)) /\ (~Strict => LedFlushed(Len(c)))

Generations ==
    /\ phase = "down" => generation = 0
    /\ cp.stage # "none" => cp.gen = IF cp.mirror THEN generation ELSE generation + 1
    /\ ~soft /\ cp.stage \in {"mirrored", "resetting", "keeping", "reset"} => \A c \in Contents : c = cp.core

(* A served core has no operation whose payload was lost.                   *)
Intact == phase = "open" => \A i \in 1 .. Len(core) : core[i] \notin lost

Reloads == Serves /\ Twins /\ Even /\ Generations /\ Intact /\ Stamps(acks) /\ Stamps(acksFlushed)

(* What holds of the files and of the leader until recovery refuses.        *)
Same == phase # "refused" => Reloads
--------------------------------------------------------------------------------
(***************************************************************************)
(* A log that grows, and one that is cut off.                              *)
(***************************************************************************)
LEMMA FloorIs ==
  ASSUME Good, phase = "open"
  PROVE  /\ Floor \in Seq(Nat) /\ Len(Floor) \in Nat /\ Len(Floor) <= Len(core) /\ Begins(Floor, core)
         /\ newest \in 0 .. 1 /\ (slots[newest].state = "valid" => Floor \in Contents)
<1> USE DEF Good
<1>1. newest \in 0 .. 1
  BY DEF Types
<1>2. CASE slots[newest].state = "valid"
  <2>1. Floor \in Contents
    BY <1>1, <1>2 DEF Floor, Contents, Cores
  <2> QED
    BY <1>1, <2>1, DiskIs DEF Memory, Begins
<1>3. CASE slots[newest].state # "valid"
  BY <1>1, <1>3, Facts DEF Floor, Begins
<1> QED
  BY <1>2, <1>3

LEMMA PendingIs ==
  ASSUME Good, phase = "open", NEW c \in Pending
  PROVE  c \in Seq(Nat) /\ Len(c) \in Nat /\ Len(c) <= Len(core) /\ Begins(c, core)
<1> USE DEF Good
<1>1. CASE c \in Contents
  BY <1>1, DiskIs DEF Memory, Begins
<1>2. CASE cp.stage # "none" /\ c = cp.core
  BY <1>2, Facts DEF Checkpoint, Begins
<1> QED
  BY <1>1, <1>2 DEF Pending

LEMMA TwinsStay ==
  ASSUME Twins, UNCHANGED <<slots, slotsFlushed>>, soft => soft',
         phase' = "open" => phase = "open" /\ newest' = newest /\ generation' = generation
  PROVE  Twins'
  BY DEF Twins, Paired, Beside

(* The frame of the operation under way is all that may go, and frames come *)
(* behind the core.                                                         *)
LEMMA EvenStep ==
  ASSUME Good, Even, phase = "open", UNCHANGED <<durability, lost, soft>>, Pending' \subseteq Pending,
         \A i \in Frames(wal') : (i \in Frames(wal) /\ wal'[i] = wal[i]) \/ wal'[i].seq > Len(core),
         Strict => \A p \in Frames(wal) : wal[p].op # op.id =>
                       p \in Frames(wal') /\ wal'[p] = wal[p] /\ wal[p].op # op'.id,
         \A i \in Frames(wal') : wal'[i].seq \in Nat,
         NEW k \in 0 .. Len(wal), k <= Len(wal'), Len(wal') \in Nat, \A i \in 1 .. k : wal'[i] = wal[i],
         ~Strict => \A p \in Frames(wal) : p <= k,
         \A o \in 1 .. made : o \in dirty' => o \in dirty,
         walFlushed' = walFlushed \/ walFlushed' = wal' \/ (walFlushed' = wal /\ k = Len(wal))
  PROVE  Even'
<1> USE DEF Good
<1> SUFFICES ASSUME ~soft
             PROVE  /\ Strict' /\ Bare' => \A c, d \in Pending' : Len(c) = Len(d)
                    /\ \A c \in Pending' : Led(Len(c))' /\ (~Strict' => LedFlushed(Len(c))')
  BY Zenon DEF Even
<1>1. Strict' = Strict
  BY DEF Strict
<1>2. wal \in Seq(Cells) /\ walFlushed \in Seq(Cells) /\ Len(wal) \in Nat /\ Len(walFlushed) \in Nat /\ Len(core) \in Nat
  BY Facts
<1>3. \A i \in Frames(wal) : wal[i].op \in 1 .. made /\ wal[i].seq \in Nat /\ i \in Nat
  BY FrameIs DEF Frames
<1>4. \A i \in Frames(walFlushed) : walFlushed[i].op \in 1 .. made /\ walFlushed[i].seq \in Nat
  <2>1. \A i \in Frames(walFlushed) : walFlushed[i] \in Cells
    BY <1>2, ElementOfSeq DEF Frames
  <2>2. \A i \in Frames(walFlushed) : walFlushed[i].op \in 1 .. Len(based)
    BY DEF OneLine, Logged
  <2> QED
    BY <2>1, <2>2, Facts DEF Cells
<1>5. ASSUME Strict, Bare'
      PROVE  \A c, d \in Pending' : Len(c) = Len(d)
  <2>1. Bare
    BY <1>5 DEF Bare
  <2> QED
    BY <1>5, <2>1 DEF Even
<1>6. ASSUME NEW c \in Pending'
      PROVE  Led(Len(c))'
  <2> DEFINE n == Len(c)
  <2>1. n \in Nat /\ n <= Len(core) /\ Led(n) /\ c \in Pending
    BY PendingIs DEF Even
  <2>2. CASE \A i \in Frames(wal) : wal[i].seq > n
    <3>1. \A i \in Frames(wal') : wal'[i].seq > n
      BY <2>1, <2>2, <1>2
    <3> QED
      BY <3>1 DEF Led
  <2>3. CASE Strict /\ \E p \in Frames(wal) : n <= wal[p].seq /\ wal[p].op # op.id
    <3>1. PICK p \in Frames(wal) : n <= wal[p].seq /\ wal[p].op # op.id
      BY <2>3
    <3>2. p \in Frames(wal') /\ wal'[p] = wal[p] /\ wal[p].op # op'.id
      BY <2>3, <3>1
    <3> QED
      BY <1>1, <2>3, <3>1, <3>2 DEF Led
  <2>4. CASE ~Strict /\ \E p \in Frames(wal) :
                /\ Readable(p) /\ n <= wal[p].seq /\ p <= Len(walFlushed)
                /\ \A i \in 1 .. p : wal[i] = walFlushed[i] /\ (wal[i].k = "frame" => wal[i].op \notin dirty)
    <3>1. PICK p \in Frames(wal) :
                /\ Readable(p) /\ n <= wal[p].seq /\ p <= Len(walFlushed)
                /\ \A i \in 1 .. p : wal[i] = walFlushed[i] /\ (wal[i].k = "frame" => wal[i].op \notin dirty)
      BY <2>4
    <3>2. p \in 1 .. k /\ p \in Nat /\ k \in Nat
      BY <2>4, <3>1 DEF Frames
    <3>3. \A i \in 1 .. p : wal'[i] = wal[i] /\ i \in 1 .. Len(wal) /\ i \in 1 .. k
      BY <3>2, <1>2
    <3>4. p \in Frames(wal')
      BY <3>2, <3>3, <3>1 DEF Frames
    <3>5. Readable(p)'
      BY <3>1, <3>3, <3>4 DEF Readable
    <3>6. p <= Len(walFlushed)' /\ \A i \in 1 .. p : wal'[i] = walFlushed'[i]
      BY <3>1, <3>2, <3>3, <1>2
    <3>7. \A i \in 1 .. p : wal'[i].k = "frame" => wal'[i].op \notin dirty'
      BY <3>1, <3>3, <1>3 DEF Frames
    <3>8. n <= wal'[p].seq
      BY <3>1, <3>2, <3>3
    <3> QED
      BY <1>1, <2>4, <3>4, <3>5, <3>6, <3>7, <3>8 DEF Led
  <2> QED
    BY <2>1, <2>2, <2>3, <2>4 DEF Led
<1>7. ASSUME NEW c \in Pending', ~Strict
      PROVE  LedFlushed(Len(c))'
  <2> DEFINE n == Len(c)
  <2>1. n \in Nat /\ n <= Len(core) /\ Led(n) /\ LedFlushed(n) /\ c \in Pending
    BY <1>7, PendingIs DEF Even
  <2>2. CASE walFlushed' = walFlushed
    <3>1. CASE \A i \in Frames(walFlushed) : walFlushed[i].seq > n
      BY <2>2, <3>1 DEF LedFlushed
    <3>2. CASE \E p \in Frames(walFlushed) :
                  /\ n <= walFlushed[p].seq
                  /\ \A i \in 1 .. p : /\ walFlushed[i].k \in Whole
                                       /\ walFlushed[i].k = "frame" => walFlushed[i].op \notin lost \cup dirty
      <4>1. PICK p \in Frames(walFlushed) :
                  /\ n <= walFlushed[p].seq
                  /\ \A i \in 1 .. p : /\ walFlushed[i].k \in Whole
                                       /\ walFlushed[i].k = "frame" => walFlushed[i].op \notin lost \cup dirty
        BY <3>2
      <4>2. \A i \in 1 .. p : walFlushed[i].k = "frame" => i \in Frames(walFlushed)
        BY <1>2 DEF Frames
      <4>3. \A i \in 1 .. p : walFlushed[i].k = "frame" => walFlushed[i].op \notin lost' \cup dirty'
        BY <4>1, <4>2, <1>4
      <4> QED
        BY <2>2, <4>1, <4>3 DEF LedFlushed
    <3> QED
      BY <2>1, <3>1, <3>2 DEF LedFlushed
  <2>3. CASE walFlushed' = wal'
    <3>1. Led(n)'
      BY <1>6
    <3> QED
      BY <1>7, <1>1, <2>3, <3>1 DEF Led, LedFlushed, Readable
  <2>4. CASE walFlushed' = wal
    <3>1. CASE \A i \in Frames(wal) : wal[i].seq > n
      BY <2>4, <3>1 DEF LedFlushed
    <3>2. CASE \E p \in Frames(wal) :
                /\ Readable(p) /\ n <= wal[p].seq /\ p <= Len(walFlushed)
                /\ \A i \in 1 .. p : wal[i] = walFlushed[i] /\ (wal[i].k = "frame" => wal[i].op \notin dirty)
      <4>1. PICK p \in Frames(wal) :
                /\ Readable(p) /\ n <= wal[p].seq
                /\ \A i \in 1 .. p : wal[i].k = "frame" => wal[i].op \notin dirty
        BY <3>2
      <4>2. \A i \in 1 .. p : wal[i].k = "frame" => i \in Frames(wal)
        BY <1>2 DEF Frames
      <4>3. \A i \in 1 .. p : wal[i].k \in Whole /\ (wal[i].k = "frame" => wal[i].op \notin lost' \cup dirty')
        BY <4>1, <4>2, <1>3 DEF Readable
      <4> QED
        BY <2>4, <4>1, <4>3 DEF LedFlushed
    <3> QED
      BY <1>7, <2>1, <3>1, <3>2 DEF Led
  <2> QED
    BY <2>2, <2>3, <2>4
<1> QED
  BY <1>1, <1>5, <1>6, <1>7

LEMMA ServesStays ==
  ASSUME Good, Serves, UNCHANGED <<wal, core, acks, latest, phase, poisoned, soft>>,
         op'.stage = "staged" <=> op.stage = "staged", op'.stage \in {"staged", "written"} => op' = op /\ end' = end,
         phase = "open" => Len(Floor)' \in Nat /\ Len(Floor) <= Len(Floor)' /\ Len(Floor)' <= Len(core)
  PROVE  Serves'
<1> SUFFICES ASSUME phase = "open", ~poisoned
             PROVE  /\ latest = LastAck' /\ \A i \in 0 .. 1 : acks[i].valid
                    /\ ~soft => Tip'
                    /\ op'.stage \in {"staged", "written"} /\ op'.start < end' => wal[end'].k = "piece" /\ wal[end'].op = op'.id
  BY Zenon DEF Serves
<1>1. Len(Floor) \in Nat /\ Len(Floor) <= Len(core) /\ wal \in Seq(Cells) /\ Len(core) \in Nat /\ latest.seq \in Nat
  BY FloorIs, Facts DEF Good
<1>2. latest = LastAck' /\ \A i \in 0 .. 1 : acks[i].valid
  BY DEF Serves, LastAck
<1>3. ~soft => Tip'
  <2>1. Kept' = Kept
    BY DEF Kept
  <2> QED
    BY <1>1, <2>1 DEF Serves, Tip
<1>4. op'.stage \in {"staged", "written"} /\ op'.start < end' => wal[end'].k = "piece" /\ wal[end'].op = op'.id
  BY DEF Serves
<1> QED
  BY <1>2, <1>3, <1>4

(* A frame goes on from the core. *)
LEMMA ServesAppend ==
  ASSUME Good, Serves, phase = "open", ~poisoned, NEW o \in Nat, core' = Append(core, o),
         wal' = Append(wal, Frame(Len(core) + 1, o)),
         UNCHANGED <<phase, acks, latest, poisoned, soft, slots, newest>>,
         op'.stage # "staged", op.stage \in {"none", "staged"}, op.stage = "staged" => op.id = o,
         op'.stage = "written" /\ op'.start < end' => op.stage = "staged" /\ op'.id = op.id /\ end' = end
  PROVE  Serves'
<1>1. Len(Floor) \in Nat /\ wal \in Seq(Cells) /\ Len(wal) \in Nat /\ core \in Seq(Nat) /\ Len(core) \in Nat
      /\ op.start \in Nat /\ end \in Nat
  BY FloorIs, Facts DEF Good
<1>2. latest = LastAck' /\ \A i \in 0 .. 1 : acks[i].valid
  BY DEF Serves, LastAck
<1>3. Floor' = Floor
  BY DEF Floor
<1>4. op.stage = "staged" => Len(wal) = end /\ end = op.start + 1 /\ wal[end].k = "piece" /\ wal[end].op = op.id
  <2> SUFFICES ASSUME op.stage = "staged"
               PROVE  Len(wal) = end /\ end = op.start + 1 /\ wal[end].k = "piece" /\ wal[end].op = op.id
    OBVIOUS
  <2>1. Len(wal) = end /\ end = op.start + 1 /\ wal[end].k = "piece"
    BY DEF Good, Operation, Memory
  <2>2. op.start < end
    BY <1>1, <2>1
  <2> QED
    BY <2>1, <2>2 DEF Serves
<1>5. op'.stage \in {"staged", "written"} /\ op'.start < end' => wal'[end'].k = "piece" /\ wal'[end'].op = op'.id
  <2>1. op.stage = "staged" => end \in 1 .. Len(wal)
    BY <1>1, <1>4
  <2> QED
    BY <1>1, <1>4, <2>1
<1>6. Tip'
  <2>1. wal'[Len(wal) + 1] = Frame(Len(core) + 1, o) /\ Len(wal') = Len(wal) + 1 /\ Len(core') = Len(core) + 1
    BY <1>1, CellIs
  <2> QED
    BY <1>1, <2>1, CellIs DEF Tip, Kept
<1> QED
  BY <1>2, <1>6, <1>5 DEF Serves
--------------------------------------------------------------------------------
(***************************************************************************)
(* The steps of an operation.                                              *)
(***************************************************************************)
LEMMA ReloadsAppend ==
  ASSUME Good, Reloads, phase = "open", ~poisoned, NEW o \in Nat, o \notin lost, core' = Append(core, o),
         wal' = Append(wal, Frame(Len(core) + 1, o)),
         UNCHANGED <<phase, acks, acksFlushed, latest, poisoned, soft, slots, slotsFlushed, newest, generation, cp,
                     durability, lost, walFlushed>>,
         \A q \in 1 .. made : q \in dirty' => q \in dirty,
         \A p \in Frames(wal) : wal[p].op # op.id => wal[p].op # op'.id,
         op'.stage # "staged", op.stage \in {"none", "staged"}, op.stage = "staged" => op.id = o,
         op'.stage = "written" /\ op'.start < end' => op.stage = "staged" /\ op'.id = op.id /\ end' = end
  PROVE  Reloads'
<1> USE DEF Reloads
<1>1. Serves'
  BY ServesAppend
<1>2. Twins'
  BY TwinsStay
<1>3. wal \in Seq(Cells) /\ Len(wal) \in Nat /\ core \in Seq(Nat) /\ Len(core) \in Nat
  BY Facts DEF Good
<1>4. /\ Len(wal') = Len(wal) + 1 /\ \A i \in 1 .. Len(wal) : wal'[i] = wal[i]
      /\ wal'[Len(wal) + 1].seq = Len(core) + 1 /\ \A i \in Frames(wal) : wal[i].seq \in Nat /\ i \in 1 .. Len(wal)
  <2>1. Frame(Len(core) + 1, o) \in Cells /\ Frame(Len(core) + 1, o).seq = Len(core) + 1
    BY <1>3, CellIs
  <2>2. \A i \in Frames(wal) : wal[i].seq \in Nat /\ i \in 1 .. Len(wal)
    BY FrameIs DEF Good
  <2> QED
    BY <1>3, <2>1, <2>2
<1>5. \A i \in Frames(wal') : (i \in Frames(wal) /\ wal'[i] = wal[i]) \/ (i = Len(wal) + 1 /\ wal'[i].seq = Len(core) + 1)
  BY <1>3, <1>4 DEF Frames
<1>6. \A p \in Frames(wal) : p \in Frames(wal') /\ wal'[p] = wal[p]
  BY <1>3, <1>4 DEF Frames
<1>7. Pending' = Pending
  BY DEF Pending, Contents, Cores
<1>8. Even'
  <2>1. Len(wal) \in 0 .. Len(wal) /\ Len(wal) <= Len(wal') /\ Len(wal') \in Nat
    BY <1>3, <1>4
  <2>2. \A i \in Frames(wal') : wal'[i].seq \in Nat /\ ((i \in Frames(wal) /\ wal'[i] = wal[i]) \/ wal'[i].seq > Len(core))
    BY <1>3, <1>4, <1>5
  <2>3. \A p \in Frames(wal) : p <= Len(wal)
    BY <1>3, <1>4
  <2> QED
    BY <1>4, <1>6, <1>7, <2>1, <2>2, <2>3, EvenStep
<1>9. Generations'
  BY DEF Generations, Contents, Cores
<1>10. Intact'
  <2>1. Len(core') = Len(core) + 1 /\ core'[Len(core) + 1] = o /\ \A i \in 1 .. Len(core) : core'[i] = core[i]
    BY <1>3
  <2> QED
    BY <1>3, <2>1 DEF Intact
<1> QED
  BY <1>1, <1>2, <1>8, <1>9, <1>10 DEF Stamps

LEMMA LogFlushedReloads ==
  ASSUME Good, Reloads, LogFlushed
  PROVE  Reloads'
<1>1. phase = "open" /\ ~poisoned /\ op = NoOp /\ op.stage = "none" /\ Len(wal) = end
  BY Serving DEF LogFlushed
<1>2. /\ core' = Append(core, made + 1) /\ wal' = Put(end, Frame(Len(core) + 1, made + 1)) /\ end' = end
      /\ op' = [stage |-> "written", id |-> made + 1, start |-> end]
      /\ UNCHANGED <<phase, acks, acksFlushed, latest, poisoned, soft, slots, slotsFlushed, newest, generation, cp,
                     durability, lost, walFlushed, dirty>>
  BY DEF LogFlushed, Apply
<1>3. made + 1 \in Nat /\ Len(core) + 1 \in Nat /\ made + 1 \notin lost /\ made \in Nat /\ end \in Nat
  BY Facts DEF Good, Types
<1>4. wal' = Append(wal, Frame(Len(core) + 1, made + 1))
  BY <1>1, <1>2, <1>3, CellIs, PutEnd DEF Good
<1>5. \A p \in Frames(wal) : wal[p].op # made + 1
  BY <1>3, FrameIs DEF Good
<1>6. op'.stage = "written" /\ op'.id = made + 1 /\ ~(op'.start < end')
  BY <1>2, <1>3
<1> QED
  BY <1>1, <1>2, <1>3, <1>4, <1>5, <1>6, ReloadsAppend

LEMMA LogUnflushedReloads ==
  ASSUME Good, Reloads, NEW payload \in BOOLEAN, LogUnflushed(payload)
  PROVE  Reloads'
<1>1. phase = "open" /\ ~poisoned /\ op = NoOp /\ op.stage = "none" /\ Len(wal) = end
  BY Serving DEF LogUnflushed
<1>2. /\ core' = Append(core, made + 1) /\ wal' = Put(end, Frame(Len(core) + 1, made + 1)) /\ op' = op
      /\ dirty' \subseteq dirty \cup {made + 1}
      /\ UNCHANGED <<phase, acks, acksFlushed, latest, poisoned, soft, slots, slotsFlushed, newest, generation, cp,
                     durability, lost, walFlushed>>
  BY DEF LogUnflushed, Apply, stepVars
<1>3. made + 1 \in Nat /\ Len(core) + 1 \in Nat /\ made + 1 \notin lost /\ made \in Nat
  BY Facts DEF Good, Types
<1>4. wal' = Append(wal, Frame(Len(core) + 1, made + 1))
  BY <1>1, <1>2, <1>3, CellIs, PutEnd DEF Good
<1>5. \A q \in 1 .. made : q \in dirty' => q \in dirty
  BY <1>2, <1>3
<1> QED
  BY <1>1, <1>2, <1>3, <1>4, <1>5, ReloadsAppend

LEMMA CompleteReloads ==
  ASSUME Good, Reloads, Complete
  PROVE  Reloads'
<1>1. op.stage = "staged"
  BY DEF Complete
<1>2. phase = "open" /\ ~poisoned /\ op.id \in 1 .. made /\ Len(wal) = end /\ op.id \notin lost
  BY <1>1, InOperation DEF Good, Operation
<1>3. /\ core' = Append(core, op.id) /\ wal' = Put(end, Frame(Len(core) + 1, op.id))
      /\ UNCHANGED <<phase, acks, acksFlushed, latest, poisoned, soft, slots, slotsFlushed, newest, generation, cp,
                     durability, lost, walFlushed, dirty>>
      /\ \/ op' = [op EXCEPT !.stage = "written"] /\ end' = end
         \/ op' = NoOp
  BY DEF Complete, countVars
<1>4. op.id \in Nat /\ Len(core) + 1 \in Nat
  BY <1>2, Facts DEF Good
<1>5. wal' = Append(wal, Frame(Len(core) + 1, op.id))
  BY <1>2, <1>3, <1>4, CellIs, PutEnd DEF Good
<1>6. op'.stage # "staged" /\ (op'.stage = "written" => op'.id = op.id /\ end' = end) /\ (op'.id = op.id \/ op'.id = 0)
  BY <1>3 DEF NoOp, Good, Types
<1>7. \A p \in Frames(wal) : wal[p].op # op.id => wal[p].op # op'.id
  BY <1>6, FrameIs DEF Good
<1> QED
  BY <1>1, <1>2, <1>3, <1>4, <1>5, <1>6, <1>7, ReloadsAppend

LEMMA StageReloads ==
  ASSUME Good, Reloads, Stage
  PROVE  Reloads'
<1> USE DEF Reloads
<1>1. phase = "open" /\ ~poisoned /\ op = NoOp /\ op.stage = "none" /\ Len(wal) = end
  BY Serving DEF Stage
<1>2. /\ wal' = Put(end, Piece(made + 1)) /\ end' = end + 1
      /\ op' = [stage |-> "staged", id |-> made + 1, start |-> end]
      /\ walFlushed' = walFlushed \/ walFlushed' = wal'
      /\ UNCHANGED <<core, phase, acks, acksFlushed, latest, poisoned, soft, slots, slotsFlushed, newest, generation, cp,
                     durability, lost, dirty>>
  BY DEF Stage
<1>3. /\ made \in Nat /\ made + 1 \in Nat /\ end \in Nat /\ wal \in Seq(Cells) /\ Len(wal) \in Nat /\ Len(core) \in Nat
      /\ Len(Floor) \in Nat
  BY <1>1, Facts, FloorIs DEF Good
<1>4. /\ wal' \in Seq(Cells) /\ Len(wal') = Len(wal) + 1 /\ wal'[Len(wal) + 1] = Piece(made + 1)
      /\ Piece(made + 1).k = "piece" /\ Piece(made + 1).op = made + 1
      /\ \A i \in 1 .. Len(wal) : wal'[i] = wal[i]
  <2>1. Piece(made + 1) \in Cells /\ Piece(made + 1).k = "piece" /\ Piece(made + 1).op = made + 1
    BY <1>3, CellIs DEF Piece
  <2> QED
    BY <1>1, <1>2, <2>1, PutEnd DEF Good
<1>5. \A i \in Frames(wal') : i \in Frames(wal) /\ wal'[i] = wal[i] /\ i \in 1 .. Len(wal)
  BY <1>3, <1>4 DEF Frames
<1>6. \A i \in Frames(wal) : /\ i \in Frames(wal') /\ wal'[i] = wal[i] /\ wal[i].op # made + 1 /\ i <= Len(wal)
                             /\ wal[i].seq \in Nat
  <2>1. \A i \in Frames(wal) : i \in 1 .. Len(wal) /\ wal[i].op # made + 1 /\ wal[i].seq \in Nat
    BY <1>3, FrameIs DEF Good
  <2> QED
    BY <1>3, <1>4, <2>1 DEF Frames
<1>7. op'.stage = "staged" /\ op'.id = made + 1 /\ op'.start = end
  BY <1>2
<1>8. Serves'
  <2>1. latest = LastAck' /\ \A i \in 0 .. 1 : acks[i].valid
    BY <1>1, <1>2 DEF Serves, LastAck
  <2>2. Floor' = Floor
    BY <1>2 DEF Floor
  <2>3. ~soft => Tip'
    <3>1. Kept' = end /\ Kept = end
      BY <1>1, <1>7 DEF Kept
    <3> QED
      BY <1>1, <1>2, <1>3, <1>4, <2>2, <3>1 DEF Serves, Tip
  <2>4. wal'[end'].k = "piece" /\ wal'[end'].op = op'.id
    BY <1>1, <1>2, <1>4, <1>7
  <2> QED
    BY <1>2, <2>1, <2>3, <2>4 DEF Serves
<1>9. Twins'
  BY <1>1, <1>2, TwinsStay
<1>10. Even'
  <2>1. Pending' = Pending
    BY <1>2 DEF Pending, Contents, Cores
  <2>2. Len(wal) \in 0 .. Len(wal) /\ Len(wal) <= Len(wal') /\ Len(wal') \in Nat
    BY <1>3, <1>4
  <2>3. \A i \in Frames(wal') : wal'[i].seq \in Nat
    BY <1>5, <1>6
  <2> QED
    BY <1>1, <1>2, <1>4, <1>5, <1>6, <1>7, <2>1, <2>2, <2>3, EvenStep
<1> QED
  BY <1>2, <1>8, <1>9, <1>10 DEF Generations, Contents, Cores, Intact, Stamps

(* Operations that leave the core, the slots and the acknowledgements, and  *)
(* take nothing of the log but what k keeps.                                *)
LEMMA ReloadsKept ==
  ASSUME Good, Reloads, phase = "open", poisoned',
         UNCHANGED <<durability, lost, soft, core, phase, slots, slotsFlushed, newest, generation, cp, latest, dirty>>,
         Stamps(acks'), Stamps(acksFlushed'),
         NEW k \in 0 .. Len(wal), k <= Len(wal'), Len(wal') \in Nat, \A i \in 1 .. k : wal'[i] = wal[i],
         \A i \in Frames(wal') : i <= k, \A p \in Frames(wal) : p <= k \/ (Strict /\ wal[p].op = op.id),
         op'.id = 0 \/ op' = op,
         walFlushed' = walFlushed \/ walFlushed' = wal' \/ (walFlushed' = wal /\ k = Len(wal))
  PROVE  Reloads'
<1> USE DEF Reloads
<1>1. Twins'
  BY TwinsStay
<1>2. Even'
  <2>1. Pending' = Pending
    BY DEF Pending, Contents, Cores
  <2>2. \A i \in Frames(wal) : i \in 1 .. Len(wal) /\ wal[i].op # 0 /\ wal[i].seq \in Nat
    BY FrameIs DEF Good
  <2>3. Len(wal) \in Nat
    BY Facts DEF Good
  <2>4. \A i \in Frames(wal') : i \in Frames(wal) /\ wal'[i] = wal[i]
    BY <2>3 DEF Frames
  <2>5. \A p \in Frames(wal) : wal[p].op # op.id => p \in Frames(wal') /\ wal'[p] = wal[p] /\ wal[p].op # op'.id
    BY <2>2, <2>3 DEF Frames
  <2>6. \A i \in Frames(wal') : wal'[i].seq \in Nat
    BY <2>2, <2>4
  <2>7. ~Strict => \A p \in Frames(wal) : p <= k
    OBVIOUS
  <2> QED
    BY <2>1, <2>4, <2>5, <2>6, <2>7, EvenStep
<1> QED
  BY <1>1, <1>2 DEF Serves, Generations, Contents, Cores, Intact

LEMMA UnstageReloads ==
  ASSUME Good, Reloads, Unstage
  PROVE  Reloads'
<1> USE DEF Reloads
<1>1. op.stage = "staged"
  BY DEF Unstage
<1>2. /\ phase = "open" /\ ~poisoned /\ op.start \in Nat /\ op.start <= end /\ Len(wal) = end
      /\ end = op.start + 1 /\ wal[end].k = "piece"
  BY <1>1, InOperation DEF Good, Operation
<1>3. /\ op' = NoOp
      /\ UNCHANGED <<durability, lost, soft, core, phase, slots, slotsFlushed, newest, generation, cp, latest, dirty,
                     acks, acksFlushed>>
  BY DEF Unstage, countVars, historyVars
<1>4. wal \in Seq(Cells) /\ Len(wal) \in Nat /\ latest.seq \in Nat /\ Len(Floor) \in Nat
  BY <1>2, Facts, FloorIs DEF Good
<1>5. op'.id = 0 /\ op'.stage = "none"
  BY <1>3 DEF NoOp
<1>6. CASE poisoned' /\ UNCHANGED <<wal, walFlushed>>
  <2>1. Len(wal) \in 0 .. Len(wal) /\ \A i \in Frames(wal) : i <= Len(wal)
    BY <1>4 DEF Frames
  <2> QED
    BY <2>1, <1>2, <1>3, <1>4, <1>5, <1>6, ReloadsKept
<1>7. CASE MayRewind /\ wal' = Truncated(wal, op.start) /\ walFlushed' = wal' /\ end' = op.start /\ poisoned' = poisoned
  <2>1. op.start \in 0 .. Len(wal)
    BY <1>2, <1>4
  <2>2. wal' \in Seq(Cells) /\ Len(wal') = op.start /\ \A i \in 1 .. op.start : wal'[i] = wal[i] /\ i \in 1 .. Len(wal)
    BY <2>1, <1>4, <1>7, TruncatedIs
  <2>3. \A p \in Frames(wal) : p \in Nat /\ p >= 1 /\ p <= op.start /\ wal[p].op # 0 /\ wal[p].seq \in Nat
    <3>1. \A p \in Frames(wal) : p \in 1 .. Len(wal) /\ wal[p].op # 0 /\ wal[p].seq \in Nat /\ p # end
      BY <1>2, FrameIs DEF Good, Frames
    <3> QED
      BY <3>1, <1>2, <1>4
  <2>4. \A i \in Frames(wal') : i \in Frames(wal) /\ wal'[i] = wal[i] /\ \A q \in 1 .. i : wal'[q] = wal[q]
    BY <2>2, <1>2 DEF Frames
  <2>5. \A i \in Frames(wal) : i \in Frames(wal') /\ wal'[i] = wal[i]
    BY <2>2, <2>3, <1>2 DEF Frames
  <2>6. Serves'
    <3>1. latest = LastAck' /\ \A i \in 0 .. 1 : acks[i].valid
      BY <1>2, <1>3 DEF Serves, LastAck
    <3>2. Floor' = Floor
      BY <1>3 DEF Floor
    <3>3. ~soft => Tip'
      <4>1. Kept' = op.start /\ Kept = op.start
        BY <1>1, <1>5, <2>2 DEF Kept
      <4>2. op.start # 0 => wal'[op.start] = wal[op.start]
        BY <1>2, <2>2
      <4> QED
        BY <1>2, <1>3, <3>2, <4>1, <4>2 DEF Serves, Tip
    <3> QED
      BY <1>3, <1>5, <3>1, <3>3 DEF Serves
  <2>7. Twins'
    BY <1>2, <1>3, TwinsStay
  <2>8. Even'
    <3>1. Pending' = Pending
      BY <1>3 DEF Pending, Contents, Cores
    <3>2. op.start <= Len(wal') /\ Len(wal') \in Nat
      BY <1>2, <2>2
    <3>3. \A i \in Frames(wal') : wal'[i].seq \in Nat
      BY <2>3, <2>4
    <3> QED
      BY <1>2, <1>3, <1>5, <1>7, <2>1, <2>2, <2>3, <2>4, <2>5, <3>1, <3>2, <3>3, EvenStep
  <2> QED
    BY <1>3, <2>6, <2>7, <2>8 DEF Generations, Contents, Cores, Intact, Stamps
<1> QED
  BY <1>6, <1>7 DEF Unstage

LEMMA AppendFailsReloads ==
  ASSUME Good, Reloads, NEW cut \in BOOLEAN, AppendFails(cut)
  PROVE  Reloads'
<1>1. phase = "open" /\ ~poisoned /\ Len(wal) = end
  BY Serving DEF AppendFails
<1>2. /\ wal' = Truncated(wal, end) \/ wal' = Put(end, Short)
      /\ poisoned'
      /\ UNCHANGED <<walFlushed, slots, slotsFlushed, acks, acksFlushed, dirty, lost, phase, core, newest,
                     generation, latest, op, cp, durability, soft>>
  BY DEF AppendFails, stepVars, historyVars
<1>3. wal \in Seq(Cells) /\ Len(wal) \in Nat /\ end \in Nat
  BY Facts DEF Good
<1>4. /\ Len(wal') \in Nat /\ Len(wal) <= Len(wal') /\ \A i \in 1 .. Len(wal) : wal'[i] = wal[i]
      /\ \A i \in Frames(wal') : i <= Len(wal)
  <2>1. CASE wal' = Truncated(wal, end)
    <3>1. wal' \in Seq(Cells) /\ Len(wal') = end /\ \A i \in 1 .. end : wal'[i] = wal[i]
      BY <2>1, <1>1, <1>3, TruncatedIs
    <3> QED
      BY <3>1, <1>1, <1>3 DEF Frames
  <2>2. CASE wal' = Put(end, Short)
    <3>1. Short \in Cells /\ Short.k = "short"
      BY CellIs
    <3>2. /\ wal' \in Seq(Cells) /\ Len(wal') = Len(wal) + 1 /\ wal'[Len(wal) + 1] = Short
          /\ \A i \in 1 .. Len(wal) : wal'[i] = wal[i]
      BY <2>2, <3>1, <1>1, PutEnd DEF Good
    <3>3. \A i \in Frames(wal') : i <= Len(wal)
      BY <3>1, <3>2, <1>3 DEF Frames
    <3> QED
      BY <3>2, <3>3, <1>3
  <2> QED
    BY <2>1, <2>2, <1>2
<1>5. Len(wal) \in 0 .. Len(wal) /\ \A i \in Frames(wal) : i <= Len(wal)
  BY <1>3 DEF Frames
<1>6. Stamps(acks') /\ Stamps(acksFlushed')
  BY <1>2 DEF Reloads
<1> QED
  BY <1>1, <1>2, <1>4, <1>5, <1>6, ReloadsKept

LEMMA FrameFailsReloads ==
  ASSUME Good, Reloads, NEW keep, FrameFails(keep)
  PROVE  Reloads'
<1>1. op.stage = "written" /\ Strict
  BY DEF FrameFails, Good, Operation
<1>2. phase = "open" /\ ~poisoned /\ op.start \in Nat /\ op.start <= end /\ Len(wal) = end + 1
  BY <1>1, InOperation
<1>3. /\ wal' = Truncated(wal, keep) /\ keep \in {op.start, end, end + 1}
      /\ walFlushed' = wal' \/ walFlushed' = walFlushed
      /\ poisoned' /\ op' = NoOp
      /\ UNCHANGED <<slots, slotsFlushed, acks, acksFlushed, dirty, lost, phase, core, newest, generation, latest, cp,
                     durability, soft>>
  BY DEF FrameFails, historyVars
<1>4. wal \in Seq(Cells) /\ Len(wal) \in Nat /\ end \in Nat
  BY Facts DEF Good
<1>5. wal[end + 1].op = op.id /\ end <= op.start + 1
  BY <1>1, CellIs DEF Good, Operation, Frame
<1>6. keep \in 0 .. Len(wal) /\ keep \in Nat
  BY <1>2, <1>3, <1>4
<1>7. wal' \in Seq(Cells) /\ Len(wal') = keep /\ \A i \in 1 .. keep : wal'[i] = wal[i]
  BY <1>3, <1>4, <1>6, TruncatedIs
<1>8. \A i \in Frames(wal') : i <= keep
  BY <1>6, <1>7 DEF Frames
<1>9. op.start < end => wal[end].k = "piece"
  BY <1>1, <1>2 DEF Reloads, Serves
<1>10. ASSUME NEW p \in Frames(wal), ~(p <= keep)
       PROVE  wal[p].op = op.id
  <2>1. p \in Nat /\ p <= end + 1 /\ p >= 1 /\ wal[p].k = "frame"
    BY <1>2, <1>10 DEF Frames
  <2>2. CASE p = end + 1
    BY <2>2, <1>5
  <2>3. CASE p <= end
    <3>1. keep = op.start /\ p = end /\ op.start < end
      BY <1>2, <1>3, <1>4, <1>5, <1>10, <2>1, <2>3
    <3> QED
      BY <1>9, <2>1, <3>1
  <2> QED
    BY <1>4, <2>1, <2>2, <2>3
<1>11. op'.id = 0
  BY <1>3 DEF NoOp
<1>12. Stamps(acks') /\ Stamps(acksFlushed')
  BY <1>3 DEF Reloads
<1> QED
  BY <1>1, <1>2, <1>3, <1>6, <1>7, <1>8, <1>10, <1>11, <1>12, ReloadsKept

LEMMA StampsOn ==
  ASSUME Types, Stamps(acks), NEW s \in Nat, NEW e \in Nat, acks' = [acks EXCEPT ![s % 2] = Ack(s, e)]
  PROVE  Stamps(acks')
<1>1. acks \in [0 .. 1 -> AckContents] /\ s % 2 \in 0 .. 1
  BY DEF Types
<1> QED
  BY <1>1 DEF Stamps, Ack

(* A slot of the acknowledgement file is chosen such that the last          *)
(* acknowledgement stays the later one.                                     *)
LEMMA PublishLast ==
  ASSUME Types, Stamps(acks), latest = LastAck, \A i \in 0 .. 1 : acks[i].valid,
         NEW s \in Nat, NEW e \in Nat, latest.seq <= s, Publish(s, e)
  PROVE  latest' = LastAck' /\ (\A i \in 0 .. 1 : acks'[i].valid) /\ latest'.seq = s /\ latest'.end = e
<1>1. acks \in [0 .. 1 -> AckContents] /\ s % 2 \in 0 .. 1
  BY DEF Types
<1>2. ~AcksRefused
  BY DEF AcksRefused
<1>3. acks[0].seq <= s /\ acks[1].seq <= s /\ acks[0].seq \in Nat /\ acks[1].seq \in Nat /\ acks[0].end \in Nat /\ acks[1].end \in Nat
  <2>1. acks[0] \in AckContents /\ acks[1] \in AckContents
    BY <1>1
  <2>2. acks[0].seq <= latest.seq /\ acks[1].seq <= latest.seq /\ latest.seq \in Nat
    BY <1>2, LastAckIs
  <2> QED
    BY <2>1, <2>2 DEF AckContents
<1>4. acks' = [acks EXCEPT ![s % 2] = Ack(s, e)] /\ latest' = Ack(s, e)
  BY DEF Publish
<1>5. Ack(s, e).valid /\ Ack(s, e).seq = s /\ Ack(s, e).end = e
  BY DEF Ack
<1>6. CASE s % 2 = 0
  <2>1. acks'[0] = Ack(s, e) /\ acks'[1] = acks[1]
    BY <1>1, <1>4, <1>6
  <2>2. acks[1].seq = s => acks[1].end = 0
    BY <1>6 DEF Stamps, Ack
  <2>3. LastAck' = acks'[0]
    BY <1>3, <1>5, <2>1, <2>2 DEF LastAck
  <2> QED
    BY <1>4, <1>5, <2>1, <2>3
<1>7. CASE s % 2 = 1
  <2>1. acks'[1] = Ack(s, e) /\ acks'[0] = acks[0]
    BY <1>1, <1>4, <1>7
  <2>2. acks[0].seq # s
    <3>1. acks[0].seq % 2 = 0 \/ acks[0].seq = 0
      BY DEF Stamps, Ack
    <3> QED
      BY <3>1, <1>7
  <2>3. LastAck' = acks'[1]
    BY <1>3, <1>5, <2>1, <2>2 DEF LastAck
  <2> QED
    BY <1>4, <1>5, <2>1, <2>3
<1> QED
  BY <1>1, <1>6, <1>7

LEMMA EvenStill ==
  ASSUME Good, Even, phase = "open", UNCHANGED <<durability, lost, soft, wal>>, Pending' \subseteq Pending,
         dirty' \subseteq dirty, op' = op \/ op'.id = op.id \/ op'.id = 0, walFlushed' = walFlushed \/ walFlushed' = wal
  PROVE  Even'
<1>1. wal \in Seq(Cells) /\ Len(wal) \in Nat /\ Len(core) \in Nat
  BY Facts DEF Good
<1>2. \A i \in Frames(wal) : i \in 1 .. Len(wal) /\ wal[i].op # 0 /\ wal[i].seq \in Nat
  BY FrameIs DEF Good
<1>3. /\ \A i \in Frames(wal') : i \in Frames(wal) /\ wal'[i] = wal[i] /\ wal'[i].seq \in Nat
      /\ \A p \in Frames(wal) : wal[p].op # op.id => p \in Frames(wal') /\ wal'[p] = wal[p] /\ wal[p].op # op'.id
      /\ \A p \in Frames(wal) : p <= Len(wal)
      /\ Len(wal) \in 0 .. Len(wal) /\ Len(wal) <= Len(wal') /\ Len(wal') \in Nat
      /\ \A i \in 1 .. Len(wal) : wal'[i] = wal[i]
  BY <1>1, <1>2
<1> QED
  BY <1>1, <1>3, EvenStep

LEMMA FlushFrameReloads ==
  ASSUME Good, Reloads, FlushFrame
  PROVE  Reloads'
<1> USE DEF Reloads
<1>1. op.stage = "written"
  BY DEF FlushFrame
<1>2. phase = "open" /\ Len(Floor) \in Nat /\ Len(Floor) <= Len(core)
  BY <1>1, InOperation, FloorIs
<1>3. /\ walFlushed' = wal /\ op' = [op EXCEPT !.stage = "flushed"]
      /\ UNCHANGED <<wal, slots, slotsFlushed, acks, acksFlushed, dirty, lost, phase, core, poisoned, newest,
                     generation, latest, cp, durability, soft>>
  BY DEF FlushFrame, countVars, historyVars
<1>4. op'.stage = "flushed" /\ op'.id = op.id
  BY <1>3 DEF Good, Types
<1>5. Floor' = Floor /\ Pending' = Pending
  BY <1>3 DEF Floor, Pending, Contents, Cores
<1>6. Serves'
  BY <1>1, <1>2, <1>3, <1>4, <1>5, ServesStays
<1>7. Twins' /\ Even'
  BY <1>2, <1>3, <1>4, <1>5, TwinsStay, EvenStill
<1> QED
  BY <1>3, <1>6, <1>7 DEF Generations, Contents, Cores, Intact, Stamps

LEMMA PublishFrameReloads ==
  ASSUME Good, Reloads, PublishFrame
  PROVE  Reloads'
<1> USE DEF Reloads
<1>1. op.stage = "flushed"
  BY DEF PublishFrame
<1>2. phase = "open" /\ ~poisoned /\ Len(wal) = end
  BY <1>1, InOperation
<1>3. /\ Publish(Len(core), end) /\ op' = [op EXCEPT !.stage = "acked"]
      /\ UNCHANGED <<wal, walFlushed, slots, slotsFlushed, acksFlushed, dirty, lost, phase, core, poisoned, newest,
                     generation, cp, durability, soft>>
  BY DEF PublishFrame, countVars, historyVars
<1>4. op'.stage = "acked" /\ op'.id = op.id
  BY <1>3 DEF Good, Types
<1>5. Floor' = Floor /\ Pending' = Pending
  BY <1>3 DEF Floor, Pending, Contents, Cores
<1>6. Len(core) \in Nat /\ end \in Nat /\ latest.seq <= Len(core) /\ Len(wal) \in Nat
  BY <1>2, Facts DEF Good, Memory
<1>7. Stamps(acks')
  BY <1>3, <1>6, StampsOn DEF Good, Publish
<1>8. latest' = LastAck' /\ (\A i \in 0 .. 1 : acks'[i].valid) /\ latest'.seq = Len(core) /\ latest'.end = end
  BY <1>2, <1>3, <1>6, PublishLast DEF Good, Serves
<1>9. Serves'
  <2>1. ~soft => Tip'
    BY <1>1, <1>2, <1>3, <1>4, <1>5 DEF Serves, Kept, Tip
  <2> QED
    BY <1>3, <1>4, <1>8, <2>1 DEF Serves
<1>10. Twins' /\ Even'
  BY <1>2, <1>3, <1>4, <1>5, TwinsStay, EvenStill
<1> QED
  BY <1>3, <1>7, <1>9, <1>10 DEF Generations, Contents, Cores, Intact, Stamps

LEMMA PublishFailsReloads ==
  ASSUME Good, Reloads, NEW torn \in BOOLEAN, PublishFails(torn)
  PROVE  Reloads'
<1>1. op.stage \in {"flushed", "acked"}
  BY DEF PublishFails
<1>2. phase = "open"
  BY <1>1, InOperation
<1>3. /\ acks' = [acks EXCEPT ![Len(core) % 2] = TornAck] \/ acks' = acks
      /\ poisoned' /\ op' = NoOp
      /\ UNCHANGED <<wal, walFlushed, slots, slotsFlushed, acksFlushed, dirty, lost, phase, core, newest, generation,
                     latest, cp, durability, soft>>
  BY DEF PublishFails, historyVars
<1>4. op'.id = 0
  BY <1>3 DEF NoOp
<1>5. Stamps(acks') /\ Stamps(acksFlushed')
  <2>1. Len(core) % 2 \in 0 .. 1 /\ acks \in [0 .. 1 -> AckContents] /\ ~TornAck.valid
    BY Facts DEF Good, Types, TornAck
  <2> QED
    BY <1>3, <2>1 DEF Stamps, Reloads
<1>6. Len(wal) \in 0 .. Len(wal) /\ \A i \in Frames(wal) : i <= Len(wal)
  BY Facts DEF Frames, Good
<1>7. Len(wal) <= Len(wal)' /\ Len(wal)' \in Nat /\ Frames(wal)' = Frames(wal)
  BY <1>3, Facts DEF Good
<1> QED
  BY <1>2, <1>3, <1>4, <1>5, <1>6, <1>7, ReloadsKept

LEMMA AcknowledgeReloads ==
  ASSUME Good, Reloads, Acknowledge
  PROVE  Reloads'
<1> USE DEF Reloads
<1>1. op.stage = "acked"
  BY DEF Acknowledge
<1>2. phase = "open" /\ Len(Floor) \in Nat /\ Len(Floor) <= Len(core)
  BY <1>1, InOperation, FloorIs
<1>3. /\ op' = NoOp /\ acksFlushed' = acks
      /\ UNCHANGED <<wal, walFlushed, slots, slotsFlushed, acks, dirty, lost, phase, core, poisoned, newest,
                     generation, latest, cp, durability, soft>>
  BY DEF Acknowledge, countVars, memoryVars
<1>4. op'.stage = "none" /\ op'.id = 0
  BY <1>3 DEF NoOp
<1>5. Floor' = Floor /\ Pending' = Pending
  BY <1>3 DEF Floor, Pending, Contents, Cores
<1>6. Serves'
  BY <1>1, <1>2, <1>3, <1>4, <1>5, ServesStays
<1>7. Twins' /\ Even'
  BY <1>2, <1>3, <1>4, <1>5, TwinsStay, EvenStill
<1> QED
  BY <1>3, <1>6, <1>7 DEF Generations, Contents, Cores, Intact, Stamps
--------------------------------------------------------------------------------
(***************************************************************************)
(* The steps of a checkpoint.                                              *)
(***************************************************************************)
LEMMA ReloadsStill ==
  ASSUME Good, Reloads, phase = "open",
         UNCHANGED <<durability, lost, soft, wal, core, acks, latest, phase, poisoned, newest, generation, slots,
                     slotsFlushed, dirty, op, end>>,
         Stamps(acksFlushed'), walFlushed' = walFlushed \/ walFlushed' = wal,
         cp'.stage # "none" => /\ cp.stage # "none" /\ cp'.gen = cp.gen /\ cp'.mirror = cp.mirror /\ cp'.core = cp.core
                               /\ cp'.stage \in {"mirrored", "resetting", "keeping", "reset"}
                                     => cp.stage \in {"mirrored", "resetting", "keeping", "reset"}
  PROVE  Reloads'
<1> USE DEF Reloads
<1>1. Len(Floor) \in Nat /\ Len(Floor) <= Len(core) /\ Floor' = Floor /\ Pending' \subseteq Pending /\ Contents' = Contents
  BY FloorIs DEF Floor, Pending, Contents, Cores
<1>2. Serves' /\ Twins' /\ Even'
  BY <1>1, ServesStays, TwinsStay, EvenStill
<1>3. Generations'
  BY <1>1 DEF Generations
<1> QED
  BY <1>2, <1>3 DEF Intact, Stamps

LEMMA BeginCheckpointReloads ==
  ASSUME Good, Reloads, NEW closing \in BOOLEAN, BeginCheckpoint(closing)
  PROVE  Reloads'
<1> USE DEF Reloads
<1>1. /\ phase = "open" /\ ~poisoned /\ op = NoOp /\ op.stage = "none" /\ op.id = 0 /\ Len(wal) = end /\ Sound /\ cp.stage = "none"
  BY Serving DEF BeginCheckpoint, QueueTurn, NoOp
<1>2. /\ cp' = [stage |-> "slot", mirror |-> FALSE, closing |-> closing, slot |-> CheckpointSlot,
                gen |-> generation + 1, core |-> core, end |-> end]
      /\ (Strict => walFlushed' = walFlushed /\ dirty' = dirty)
      /\ (~Strict => walFlushed' = wal /\ dirty' = {})
      /\ UNCHANGED <<wal, slots, slotsFlushed, acks, acksFlushed, lost, phase, core, poisoned, end, newest,
                     generation, latest, op, durability, soft>>
  BY DEF BeginCheckpoint, memoryVars, historyVars
<1>3. Len(Floor) \in Nat /\ Len(Floor) <= Len(core) /\ Floor' = Floor /\ Contents' = Contents /\ Pending = Contents
      /\ Pending' = Contents \cup {core} /\ Strict' = Strict
  BY <1>1, <1>2, FloorIs DEF Floor, Pending, Contents, Cores, Strict
<1>4. wal \in Seq(Cells) /\ Len(wal) \in Nat /\ Len(core) \in Nat
  BY Facts DEF Good
<1>5. Serves' /\ Twins'
  BY <1>1, <1>2, <1>3, ServesStays, TwinsStay
<1>6. ASSUME ~soft
      PROVE  /\ Strict' /\ Bare' => \A c, d \in Pending' : Len(c) = Len(d)
             /\ \A c \in Pending' : Led(Len(c))' /\ (~Strict' => LedFlushed(Len(c))')
  <2>1. Tip /\ Kept = Len(wal)
    BY <1>1, <1>6 DEF Serves, Kept
  <2>2. \A i \in Frames(wal) : i \in 1 .. Len(wal) /\ wal[i].op # 0
    BY FrameIs DEF Good
  <2>3. ASSUME Strict, Bare'
        PROVE  \A c, d \in Pending' : Len(c) = Len(d)
    <3>1. Bare /\ Frames(wal) = {}
      BY <1>1, <1>2, <2>2, <2>3 DEF Bare
    <3>2. Len(core) = Len(Floor)
      BY <1>4, <2>1, <3>1 DEF Tip, Frames
    <3>3. \A c, d \in Contents : Len(c) = Len(d)
      BY <1>3, <1>6, <2>3, <3>1 DEF Even
    <3>4. ASSUME NEW c \in Contents
          PROVE  Len(c) = Len(core)
      <4>1. CASE slots[newest].state = "valid"
        BY <1>1, <3>2, <3>3, <4>1, FloorIs
      <4>2. CASE slots[newest].state # "valid"
        <5>1. Len(c) \in Nat /\ Len(c) <= Len(core)
          BY <1>1, <1>3, PendingIs
        <5> QED
          BY <3>2, <4>2, <5>1 DEF Floor
      <4> QED
        BY <4>1, <4>2
    <3> QED
      BY <1>3, <3>4
  <2>4. ASSUME NEW n \in Nat, Led(n)
        PROVE  Led(n)'
    <3>1. CASE \A i \in Frames(wal) : wal[i].seq > n
      BY <1>2, <3>1 DEF Led
    <3>2. CASE Strict /\ \E p \in Frames(wal) : n <= wal[p].seq /\ wal[p].op # op.id
      BY <1>2, <1>3, <3>2 DEF Led
    <3>3. ASSUME NEW p \in Frames(wal), Readable(p), n <= wal[p].seq, ~Strict
          PROVE  Led(n)'
      <4>1. Readable(p)' /\ p \in Frames(wal') /\ n <= wal'[p].seq
        BY <1>2, <3>3 DEF Readable
      <4>2. p <= Len(walFlushed)' /\ \A i \in 1 .. p : wal'[i] = walFlushed'[i] /\ (wal'[i].k = "frame" => wal'[i].op \notin dirty')
        BY <1>2, <1>4, <2>2, <3>3
      <4> QED
        BY <1>3, <3>3, <4>1, <4>2 DEF Led
    <3> QED
      BY <2>4, <3>1, <3>2, <3>3 DEF Led
  <2>5. ASSUME NEW n \in Nat, n = Len(core)
        PROVE  Led(n)'
    <3>1. CASE Len(wal) = 0
      BY <1>2, <1>4, <3>1 DEF Led, Frames
    <3>2. CASE Len(wal) # 0
      <4>1. PICK p \in Nat : p = Len(wal)
        BY <1>4
      <4>2. p \in Frames(wal) /\ wal[p].seq = n /\ wal[p].op # op.id
        BY <1>1, <1>4, <2>1, <2>2, <2>5, <3>2, <4>1 DEF Tip, Frames
      <4>3. Readable(p)
        BY <1>1, <4>2, SoundReads DEF Good
      <4>4. CASE Strict
        <5>1. Led(n)
          BY <2>5, <4>2, <4>4 DEF Led
        <5> QED
          BY <2>4, <5>1
      <4>5. CASE ~Strict
        <5>1. Readable(p)' /\ p \in Frames(wal')
          BY <1>2, <4>2, <4>3 DEF Readable
        <5>2. p <= Len(walFlushed)' /\ \A i \in 1 .. p : wal'[i] = walFlushed'[i] /\ (wal'[i].k = "frame" => wal'[i].op \notin dirty')
          BY <1>2, <1>4, <4>1, <4>5
        <5>3. n <= wal'[p].seq /\ ~Strict'
          BY <1>2, <1>3, <2>5, <4>2, <4>5
        <5> QED
          BY <5>1, <5>2, <5>3 DEF Led
      <4> QED
        BY <4>4, <4>5
    <3> QED
      BY <3>1, <3>2
  <2>6. ASSUME NEW n \in Nat, ~Strict, Led(n)'
        PROVE  LedFlushed(n)'
    <3>1. walFlushed' = wal'
      BY <1>2, <2>6
    <3> QED
      BY <1>3, <2>6, <3>1 DEF Led, LedFlushed, Readable
  <2>7. ASSUME NEW c \in Pending'
        PROVE  Len(c) \in Nat /\ Led(Len(c))'
    <3>1. CASE c = core
      <4>1. Len(c) \in Nat /\ Len(c) = Len(core)
        BY <1>4, <3>1
      <4> QED
        BY <2>5, <4>1
    <3>2. CASE c \in Contents
      <4>1. Len(c) \in Nat
        BY <1>1, <1>3, <3>2, PendingIs
      <4>2. Led(Len(c))
        BY <1>3, <1>6, <3>2 DEF Even
      <4> QED
        BY <2>4, <4>1, <4>2
    <3> QED
      BY <1>3, <3>1, <3>2
  <2> QED
    BY <1>3, <2>3, <2>6, <2>7
<1>7. Even'
  BY <1>2, <1>6 DEF Even
<1>8. Generations'
  BY <1>1, <1>2 DEF Generations
<1> QED
  BY <1>2, <1>5, <1>7, <1>8 DEF Intact, Stamps

LEMMA TearSlotReloads ==
  ASSUME Good, Reloads, TearSlot
  PROVE  Reloads'
<1> USE DEF Reloads
<1>1. cp.stage = "slot"
  BY DEF TearSlot
<1>2. phase = "open" /\ newest \in 0 .. 1 /\ SlotNow = 1 - newest /\ SlotNow \in 0 .. 1
  BY <1>1, InCheckpoint, SlotNowIs
<1>3. /\ slots' = [slots EXCEPT ![SlotNow] = Torn] /\ cp' = [cp EXCEPT !.stage = "torn"]
      /\ UNCHANGED <<wal, walFlushed, slotsFlushed, acks, acksFlushed, dirty, lost, phase, core, poisoned, end, newest,
                     generation, latest, op, durability, soft>>
  BY DEF TearSlot, memoryVars, countVars, historyVars
<1>4. slots \in [0 .. 1 -> SlotContents] /\ Torn.state # "valid"
  BY DEF Good, Types, Torn
<1>5. slots'[newest] = slots[newest] /\ slots'[1 - newest] = Torn /\ \A i \in 0 .. 1 : slots'[i] = slots[i] \/ slots'[i].state # "valid"
  BY <1>2, <1>3, <1>4
<1>6. cp'.stage = "torn" /\ cp'.gen = cp.gen /\ cp'.mirror = cp.mirror /\ cp'.core = cp.core
  BY <1>3, CpIs DEF Good, CheckpointStages
<1>7. Contents' \subseteq Contents /\ Pending' \subseteq Pending
  <2>1. Cores(slots)' \subseteq Cores(slots) /\ Cores(slotsFlushed)' = Cores(slotsFlushed)
    BY <1>3, <1>5 DEF Cores
  <2> QED
    BY <1>1, <1>6, <2>1 DEF Contents, Pending
<1>8. Floor' = Floor /\ Len(Floor) \in Nat /\ Len(Floor) <= Len(core)
  BY <1>2, <1>3, <1>5, FloorIs DEF Floor
<1>9. Serves'
  BY <1>2, <1>3, <1>8, ServesStays
<1>10. Twins'
  <2> SUFFICES ASSUME ~soft
               PROVE  generation \in Nat /\ Paired(newest, generation)'
    BY <1>2, <1>3 DEF Twins
  <2>1. generation \in Nat /\ Paired(newest, generation)
    BY <1>2 DEF Twins
  <2> QED
    BY <1>3, <1>4, <1>5, <2>1 DEF Paired, Beside
<1>11. Even'
  BY <1>2, <1>3, <1>7, EvenStill
<1>12. Generations'
  BY <1>1, <1>2, <1>3, <1>6 DEF Generations
<1> QED
  BY <1>3, <1>9, <1>10, <1>11, <1>12 DEF Intact, Stamps

LEMMA WriteSlotReloads ==
  ASSUME Good, Reloads, WriteSlot
  PROVE  Reloads'
<1> USE DEF Reloads
<1> DEFINE s == [state |-> "valid", gen |-> cp.gen, core |-> cp.core]
<1>1. cp.stage = "torn"
  BY DEF WriteSlot
<1>2. phase = "open" /\ newest \in 0 .. 1 /\ SlotNow = 1 - newest /\ SlotNow \in 0 .. 1
  BY <1>1, InCheckpoint, SlotNowIs
<1>3. /\ slots' = [slots EXCEPT ![SlotNow] = s] /\ cp' = [cp EXCEPT !.stage = "written"]
      /\ UNCHANGED <<wal, walFlushed, slotsFlushed, acks, acksFlushed, dirty, lost, phase, core, poisoned, end, newest,
                     generation, latest, op, durability, soft>>
  BY DEF WriteSlot, memoryVars, countVars, historyVars
<1>4. slots \in [0 .. 1 -> SlotContents] /\ generation \in Nat /\ Len(cp.core) \in Nat
  BY Facts DEF Good, Types
<1>5. slots'[newest] = slots[newest] /\ slots'[1 - newest] = s /\ \A i \in 0 .. 1 : slots'[i] = slots[i] \/ slots'[i] = s
  BY <1>2, <1>3, <1>4
<1>6. cp'.stage = "written" /\ cp'.gen = cp.gen /\ cp'.mirror = cp.mirror /\ cp'.core = cp.core
  BY <1>3, CpIs DEF Good, CheckpointStages
<1>7. Pending' \subseteq Pending
  <2>1. Cores(slots)' \subseteq Cores(slots) \cup {cp.core} /\ Cores(slotsFlushed)' = Cores(slotsFlushed)
    BY <1>3, <1>5 DEF Cores
  <2> QED
    BY <1>1, <1>6, <2>1 DEF Contents, Pending
<1>8. Floor' = Floor /\ Len(Floor) \in Nat /\ Len(Floor) <= Len(core)
  BY <1>2, <1>3, <1>5, FloorIs DEF Floor
<1>9. Serves'
  BY <1>2, <1>3, <1>8, ServesStays
<1>10. Twins'
  <2> SUFFICES ASSUME ~soft
               PROVE  Paired(newest, generation)'
    BY <1>2, <1>3, <1>4 DEF Twins
  <2>1. Paired(newest, generation)
    BY <1>2 DEF Twins
  <2>2. CASE slots[newest].state # "valid"
    BY <1>3, <1>5, <2>1, <2>2 DEF Paired
  <2>3. CASE slots[newest].state = "valid"
    <3>1. slots[newest].core \in Contents
      BY <1>2, <2>3 DEF Contents, Cores
    <3>2. cp.gen = (IF cp.mirror THEN generation ELSE generation + 1) /\ Len(slots[newest].core) <= Len(cp.core)
          /\ (cp.mirror => cp.core = slots[newest].core)
      BY <1>1, <3>1 DEF Generations, Good, Checkpoint
    <3>3. Len(slots[newest].core) \in Nat
      BY <3>1, DiskIs DEF Good
    <3>4. Beside(s, newest, generation)
      BY <1>4, <3>2, <3>3 DEF Beside
    <3>5. Beside(s, newest, generation)'
      BY <1>3, <1>5, <1>6, <3>4 DEF Beside
    <3> QED
      BY <1>3, <1>5, <1>6, <2>1, <2>3, <3>5 DEF Paired, Beside
  <2> QED
    BY <2>2, <2>3
<1>11. Even'
  BY <1>2, <1>3, <1>7, EvenStill
<1>12. Generations'
  BY <1>1, <1>2, <1>3, <1>6 DEF Generations
<1> QED
  BY <1>3, <1>9, <1>10, <1>11, <1>12 DEF Intact, Stamps

LEMMA FlushSlotReloads ==
  ASSUME Good, Reloads, FlushSlot
  PROVE  Reloads'
<1> USE DEF Reloads
<1>1. cp.stage = "written"
  BY DEF FlushSlot
<1>2. phase = "open" /\ newest \in 0 .. 1 /\ SlotNow = 1 - newest /\ SlotNow \in 0 .. 1
  BY <1>1, InCheckpoint, SlotNowIs
<1>3. /\ slotsFlushed' = [slotsFlushed EXCEPT ![SlotNow] = slots[SlotNow]]
      /\ UNCHANGED <<wal, walFlushed, slots, acks, acksFlushed, dirty, lost, phase, core, poisoned, end, latest, op,
                     durability, soft>>
  BY DEF FlushSlot, countVars
<1>4. slots \in [0 .. 1 -> SlotContents] /\ slotsFlushed \in [0 .. 1 -> SlotContents] /\ generation \in Nat
      /\ cp.core \in Seq(Nat) /\ Len(cp.core) \in Nat /\ Len(cp.core) <= Len(core) /\ Len(core) \in Nat /\ cp.gen \in Nat
  BY <1>1, InCheckpoint, Facts DEF Good, Types
<1>5. slotsFlushed'[newest] = slotsFlushed[newest] /\ slotsFlushed'[1 - newest] = slots[1 - newest]
      /\ \A i \in 0 .. 1 : slotsFlushed'[i] = slotsFlushed[i] \/ slotsFlushed'[i] = slots[i]
  BY <1>2, <1>3, <1>4
<1>6. slots[1 - newest].state = "valid" /\ slots[1 - newest].gen = cp.gen /\ slots[1 - newest].core = cp.core
  BY <1>1, <1>2 DEF Good, Checkpoint
<1>7. Contents' \subseteq Contents
  BY <1>3, <1>5 DEF Contents, Cores
<1>8. \A c \in Contents : Len(c) <= Len(cp.core)
  BY <1>1 DEF Good, Checkpoint
<1>9. Len(Floor) \in Nat /\ Len(Floor) <= Len(cp.core)
  BY <1>2, <1>4, <1>8, FloorIs DEF Floor
<1>10. cp.gen = IF cp.mirror THEN generation ELSE generation + 1
  BY <1>1 DEF Generations
<1>11. ~soft => Paired(newest, generation)
  BY <1>2 DEF Twins
<1>12. CASE cp.mirror
  <2>1. cp' = [cp EXCEPT !.stage = "mirrored"] /\ newest' = newest /\ generation' = generation
    BY <1>12 DEF FlushSlot
  <2>2. cp'.stage = "mirrored" /\ cp'.gen = cp.gen /\ cp'.mirror = cp.mirror /\ cp'.core = cp.core
    BY <2>1, CpIs DEF Good, CheckpointStages
  <2>3. slots[newest].state = "valid" /\ slots[newest].core = cp.core
    BY <1>1, <1>12 DEF Good, Checkpoint
  <2>4. Serves'
    <3>1. Floor' = Floor
      BY <1>3, <2>1 DEF Floor
    <3> QED
      BY <1>2, <1>3, <1>9, <3>1, FloorIs, ServesStays
  <2>5. Twins'
    <3> SUFFICES ASSUME ~soft
                 PROVE  Paired(newest, generation)'
      BY <1>2, <1>3, <1>4, <2>1 DEF Twins
    <3> QED
      BY <1>3, <1>4, <1>5, <1>6, <1>10, <1>11, <1>12, <2>1, <2>3 DEF Paired, Beside
  <2>6. Even'
    <3>1. Pending' \subseteq Pending
      BY <1>1, <1>7, <2>2 DEF Pending
    <3> QED
      BY <1>2, <1>3, <3>1, EvenStill
  <2>7. Generations'
    <3>1. ASSUME ~soft, NEW c \in Contents'
          PROVE  c = cp.core
      <4>1. slotsFlushed[newest] = slots[newest]
        BY <1>11, <2>3, <3>1 DEF Paired
      <4>2. \A i \in 0 .. 1 : slots[i].core = cp.core /\ slotsFlushed'[i].core = cp.core
        BY <1>2, <1>5, <1>6, <2>3, <4>1
      <4> QED
        BY <1>3, <3>1, <4>2 DEF Contents, Cores
    <3> QED
      BY <1>2, <1>3, <1>10, <2>1, <2>2, <3>1 DEF Generations
  <2> QED
    BY <1>3, <2>4, <2>5, <2>6, <2>7 DEF Intact, Stamps
<1>13. CASE ~cp.mirror
  <2>1. cp' = [cp EXCEPT !.stage = "slot", !.mirror = TRUE] /\ newest' = cp.slot /\ generation' = cp.gen /\ cp.slot = 1 - newest
    BY <1>1, <1>13 DEF FlushSlot, Good, Checkpoint
  <2>2. cp'.stage = "slot" /\ cp'.gen = cp.gen /\ cp'.mirror /\ cp'.core = cp.core
    BY <2>1 DEF Good, Types
  <2>3. Serves'
    <3>1. Floor' = cp.core
      BY <1>3, <1>6, <2>1 DEF Floor
    <3> QED
      BY <1>3, <1>4, <1>9, <3>1, ServesStays
  <2>4. Twins'
    <3>0. PICK n \in 0 .. 1, g \in Nat : n = 1 - newest /\ g = generation + 1
      BY <1>2, <1>4
    <3> SUFFICES ASSUME ~soft
                 PROVE  Paired(n, g)'
      BY <1>3, <1>10, <1>13, <2>1, <3>0 DEF Twins
    <3>1. n \in 0 .. 1 /\ 1 - n = newest /\ slotsFlushed'[n] = slots[n] /\ slotsFlushed'[1 - n] = slotsFlushed[newest]
          /\ slots[n].state = "valid" /\ slots[n].gen = g /\ slots[n].core = cp.core
      BY <1>2, <1>5, <1>6, <1>10, <1>13, <3>0
    <3>2. ASSUME NEW s, s = slots[newest] \/ s = slotsFlushed[newest], s.state = "valid"
          PROVE  s.gen = generation /\ Len(s.core) <= Len(cp.core)
      <4>1. slots[newest].state = "valid" /\ slotsFlushed[newest] = slots[newest] /\ slots[newest].gen = generation
        BY <1>2, <1>11, <3>2 DEF Paired
      <4>2. slots[newest].core \in Contents
        BY <1>2, <4>1 DEF Contents, Cores
      <4> QED
        BY <1>8, <3>2, <4>1, <4>2
    <3>3. slots[newest].state = "valid" => slots[newest].gen = g - 1 /\ Len(slots[newest].core) <= Len(cp.core)
      BY <1>4, <3>0, <3>2
    <3>4. slotsFlushed[newest].state = "valid" => slotsFlushed[newest].gen = g - 1 /\ Len(slotsFlushed[newest].core) <= Len(cp.core)
      BY <1>4, <3>0, <3>2
    <3>5. ASSUME NEW s, s.state = "valid" => s.gen = g - 1 /\ Len(s.core) <= Len(cp.core)
          PROVE  Beside(s, n, g)
      BY <3>0, <3>1, <3>5 DEF Beside
    <3>6. Beside(slots[1 - n], n, g) /\ Beside(slotsFlushed'[1 - n], n, g)
      BY <3>1, <3>3, <3>4, <3>5
    <3>7. slotsFlushed'[1 - n].state = "valid" => slotsFlushed'[1 - n].gen <= g
      BY <3>0, <3>1, <3>4
    <3> QED
      BY <1>3, <3>1, <3>6, <3>7 DEF Paired, Beside
  <2>5. Even'
    <3>1. Pending' \subseteq Pending
      BY <1>1, <1>7, <2>2 DEF Pending
    <3> QED
      BY <1>2, <1>3, <3>1, EvenStill
  <2>6. Generations'
    BY <1>2, <1>3, <2>1, <2>2 DEF Generations
  <2> QED
    BY <1>3, <2>3, <2>4, <2>5, <2>6 DEF Intact, Stamps
<1> QED
  BY <1>12, <1>13

LEMMA EndedReloads ==
  ASSUME Good, Reloads, phase = "open", cp' = Ended,
         UNCHANGED <<durability, lost, soft, wal, core, acks, latest, phase, poisoned, newest, generation, slots,
                     slotsFlushed, dirty, op, end>>,
         Stamps(acksFlushed'), walFlushed' = walFlushed \/ walFlushed' = wal
  PROVE  Reloads'
<1>1. cp'.stage = "none"
  BY EndedIs DEF Good
<1> QED
  BY <1>1, ReloadsStill

LEMMA MirroredReloads ==
  ASSUME Good, Reloads, Mirrored
  PROVE  Reloads'
<1> USE DEF Reloads
<1>1. cp.stage = "mirrored" /\ op = NoOp /\ op.stage = "none"
  BY DEF Mirrored, Busy, Good, Operation
<1>2. phase = "open" /\ latest.seq <= Len(core) /\ newest \in 0 .. 1
  BY <1>1, InCheckpoint
<1>3. UNCHANGED <<wal, walFlushed, slots, slotsFlushed, acksFlushed, dirty, lost, phase, core, poisoned, end, newest,
                  generation, op, durability, soft>>
  BY DEF Mirrored, countVars, historyVars
<1>4. Floor = cp.core /\ Len(cp.core) \in Nat /\ end \in Nat /\ cp.end \in Nat /\ Floor' = Floor
  BY <1>1, <1>3, Facts DEF Good, Checkpoint, Floor, Types
<1>5. CASE cp' = Ended /\ UNCHANGED <<acks, latest>>
  BY <1>2, <1>3, <1>5, EndedReloads
<1>6. ASSUME NEW s \in CheckpointStages, cp' = [cp EXCEPT !.stage = s], s \in {"resetting", "keeping"},
             NEW e \in Nat, Publish(Len(cp.core), e), latest.seq <= Len(cp.core)
      PROVE  Reloads'
  <2>1. Stamps(acks')
    BY <1>4, <1>6, StampsOn DEF Good, Publish
  <2>2. ~poisoned => latest' = LastAck' /\ (\A i \in 0 .. 1 : acks'[i].valid) /\ latest'.seq = Len(cp.core)
    BY <1>2, <1>4, <1>6, PublishLast DEF Good, Serves
  <2>3. cp'.stage = s /\ cp'.gen = cp.gen /\ cp'.mirror = cp.mirror /\ cp'.core = cp.core
    BY <1>6, CpIs DEF Good
  <2>4. Serves'
    <3> SUFFICES ASSUME ~poisoned
                 PROVE  ~soft => Tip'
      BY <1>1, <1>3, <2>2 DEF Serves
    <3>1. Tip' = Tip
      BY <1>3, <1>4 DEF Tip, Kept
    <3> QED
      BY <1>2, <3>1 DEF Serves
  <2>5. Pending' = Pending /\ Contents' = Contents
    BY <1>1, <1>3, <1>6, <2>3 DEF Pending, Contents, Cores
  <2>6. Twins' /\ Even'
    BY <1>2, <1>3, <2>5, TwinsStay, EvenStill
  <2>7. Generations'
    BY <1>1, <1>2, <1>3, <2>3, <2>5 DEF Generations
  <2> QED
    BY <1>3, <2>1, <2>4, <2>6, <2>7 DEF Intact, Stamps
<1>7. CASE CoversLog /\ Publish(Len(core), end) /\ cp' = [cp EXCEPT !.stage = "resetting"]
  BY <1>2, <1>4, <1>6, <1>7 DEF CoversLog, CheckpointStages
<1>8. CASE latest.seq < Len(cp.core) /\ Publish(Len(cp.core), cp.end) /\ cp' = [cp EXCEPT !.stage = "keeping"]
  <2>1. latest.seq <= Len(cp.core)
    BY <1>4, <1>8, Facts DEF Good
  <2> QED
    BY <1>4, <1>6, <1>8, <2>1 DEF CheckpointStages
<1> QED
  BY <1>5, <1>7, <1>8 DEF Mirrored

LEMMA FlushBoundaryReloads ==
  ASSUME Good, Reloads, FlushBoundary
  PROVE  Reloads'
<1>1. cp.stage \in {"resetting", "keeping"} /\ phase = "open"
  BY InCheckpoint DEF FlushBoundary
<1>2. /\ acksFlushed' = acks
      /\ UNCHANGED <<durability, lost, soft, wal, walFlushed, core, acks, latest, phase, poisoned, newest, generation, slots,
                     slotsFlushed, dirty, op, end>>
  BY DEF FlushBoundary, memoryVars, countVars, historyVars
<1>3. Stamps(acksFlushed')
  BY <1>2 DEF Reloads
<1>4. CASE cp' = Ended
  BY <1>1, <1>2, <1>3, <1>4, EndedReloads
<1>5. CASE cp' = [cp EXCEPT !.stage = "reset"]
  <2>1. cp'.stage = "reset" /\ cp'.gen = cp.gen /\ cp'.mirror = cp.mirror /\ cp'.core = cp.core
    BY <1>5, CpIs DEF Good, CheckpointStages
  <2> QED
    BY <1>1, <1>2, <1>3, <2>1, ReloadsStill
<1> QED
  BY <1>4, <1>5 DEF FlushBoundary

LEMMA FlushResetReloads ==
  ASSUME Good, Reloads, FlushReset
  PROVE  Reloads'
<1>1. phase = "open"
  BY InCheckpoint DEF FlushReset
<1>2. /\ cp' = Ended /\ walFlushed' = wal
      /\ UNCHANGED <<durability, lost, soft, wal, core, acks, acksFlushed, latest, phase, poisoned, newest, generation,
                     slots, slotsFlushed, dirty, op, end>>
  BY DEF FlushReset, memoryVars, countVars, historyVars
<1> QED
  BY <1>1, <1>2, EndedReloads DEF Reloads

LEMMA CheckpointFailsReloads ==
  ASSUME Good, Reloads, CheckpointFails
  PROVE  Reloads'
<1>1. phase = "open"
  BY InCheckpoint DEF CheckpointFails
<1>2. /\ cp' = Ended
      /\ UNCHANGED <<durability, lost, soft, wal, walFlushed, core, acks, acksFlushed, latest, phase, poisoned, newest,
                     generation, slots, slotsFlushed, dirty, op, end>>
  BY DEF CheckpointFails, fileVars, memoryVars, historyVars
<1> QED
  BY <1>1, <1>2, EndedReloads DEF Reloads

LEMMA ResetReloads ==
  ASSUME Good, Reloads, Reset
  PROVE  Reloads'
<1> USE DEF Reloads
<1>1. cp.stage = "reset"
  BY DEF Reset
<1>2. phase = "open" /\ latest.seq <= Len(core) /\ newest \in 0 .. 1 /\ Len(core) \in Nat
  BY <1>1, InCheckpoint
<1>3. core = cp.core /\ ~poisoned /\ op.stage = "none" /\ Floor = core
  BY <1>1 DEF Good, Checkpoint, Busy, Floor
<1>4. /\ wal' = << >> /\ cp' = [cp EXCEPT !.stage = "emptied"]
      /\ UNCHANGED <<walFlushed, slots, slotsFlushed, acks, acksFlushed, dirty, lost, phase, core, poisoned, newest,
                     generation, latest, op, durability, soft>>
  BY DEF Reset, countVars, historyVars
<1>5. cp'.stage = "emptied" /\ cp'.gen = cp.gen /\ cp'.mirror = cp.mirror /\ cp'.core = cp.core
  BY <1>4, CpIs DEF Good, CheckpointStages
<1>6. Floor' = core /\ Pending' = Pending /\ Contents' = Contents /\ Strict' = Strict
  BY <1>1, <1>3, <1>4, <1>5 DEF Floor, Pending, Contents, Cores, Strict
<1>7. Frames(wal') = {} /\ Len(wal') = 0
  BY <1>4 DEF Frames
<1>8. Serves'
  <2>1. latest' = LastAck' /\ \A i \in 0 .. 1 : acks'[i].valid
    BY <1>2, <1>3, <1>4 DEF Serves, LastAck
  <2>2. Tip'
    BY <1>3, <1>4, <1>6, <1>7 DEF Tip, Kept
  <2>3. op'.stage = "none"
    BY <1>3, <1>4
  <2> QED
    BY <2>1, <2>2, <2>3 DEF Serves
<1>9. Twins'
  BY <1>2, <1>4, TwinsStay
<1>10. Even'
  <2> SUFFICES ASSUME ~soft
               PROVE  /\ Strict' /\ Bare' => \A c, d \in Pending' : Len(c) = Len(d)
                      /\ \A c \in Pending' : Led(Len(c))' /\ (~Strict' => LedFlushed(Len(c))')
    BY <1>4, Zenon DEF Even
  <2>1. \A c \in Pending : c = core
    BY <1>1, <1>3 DEF Generations, Pending
  <2>2. \A c \in Pending : ~Strict => LedFlushed(Len(c))
    BY DEF Even
  <2>3. ASSUME NEW n \in Nat
        PROVE  Led(n)' /\ (LedFlushed(n) => LedFlushed(n)')
    BY <1>4, <1>7 DEF Led, LedFlushed
  <2>4. ASSUME NEW c \in Pending'
        PROVE  Led(Len(c))' /\ (~Strict' => LedFlushed(Len(c))')
    <3>1. Len(c) \in Nat /\ c \in Pending
      BY <1>2, <1>6, <2>1
    <3> QED
      BY <1>6, <2>2, <2>3, <3>1
  <2> QED
    BY <1>6, <2>1, <2>4
<1>11. Generations'
  BY <1>1, <1>2, <1>4, <1>5 DEF Generations
<1> QED
  BY <1>4, <1>8, <1>9, <1>10, <1>11 DEF Intact, Stamps
--------------------------------------------------------------------------------
(***************************************************************************)
(* The leader goes away.                                                   *)
(***************************************************************************)
LEMMA ForgetReloads ==
  ASSUME Good, Reloads, phase = "open", Forget,
         UNCHANGED <<durability, walFlushed, slots, slotsFlushed, acksFlushed, dirty, lost, soft>>,
         \A i \in 0 .. 1 : acks'[i] = acks[i] \/ ~acks'[i].valid,
         NEW k \in 0 .. Len(wal), k <= Len(wal'), Len(wal') \in Nat, \A i \in 1 .. k : wal'[i] = wal[i],
         \A i \in Frames(wal') : i <= k, \A p \in Frames(wal) : p <= k \/ (Strict /\ wal[p].op = op.id)
  PROVE  Reloads'
<1> USE DEF Reloads
<1>1. phase' = "down" /\ generation' = 0 /\ op'.id = 0 /\ cp'.stage = "none"
  BY ForgottenIs DEF NoOp
<1>2. Serves' /\ Intact'
  BY <1>1 DEF Serves, Intact
<1>3. Twins'
  BY <1>1, TwinsStay
<1>4. Even'
  <2>1. Pending' \subseteq Pending
    BY <1>1 DEF Pending, Contents, Cores
  <2>2. \A i \in Frames(wal) : i \in 1 .. Len(wal) /\ wal[i].op # 0 /\ wal[i].seq \in Nat
    BY FrameIs DEF Good
  <2>3. Len(wal) \in Nat
    BY Facts DEF Good
  <2>4. \A i \in Frames(wal') : i \in Frames(wal) /\ wal'[i] = wal[i]
    BY <2>3 DEF Frames
  <2>5. \A p \in Frames(wal) : wal[p].op # op.id => p \in Frames(wal') /\ wal'[p] = wal[p] /\ wal[p].op # op'.id
    BY <1>1, <2>2, <2>3 DEF Frames
  <2>6. \A i \in Frames(wal') : wal'[i].seq \in Nat
    BY <2>2, <2>4
  <2> QED
    BY <2>1, <2>4, <2>5, <2>6, EvenStep
<1>5. Generations'
  BY <1>1 DEF Generations
<1> QED
  BY <1>2, <1>3, <1>4, <1>5 DEF Stamps

LEMMA ShutdownReloads ==
  ASSUME Good, Reloads, Shutdown
  PROVE  Reloads'
<1>1. /\ phase = "open" /\ Forget
      /\ UNCHANGED <<wal, walFlushed, slots, slotsFlushed, acks, acksFlushed, dirty, lost, durability, soft>>
  BY DEF Shutdown, fileVars, countVars, historyVars
<1>2. Len(wal) \in 0 .. Len(wal) /\ Len(wal) \in Nat /\ \A i \in Frames(wal) : i <= Len(wal)
  BY Facts DEF Frames, Good
<1> QED
  BY <1>1, <1>2, ForgetReloads

LEMMA TabDiesReloads ==
  ASSUME Good, Reloads, NEW short \in BOOLEAN, NEW torn \in BOOLEAN, TabDies(short, torn)
  PROVE  Reloads'
<1>1. /\ phase = "open" /\ Forget /\ (short => Logging)
      /\ wal' = IF short THEN Put(end, Short) ELSE wal
      /\ acks' = IF torn THEN [acks EXCEPT ![latest.seq % 2] = TornAck] ELSE acks
      /\ UNCHANGED <<walFlushed, slots, slotsFlushed, acksFlushed, dirty, lost, durability, soft>>
  BY DEF TabDies, historyVars
<1>2. Len(wal) \in Nat /\ wal \in Seq(Cells) /\ end \in Nat
  BY Facts DEF Good
<1>3. \A i \in 0 .. 1 : acks'[i] = acks[i] \/ ~acks'[i].valid
  <2>1. latest.seq \in Nat /\ acks \in [0 .. 1 -> AckContents] /\ ~TornAck.valid
    BY Facts DEF Good, Types, TornAck
  <2>2. latest.seq % 2 \in 0 .. 1
    BY <2>1
  <2> QED
    BY <2>1, <2>2, <1>1
<1>4. Short \in Cells /\ Short.k = "short"
  BY CellIs
<1>5. CASE ~short
  <2>1. Len(wal) \in 0 .. Len(wal) /\ wal' = wal /\ \A i \in Frames(wal) : i <= Len(wal)
    BY <1>1, <1>2, <1>5 DEF Frames
  <2> QED
    BY <2>1, <1>1, <1>2, <1>3, ForgetReloads
<1>6. CASE short /\ op.stage = "written"
  <2>1. Len(wal) = end + 1 /\ Strict /\ wal[end + 1].op = op.id
    BY <1>6, InOperation DEF Good, Operation, Frame
  <2>2. /\ Len(wal') = end + 1 /\ wal'[end + 1] = Short
        /\ \A i \in 1 .. Len(wal) : i # end + 1 => wal'[i] = wal[i]
    <3>1. wal' = Put(end, Short) /\ end <= Len(wal)
      BY <2>1, <1>1, <1>2, <1>6
    <3>2. LET v == Put(end, Short)
          IN  /\ v \in Seq(Cells) /\ Len(v) = IF Len(wal) > end THEN Len(wal) ELSE end + 1
              /\ v[end + 1] = Short /\ \A i \in 1 .. Len(wal) : i # end + 1 => v[i] = wal[i]
      BY <3>1, <1>2, <1>4, PutIs DEF Good
    <3> QED
      BY <3>1, <3>2, <2>1, <1>2
  <2>3. /\ end \in 0 .. Len(wal) /\ end <= Len(wal') /\ Len(wal') \in Nat
        /\ \A i \in 1 .. end : wal'[i] = wal[i]
    BY <1>2, <2>1, <2>2
  <2>4. \A i \in Frames(wal') : i <= end
    BY <1>2, <1>4, <2>2 DEF Frames
  <2>5. \A p \in Frames(wal) : p <= end \/ (Strict /\ wal[p].op = op.id)
    BY <1>2, <2>1 DEF Frames
  <2> QED
    BY <1>1, <1>3, <2>3, <2>4, <2>5, ForgetReloads
<1>7. CASE short /\ op.stage # "written"
  <2>1. Len(wal) = end
    <3>1. CASE op.stage = "staged"
      BY <3>1, InOperation
    <3>2. CASE QueueTurn \/ LeaseLane
      BY <3>2, Serving
    <3> QED
      BY <3>1, <3>2, <1>1, <1>7 DEF Logging
  <2>2. /\ Len(wal') = Len(wal) + 1 /\ wal'[Len(wal) + 1] = Short /\ \A i \in 1 .. Len(wal) : wal'[i] = wal[i]
    BY <2>1, <1>1, <1>4, <1>7, PutEnd DEF Good
  <2>3. /\ Len(wal) \in 0 .. Len(wal) /\ Len(wal) <= Len(wal') /\ Len(wal') \in Nat
        /\ \A i \in Frames(wal) : i <= Len(wal)
    BY <2>2, <1>2 DEF Frames
  <2>4. \A i \in Frames(wal') : i <= Len(wal)
    BY <2>2, <1>2, <1>4 DEF Frames
  <2> QED
    BY <1>1, <1>3, <2>2, <2>3, <2>4, ForgetReloads
<1> QED
  BY <1>5, <1>6, <1>7
--------------------------------------------------------------------------------
(***************************************************************************)
(* A power loss.                                                           *)
(***************************************************************************)
LEMMA CommonAgrees ==
  ASSUME NEW w \in Seq(Cells), NEW f \in Seq(Cells)
  PROVE  Common(w, f) \in 0 .. Len(w) /\ Common(w, f) <= Len(f) /\ \A i \in 1 .. Common(w, f) : w[i] = f[i]
<1> DEFINE I == {n \in 0 .. Len(w) : n <= Len(f) /\ \A i \in 1 .. n : w[i] = f[i]}
<1>1. Len(w) \in Nat /\ Len(f) \in Nat
  OBVIOUS
<1>2. I \in SUBSET (0 .. Len(w)) /\ 0 \in I
  BY <1>1
<1>3. Max(I) \in I
  <2> HIDE DEF I
  <2> QED
    BY <1>1, <1>2, Greatest
<1> QED
  BY <1>3 DEF Common

(* A slot that was flushed stays. *)
LEMMA OutcomeStays ==
  ASSUME NEW S, NEW a \in [0 .. 1 -> S], NEW b \in [0 .. 1 -> S], NEW t \in S, NEW v \in SlotOutcomes(a, b, t)
  PROVE  \A i \in 0 .. 1 : a[i] = b[i] => v[i] = a[i]
<1> DEFINE left(i) == {a[i], b[i]} \cup IF a[i] = b[i] THEN {} ELSE {t}
<1>1. PICK x \in left(0), y \in left(1) : v = [i \in 0 .. 1 |-> IF i = 0 THEN x ELSE y]
  BY DEF SlotOutcomes
<1>2. v[0] = x /\ v[1] = y
  BY <1>1
<1> QED
  BY <1>1, <1>2

(* A log that a power loss rolled back reaches every slot, or has no frame. *)
LEMMA AheadIs ==
  ASSUME Types, Past, OneLine, NEW s \in [0 .. 1 -> SlotContents], ~SlotAhead(s, walFlushed), NEW i \in 0 .. 1,
         Frames(walFlushed) # {}
  PROVE  \E p \in Frames(walFlushed) : Len(s[i].core) <= walFlushed[p].seq
<1> DEFINE w == walFlushed
           S == {0} \cup {w[j].seq : j \in DOMAIN w}
<1>1. w \in Seq(Cells) /\ Len(w) \in Nat /\ DOMAIN w = 1 .. Len(w) /\ Len(s[i].core) \in Nat
  <2>1. s[i].core \in Seq(Nat)
    BY DEF SlotContents
  <2> QED
    BY <2>1, Facts
<1>2. PICK p \in Frames(w) : \A j \in Frames(w) : j <= p
  <2>1. Frames(w) \in SUBSET (0 .. Len(w))
    BY <1>1 DEF Frames
  <2> QED
    BY <1>1, <2>1, Greatest, Zenon
<1>3. \A j \in Frames(w) : w[j].op \in 1 .. made /\ w[j].seq = Place(based, w[j].op) /\ w[j].seq \in Nat \ {0}
  <2>1. \A j \in Frames(w) : w[j].op \in 1 .. made /\ w[j].seq = Place(based, w[j].op)
    BY Facts DEF OneLine, Logged
  <2> QED
    BY <2>1, LineIs
<1>4. ASSUME NEW j \in Frames(w)
      PROVE  w[j].seq <= w[p].seq
  <2>1. CASE j = p
    BY <1>3, <2>1
  <2>2. CASE j # p
    <3>1. j < p
      BY <1>1, <1>2, <2>2 DEF Frames
    <3>2. Begins(Line(based, w[j].op), based[w[p].op])
      BY <3>1 DEF OneLine, Logged
    <3>3. Len(Line(based, w[j].op)) = w[j].seq
      BY <1>3, LineIs
    <3>4. w[p].seq = Len(based[w[p].op]) + 1 /\ Len(based[w[p].op]) \in Nat
      <4>1. based[w[p].op] \in Seq(Nat)
        BY <1>3, LineIs
      <4> QED
        BY <1>3, <4>1 DEF Place
    <3> QED
      BY <1>3, <3>2, <3>3, <3>4 DEF Begins
  <2> QED
    BY <2>1, <2>2
<1>5. \A j \in 1 .. Len(w) : w[j].seq \in Nat /\ w[j].seq <= w[p].seq
  <2> TAKE j \in 1 .. Len(w)
  <2>1. w[j] \in Cells
    BY <1>1, ElementOfSeq
  <2>2. w[j].k # "frame" => w[j].seq = 0
    BY <2>1 DEF Cells
  <2>3. w[j].k = "frame" => j \in Frames(w)
    BY DEF Frames
  <2> QED
    BY <1>3, <1>4, <2>2, <2>3
<1>6. Max(S) = w[p].seq
  <2>1. w[p].seq \in Nat /\ w[p].seq \in S /\ S \in SUBSET (0 .. w[p].seq)
    <3>1. p \in DOMAIN w /\ w[p].seq \in Nat
      BY <1>1, <1>3 DEF Frames
    <3>2. \A j \in DOMAIN w : w[j].seq \in 0 .. w[p].seq
      BY <1>1, <1>5, <3>1
    <3> QED
      BY <3>1, <3>2
  <2>2. Max(S) \in S /\ w[p].seq <= Max(S)
    <3> HIDE DEF S
    <3> QED
      BY <2>1, Greatest
  <2> QED
    BY <2>1, <2>2
<1>7. Max(S) \notin 1 .. Len(s[i].core) - 1
  BY DEF SlotAhead
<1> QED
  BY <1>1, <1>3, <1>6, <1>7

LEMMA PowerLossReloads ==
  ASSUME Good, Reloads, PowerLoss
  PROVE  Reloads'
<1> USE DEF Reloads
<1>0. Types /\ Past /\ OneLine
  BY DEF Good
<1>1. /\ wal' \in WrittenBack(wal, walFlushed) /\ walFlushed' = wal'
      /\ slots' \in SlotOutcomes(slots, slotsFlushed, Torn) /\ slotsFlushed' = slots'
      /\ acks' \in SlotOutcomes(acks, acksFlushed, TornAck) /\ acksFlushed' = acks'
      /\ dirty' = {} /\ Forget /\ durability' = durability
  BY DEF PowerLoss
<1>2. PICK gone \in SUBSET dirty : lost' = lost \cup gone
  BY DEF PowerLoss
<1>3. wal \in Seq(Cells) /\ walFlushed \in Seq(Cells) /\ Len(wal) \in Nat /\ Len(walFlushed) \in Nat
  BY <1>0, Facts
<1>4. /\ wal' \in Seq(Cells) /\ Len(wal') \in Nat
      /\ wal' = walFlushed \/ \A i \in Frames(wal') : i \in Frames(wal) /\ wal'[i] = wal[i]
      /\ \A p \in 0 .. Len(wal) : p <= Len(walFlushed) /\ (\A i \in 1 .. p : wal[i] = walFlushed[i])
                                  => p <= Len(wal') /\ \A i \in 1 .. p : wal'[i] = wal[i]
  BY <1>1, <1>3, WrittenIs
<1>5. /\ Torn \in SlotContents /\ Torn.state # "valid" /\ TornAck \in AckContents /\ ~TornAck.valid
  BY DEF Torn, TornAck, SlotContents, AckContents
<1>6. /\ slots \in [0 .. 1 -> SlotContents] /\ slotsFlushed \in [0 .. 1 -> SlotContents]
      /\ acks \in [0 .. 1 -> AckContents] /\ acksFlushed \in [0 .. 1 -> AckContents]
  BY <1>0 DEF Types
<1>7. slots' \in [0 .. 1 -> SlotContents] /\ \A i \in 0 .. 1 : slots'[i] \in {slots[i], slotsFlushed[i], Torn}
  BY <1>1, <1>5, <1>6, OutcomeIs
<1>8. \A i \in 0 .. 1 : slots[i] = slotsFlushed[i] => slots'[i] = slots[i]
  BY <1>1, <1>5, <1>6, OutcomeStays
<1>9. \A i \in 0 .. 1 : acks'[i] \in {acks[i], acksFlushed[i], TornAck}
  BY <1>1, <1>5, <1>6, OutcomeIs
<1>10. phase' = "down" /\ generation' = 0 /\ op' = NoOp /\ op'.id = 0 /\ cp'.stage = "none"
  BY <1>1, ForgottenIs DEF NoOp
<1>11. Stamps(acks') /\ Stamps(acksFlushed')
  BY <1>1, <1>5, <1>9 DEF Stamps
<1>12. Contents' \subseteq Contents /\ Pending' = Contents' /\ Pending' \subseteq Pending /\ Strict' = Strict
  BY <1>1, <1>5, <1>7, <1>10 DEF Cores, Contents, Pending, Strict
<1>13. soft' = (soft \/ (Strict /\ (UnflushedFrames \/ SlotAhead(slots', wal')))) /\ soft \in BOOLEAN
  BY <1>0 DEF PowerLoss, Types
<1>14. Twins'
  <2> SUFFICES ASSUME ~soft
               PROVE  \E n \in 0 .. 1, g \in Nat : Paired(n, g)'
    BY <1>10, <1>13 DEF Twins
  <2>1. PICK n \in 0 .. 1, g \in Nat : Paired(n, g)
    BY DEF Twins
  <2>2. PICK m \in 0 .. 1 : m = 1 - n /\ n = 1 - m
    OBVIOUS
  <2>3. slots'[m].state = "valid" => slots'[m].gen \in Nat
    BY <1>7 DEF SlotContents
  <2>4. CASE slots[n].state # "valid"
    <3>1. slots'[n].state # "valid"
      BY <1>5, <1>7, <2>1, <2>4 DEF Paired
    <3>2. CASE slots'[m].state # "valid"
      <4>1. \A i \in 0 .. 1 : slots'[i].state # "valid"
        BY <2>2, <3>1, <3>2
      <4>2. Paired(n, 0)'
        BY <1>1, <3>1, <4>1 DEF Paired
      <4> QED
        BY <4>2
    <3>3. CASE slots'[m].state = "valid"
      <4>1. PICK h \in Nat : h = slots'[m].gen
        BY <2>3, <3>3
      <4>2. Paired(m, h)'
        BY <1>1, <2>2, <3>1, <3>3, <4>1 DEF Paired, Beside
      <4> QED
        BY <4>2
    <3> QED
      BY <3>2, <3>3
  <2>5. CASE slots[n].state = "valid"
    <3>1. slots'[n] = slots[n] /\ slots[n].gen = g /\ slotsFlushed[n] = slots[n]
      BY <1>8, <2>1, <2>5 DEF Paired
    <3>2. Beside(slots[m], n, g) /\ Beside(slotsFlushed[m], n, g)
          /\ (slotsFlushed[m].state = "valid" => slotsFlushed[m].gen <= g)
      BY <2>1, <2>2, <2>5 DEF Paired
    <3>3. Beside(slots'[m], n, g)
      BY <1>5, <1>7, <3>2 DEF Beside
    <3>4. CASE slots'[m].state = "valid" /\ slots'[m].gen > g
      <4>1. slots'[m].gen = g + 1 /\ Len(slots'[m].core) >= Len(slots[n].core)
        BY <3>3, <3>4 DEF Beside
      <4>2. PICK h \in Nat : h = g + 1
        OBVIOUS
      <4>3. Len(slots'[m].core) \in Nat /\ Len(slots[n].core) \in Nat
        <5>1. slots'[m].core \in Seq(Nat) /\ slots[n].core \in Seq(Nat)
          BY <1>6, <1>7 DEF SlotContents
        <5> QED
          BY <5>1
      <4>4. slots'[n].gen = h - 1 /\ slots'[n].gen < h /\ Len(slots'[n].core) <= Len(slots'[m].core)
        BY <3>1, <4>1, <4>2, <4>3
      <4>5. Beside(slots[n], m, h)'
        BY <4>4 DEF Beside
      <4>6. Paired(m, h)'
        BY <1>1, <2>2, <3>4, <4>1, <4>2, <4>4, <4>5 DEF Paired, Beside
      <4> QED
        BY <4>6
    <3>5. CASE ~(slots'[m].state = "valid" /\ slots'[m].gen > g)
      <4>1. slots'[m].state = "valid" => slots'[m].gen <= g
        BY <2>3, <3>5
      <4>2. Paired(n, g)'
        BY <1>1, <2>2, <2>5, <3>1, <3>3, <4>1 DEF Paired, Beside
      <4> QED
        BY <4>2
    <3> QED
      BY <3>4, <3>5
  <2> QED
    BY <2>4, <2>5
<1>15. Even'
  <2> SUFFICES ASSUME ~soft, Strict => ~UnflushedFrames /\ ~SlotAhead(slots', wal')
               PROVE  /\ Strict' /\ Bare' => \A c, d \in Pending' : Len(c) = Len(d)
                      /\ \A c \in Pending' : Led(Len(c))' /\ (~Strict' => LedFlushed(Len(c))')
    BY <1>13, Zenon DEF Even
  <2>1. \A i \in Frames(wal) : i \in 1 .. Len(wal) /\ wal[i].op \in 1 .. made /\ wal[i].seq \in Nat
    BY <1>0, FrameIs
  <2>2. \A i \in Frames(walFlushed) : walFlushed[i].op \in 1 .. made
    BY <1>0, Facts DEF OneLine, Logged
  <2>3. \A i \in Frames(wal') : wal'[i].op # 0
    <3>1. made \in Nat
      BY <1>0, Facts
    <3>2. CASE wal' = walFlushed
      BY <2>2, <3>1, <3>2
    <3>3. CASE \A i \in Frames(wal') : i \in Frames(wal) /\ wal'[i] = wal[i]
      BY <2>1, <3>1, <3>3
    <3> QED
      BY <1>4, <3>2, <3>3
  <2>4. ASSUME Strict, NEW p \in Frames(wal), wal[p].op # op.id
        PROVE  p \in Frames(wal') /\ wal'[p] = wal[p]
    <3>1. p \in FramesTo(Len(wal)) /\ p \in Nat /\ p >= 1
      BY <2>1 DEF FramesTo, Frames
    <3>2. ~(p > Common(wal, walFlushed))
      BY <2>4, <3>1 DEF UnflushedFrames
    <3>3. /\ Common(wal, walFlushed) \in 0 .. Len(wal) /\ Common(wal, walFlushed) <= Len(walFlushed)
          /\ \A i \in 1 .. Common(wal, walFlushed) : wal[i] = walFlushed[i]
      BY <1>3, CommonAgrees
    <3>4. Common(wal, walFlushed) <= Len(wal') /\ \A i \in 1 .. Common(wal, walFlushed) : wal'[i] = wal[i]
      BY <1>4, <3>3
    <3>5. p \in 1 .. Common(wal, walFlushed) /\ p \in 1 .. Len(wal')
      BY <1>3, <1>4, <3>1, <3>2, <3>3, <3>4
    <3> QED
      BY <3>4, <3>5 DEF Frames
  <2>5. ASSUME Strict, Bare'
        PROVE  \A c, d \in Pending' : Len(c) = Len(d)
    <3>1. Frames(wal') = {}
      BY <1>10, <2>3, <2>5 DEF Bare
    <3>2. Bare
      BY <2>4, <2>5, <3>1 DEF Bare
    <3> QED
      BY <1>12, <2>5, <3>2 DEF Even
  <2>6. ASSUME NEW c \in Pending'
        PROVE  /\ Len(c) \in Nat /\ Led(Len(c)) /\ (~Strict => LedFlushed(Len(c)))
               /\ \E i \in 0 .. 1 : c = slots'[i].core
    <3>1. c \in Pending /\ c \in Contents
      BY <1>12
    <3>2. Len(c) \in Nat
      <4>1. c \in Seq(Nat)
        BY <1>0, <3>1, DiskIs
      <4> QED
        BY <4>1
    <3>3. \E i \in 0 .. 1 : c = slots'[i].core
      BY <1>1, <1>12, <2>6 DEF Contents, Cores
    <3> QED
      BY <3>1, <3>2, <3>3 DEF Even
  <2>7. ASSUME NEW c \in Pending', NEW n \in Nat, n = Len(c), Strict
        PROVE  Led(n)'
    <3>1. CASE \E p \in Frames(wal) : n <= wal[p].seq /\ wal[p].op # op.id
      <4>1. PICK p \in Frames(wal) : n <= wal[p].seq /\ wal[p].op # op.id
        BY <3>1
      <4>2. p \in Frames(wal') /\ wal'[p] = wal[p] /\ wal[p].op # op'.id
        BY <1>10, <2>1, <2>4, <2>7, <4>1, Facts, <1>0
      <4> QED
        BY <1>12, <2>7, <4>1, <4>2 DEF Led
    <3>2. CASE /\ \A i \in Frames(wal) : wal[i].seq > n
               /\ \A i \in Frames(wal') : i \in Frames(wal) /\ wal'[i] = wal[i]
      BY <3>2 DEF Led
    <3>3. CASE wal' = walFlushed
      <4>1. CASE Frames(walFlushed) = {}
        BY <3>3, <4>1 DEF Led
      <4>2. CASE Frames(walFlushed) # {}
        <5>1. PICK i \in 0 .. 1 : c = slots'[i].core
          BY <2>6
        <5>2. PICK p \in Frames(walFlushed) : Len(slots'[i].core) <= walFlushed[p].seq
          BY <1>0, <1>7, <2>7, <3>3, <4>2, AheadIs
        <5>3. p \in Frames(wal') /\ n <= wal'[p].seq /\ wal'[p].op # op'.id
          BY <1>10, <2>3, <2>7, <3>3, <5>1, <5>2
        <5> QED
          BY <1>12, <2>7, <5>3 DEF Led
      <4> QED
        BY <4>1, <4>2
    <3>4. (\A i \in Frames(wal) : wal[i].seq > n) \/ \E p \in Frames(wal) : n <= wal[p].seq /\ wal[p].op # op.id
      BY <2>6, <2>7 DEF Led
    <3> QED
      BY <1>4, <3>1, <3>2, <3>3, <3>4
  <2>8. ASSUME NEW c \in Pending', NEW n \in Nat, n = Len(c), ~Strict
        PROVE  Led(n)'
    <3>1. Led(n) /\ LedFlushed(n)
      BY <2>6, <2>8
    <3>2. ASSUME NEW p \in Frames(wal'), n <= wal'[p].seq,
                 \A i \in 1 .. p : wal'[i].k \in Whole /\ (wal'[i].k = "frame" => wal'[i].op \notin lost \cup dirty)
          PROVE  Led(n)'
      <4>1. p <= Len(wal') /\ p \in Nat
        BY <1>4 DEF Frames
      <4>2. Readable(p)'
        BY <1>2, <3>2 DEF Readable
      <4> QED
        BY <1>1, <1>12, <2>8, <3>2, <4>1, <4>2 DEF Led
    <3>3. ASSUME NEW p \in Frames(wal), Readable(p), n <= wal[p].seq, p <= Len(walFlushed),
                 \A i \in 1 .. p : wal[i] = walFlushed[i] /\ (wal[i].k = "frame" => wal[i].op \notin dirty)
          PROVE  Led(n)'
      <4>1. p \in 0 .. Len(wal) /\ p \in 1 .. p /\ p \in Nat
        BY <1>3, <2>1
      <4>2. p <= Len(wal') /\ \A i \in 1 .. p : wal'[i] = wal[i]
        BY <1>4, <3>3, <4>1
      <4>3. p \in Frames(wal') /\ n <= wal'[p].seq
        BY <1>4, <3>3, <4>1, <4>2 DEF Frames
      <4>4. \A i \in 1 .. p : wal'[i].k \in Whole /\ (wal'[i].k = "frame" => wal'[i].op \notin lost \cup dirty)
        BY <3>3, <4>2 DEF Readable
      <4> QED
        BY <3>2, <4>3, <4>4
    <3>4. CASE \A i \in Frames(wal) : wal[i].seq > n
      <4>1. CASE \A i \in Frames(wal') : i \in Frames(wal) /\ wal'[i] = wal[i]
        BY <3>4, <4>1 DEF Led
      <4>2. CASE wal' = walFlushed
        <5>1. CASE \A i \in Frames(walFlushed) : walFlushed[i].seq > n
          BY <4>2, <5>1 DEF Led
        <5>2. CASE ~\A i \in Frames(walFlushed) : walFlushed[i].seq > n
          BY <3>1, <3>2, <4>2, <5>2 DEF LedFlushed
        <5> QED
          BY <5>1, <5>2
      <4> QED
        BY <1>4, <4>1, <4>2
    <3> QED
      BY <2>8, <3>1, <3>3, <3>4 DEF Led
  <2>9. ASSUME NEW c \in Pending'
        PROVE  Led(Len(c))' /\ (~Strict' => LedFlushed(Len(c))')
    <3>1. PICK n \in Nat : n = Len(c)
      BY <2>6
    <3>2. Led(n)'
      BY <2>7, <2>8, <3>1
    <3>3. ~Strict' => LedFlushed(n)'
      BY <1>1, <1>12, <3>2 DEF Led, LedFlushed, Readable
    <3> QED
      BY <3>1, <3>2, <3>3
  <2> QED
    BY <1>12, <2>5, <2>9
<1> QED
  BY <1>10, <1>11, <1>14, <1>15 DEF Serves, Intact, Generations
--------------------------------------------------------------------------------
(***************************************************************************)
(* Recovery.                                                               *)
(***************************************************************************)
(* Recovery returns no operation whose payload was lost. *)
LEMMA RecoveredWhole ==
  ASSUME Types, Past, OneLine, ~SlotsRefused, ~FramesRefused, NEW i \in 1 .. Len(RecoveredCore)
  PROVE  RecoveredCore[i] \notin lost
<1> DEFINE x == RecoveredCore
           l == LastFrame(Replayed)
<1>1. /\ x \in Seq(Nat) /\ Begins(Base, x)
      /\ \A j \in FramesTo(Replayed) : Begins(Line(based, wal[j].op), x) /\ wal[j].op \notin lost
      /\ x = Base \/ (l # 0 /\ Len(x) = wal[l].seq)
  BY RecoveredIs
<1>2. Base \in Seq(Nat) /\ Len(Base) \in Nat /\ \A j \in 1 .. Len(Base) : Base[j] \notin lost
  BY BaseIs
<1>3. CASE i <= Len(Base)
  <2>1. i \in 1 .. Len(Base)
    BY <1>1, <1>2, <1>3
  <2> QED
    BY <1>1, <1>2, <2>1 DEF Begins
<1>4. CASE ~(i <= Len(Base))
  <2>1. Replayed \in 0 .. Len(wal)
    <3>1. Replayed \in 0 .. WholeCells /\ WholeCells \in 0 .. Len(wal) /\ Len(wal) \in Nat
      BY ReplayedIs, WholeIs, Facts
    <3> QED
      BY <3>1
  <2>2. l # 0 /\ Len(x) = wal[l].seq
    BY <1>1, <1>4
  <2>3. l \in FramesTo(Replayed) /\ FramesTo(Replayed) \subseteq Frames(wal)
    BY <2>1, <2>2, LastFrameIs
  <2>4. i \in Len(Base) + 1 .. wal[l].seq
    BY <1>1, <1>2, <1>4, <2>2
  <2>5. PICK j \in FramesTo(Replayed) : wal[j].seq = i
    <3> HIDE DEF l
    <3> QED
      BY <2>3, <2>4, Contiguous
  <2>6. Len(Line(based, wal[j].op)) = i /\ Line(based, wal[j].op)[i] = wal[j].op
    BY <2>3, <2>5, FrameIs
  <2>7. x[i] = wal[j].op
    <3>1. i \in 1 .. i
      BY <1>1
    <3> QED
      BY <1>1, <2>6, <3>1 DEF Begins
  <2> QED
    BY <1>1, <2>7
<1> QED
  BY <1>3, <1>4

LEMMA RecoverReloads ==
  ASSUME Good, Reloads, phase # "refused", ~RecoveryRefused, Recover, wal' = TailCutOff, op = NoOp, cp = NoCheckpoint,
         UNCHANGED <<walFlushed, slots, slotsFlushed, acks, acksFlushed, dirty, lost, op, cp, durability>>
  PROVE  Reloads'
<1> USE DEF Reloads
<1> DEFINE x == RecoveredCore
           r == Replayed
           l == LastFrame(r)
<1>0. Types /\ Past /\ OneLine
  BY DEF Good
<1>1. ~SlotsRefused /\ ~AcksRefused /\ ~FramesRefused /\ ~TailRefused
  BY DEF RecoveryRefused
<1>2. /\ phase' = "open" /\ poisoned' = FALSE /\ core' = x /\ end' = l /\ newest' = Selected /\ latest' = LastAck
      /\ generation' = (IF Valid = {} THEN generation ELSE slots[Selected].gen)
      /\ soft' = (soft \/ slots[Selected] # slotsFlushed[Selected])
  BY DEF Recover
<1>3. x \in Seq(Nat) /\ Len(x) \in Nat /\ LastAck.seq <= Len(x) /\ Begins(Base, x)
  BY RecoveredLong
<1>4. /\ \A i \in FramesTo(r) : Begins(Line(based, wal[i].op), x)
      /\ x = Base \/ (l # 0 /\ Len(x) = wal[l].seq)
  BY <1>0, <1>1, RecoveredIs
<1>5. /\ Selected \in 0 .. 1 /\ Len(Base) \in Nat
      /\ Valid # {} => slots[Selected].state = "valid" /\ slots[Selected].core = Base /\ Base \in Contents
      /\ Valid = {} => Base = << >>
  BY <1>0, <1>1, BaseIs DEF Contents
<1>6. Len(wal) \in Nat /\ wal \in Seq(Cells) /\ r \in 0 .. Len(wal) /\ r \in Nat
  <2>1. WholeCells \in 0 .. Len(wal) /\ Replayed \in 0 .. WholeCells
    BY <1>0, WholeIs, ReplayedIs
  <2> QED
    BY <2>1, <1>0, Facts
<1>7. l \in 0 .. r /\ (l # 0 => l \in FramesTo(r)) /\ (\A i \in FramesTo(r) : i <= l /\ i \in 1 .. r) /\ FramesTo(r) \subseteq Frames(wal)
  BY <1>0, <1>6, LastFrameIs
<1>8. l \in 0 .. Len(wal) /\ l \in Nat
  BY <1>6, <1>7
<1>9. wal' \in Seq(Cells) /\ Len(wal') = l /\ \A i \in 1 .. l : wal'[i] = wal[i]
  <2>1. wal' = SubSeq(wal, 1, l)
    BY DEF TailCutOff
  <2> HIDE DEF l
  <2> QED
    BY <2>1, <1>6, <1>8
<1> HIDE DEF l, r, x
<1>10. \A i \in Frames(wal') : i \in Frames(wal) /\ wal'[i] = wal[i]
  BY <1>6, <1>8, <1>9 DEF Frames
<1>11. \A i \in FramesTo(r) : i \in Frames(wal') /\ wal'[i] = wal[i] /\ i \in 1 .. l
  BY <1>6, <1>7, <1>8, <1>9 DEF Frames, FramesTo
<1>12. \A i \in Frames(wal) : /\ wal[i].op # 0 /\ wal[i].seq \in Nat \ {0} /\ i \in 1 .. Len(wal)
                              /\ Len(Line(based, wal[i].op)) = wal[i].seq
                              /\ \A j \in Frames(wal) : i < j => wal[i].seq < wal[j].seq
  BY <1>0, FrameIs
<1>13. Contents' = Contents /\ Pending = Contents /\ Pending' = Contents /\ Strict' = Strict /\ op'.stage = "none" /\ op'.id = 0
       /\ op.id = 0 /\ cp'.stage = "none"
  BY DEF Contents, Cores, Pending, Strict, NoOp, NoCheckpoint
<1>14. Floor' = Base
  <2>1. Valid = {} => slots[Selected].state # "valid"
    BY <1>5 DEF Valid
  <2> QED
    BY <1>2, <1>5, <2>1 DEF Floor
<1>15. soft \in BOOLEAN /\ (~soft' => ~soft /\ slots[Selected] = slotsFlushed[Selected])
  BY <1>0, <1>2 DEF Types
<1>16. Serves'
  <2>1. latest' = LastAck' /\ \A i \in 0 .. 1 : acks'[i].valid
    BY <1>1, <1>2 DEF LastAck, AcksRefused
  <2>2. ASSUME ~soft'
        PROVE  Tip'
    <3>2. Kept' = l
      BY <1>9, <1>13 DEF Kept
    <3>3. ASSUME l = 0
          PROVE  Tip'
      BY <1>2, <1>4, <1>14, <3>2, <3>3 DEF Tip
    <3>4. ASSUME l # 0
          PROVE  Tip'
      <4>1. l \in FramesTo(r) /\ l \in Frames(wal) /\ l \in Frames(wal') /\ wal'[l] = wal[l] /\ wal'[l].k = "frame"
        BY <1>7, <1>11, <3>4 DEF Frames
      <4>2. wal[l].seq <= Len(x)
        BY <1>4, <1>12, <4>1 DEF Begins
      <4>3. ASSUME x = Base
            PROVE  Len(x) <= wal[l].seq
        <5>1. Valid # {}
          BY <1>5, <1>12, <4>1, <4>2, <4>3
        <5>2. PICK n \in Nat : n = Len(Base) /\ Led(n)
          BY <1>5, <1>13, <1>15, <2>2, <5>1 DEF Even
        <5>3. ASSUME NEW p \in FramesTo(r), n <= wal[p].seq
              PROVE  n <= wal[l].seq
          <6>1. p \in Frames(wal) /\ (p = l \/ p < l)
            BY <1>7, <1>8
          <6> QED
            BY <1>12, <4>1, <5>3, <6>1
        <5>4. CASE \A i \in Frames(wal) : wal[i].seq > n
          BY <1>12, <4>1, <4>2, <4>3, <5>2, <5>4
        <5>5. CASE Strict /\ \E p \in Frames(wal) : n <= wal[p].seq /\ wal[p].op # op.id
          <6>1. PICK p \in Frames(wal) : n <= wal[p].seq
            BY <5>5
          <6>2. p \in FramesTo(r)
            BY <1>0, <1>1, <5>5, StrictTail DEF r
          <6> QED
            BY <4>3, <5>2, <5>3, <6>1, <6>2
        <5>6. CASE \E p \in Frames(wal) : Readable(p) /\ n <= wal[p].seq
          <6>1. PICK p \in Frames(wal) : Readable(p) /\ n <= wal[p].seq
            BY <5>6
          <6>2. p \in FramesTo(r)
            BY <1>0, <6>1, ReadableRead DEF r
          <6> QED
            BY <4>3, <5>2, <5>3, <6>1, <6>2
        <5> QED
          BY <5>2, <5>4, <5>5, <5>6 DEF Led
      <4>4. wal[l].seq = Len(x)
        BY <1>3, <1>4, <1>12, <4>1, <4>2, <4>3
      <4> QED
        BY <1>2, <3>2, <3>4, <4>1, <4>4 DEF Tip
    <3> QED
      BY <3>3, <3>4
  <2> QED
    BY <1>13, <2>1, <2>2 DEF Serves
<1>17. Twins'
  <2> SUFFICES ASSUME ~soft, slots[Selected] = slotsFlushed[Selected]
               PROVE  generation' \in Nat /\ Paired(newest, generation)'
    BY <1>2, <1>5, <1>15 DEF Twins
  <2>1. PICK n \in 0 .. 1, g \in Nat : Paired(n, g) /\ (phase = "open" => n = newest /\ g = generation)
    BY DEF Twins
  <2>2. CASE Valid = {}
    <3>1. \A i \in 0 .. 1 : slots[i].state # "valid"
      BY <2>2 DEF Valid
    <3>2. g = 0 /\ \A i \in 0 .. 1 : slotsFlushed[i].state # "valid"
      BY <2>1, <3>1 DEF Paired
    <3>3. generation' = 0
      <4>1. phase = "down" \/ phase = "open"
        BY <1>0 DEF Types
      <4> QED
        BY <1>2, <2>1, <2>2, <3>2, <4>1 DEF Generations
    <3> QED
      BY <1>2, <1>5, <3>1, <3>2, <3>3 DEF Paired
  <2>3. CASE Valid # {}
    <3>1. PICK s \in 0 .. 1, h \in Nat : s = Selected /\ h = slots[s].gen
      BY <1>0, <1>5, SlotIs
    <3>2. slots[s].state = "valid" /\ slotsFlushed[s] = slots[s] /\ newest' = s /\ generation' = h
      BY <1>2, <1>5, <2>3, <3>1
    <3>3. Paired(s, h)
      <4>1. CASE s = n
        <5>1. h = g
          BY <2>1, <3>1, <3>2, <4>1 DEF Paired
        <5> QED
          BY <2>1, <4>1, <5>1
      <4>2. CASE s = 1 - n
        <5>1. slots[n].state = "valid" /\ slots[n].gen = g /\ slotsFlushed[n] = slots[n] /\ Beside(slots[s], n, g) /\ h <= g
          BY <2>1, <3>1, <3>2, <4>2 DEF Paired
        <5>2. slots[s].gen > slots[n].gen \/ slots[s].gen = slots[n].gen
          <6>1. n \in Valid
            BY <5>1 DEF Valid
          <6>2. Precedes(s, n)
            BY <1>0, <2>3, <3>1, <6>1, SelectedIs
          <6> QED
            BY <6>2 DEF Precedes
        <5>3. h = g /\ slots[s].core = slots[n].core
          BY <3>1, <3>2, <5>1, <5>2 DEF Beside
        <5>4. n = 1 - s
          BY <4>2
        <5> QED
          BY <3>1, <3>2, <5>1, <5>3, <5>4 DEF Paired, Beside
      <4> QED
        BY <3>1, <4>1, <4>2
    <3>4. Paired(s, h)'
      BY <3>3 DEF Paired, Beside
    <3> QED
      BY <3>2, <3>4
  <2> QED
    BY <2>2, <2>3
<1>18. Even'
  <2> SUFFICES ASSUME ~soft
               PROVE  /\ Strict' /\ Bare' => \A c, d \in Pending' : Len(c) = Len(d)
                      /\ \A c \in Pending' : Led(Len(c))' /\ (~Strict' => LedFlushed(Len(c))')
    BY <1>15, Zenon DEF Even
  <2>1. ASSUME Strict, NEW p \in Frames(wal)
        PROVE  p \in Frames(wal') /\ wal'[p] = wal[p]
    BY <1>0, <1>1, <1>11, <2>1, StrictTail DEF r
  <2>2. Strict /\ Bare' => \A c, d \in Pending' : Len(c) = Len(d)
    <3>1. Strict /\ Bare' => Bare
      BY <1>12, <1>13, <2>1 DEF Bare
    <3> QED
      BY <1>13, <3>1 DEF Even
  <2>3. ASSUME NEW n \in Nat, Led(n)
        PROVE  Led(n)'
    <3>1. CASE \A i \in Frames(wal) : wal[i].seq > n
      BY <1>10, <3>1 DEF Led
    <3>2. CASE Strict /\ \E p \in Frames(wal) : n <= wal[p].seq /\ wal[p].op # op.id
      <4>1. PICK p \in Frames(wal) : n <= wal[p].seq /\ wal[p].op # op.id
        BY <3>2
      <4>2. p \in Frames(wal') /\ n <= wal'[p].seq /\ wal'[p].op # op'.id
        BY <1>13, <2>1, <3>2, <4>1
      <4> QED
        BY <1>13, <3>2, <4>2 DEF Led
    <3>3. ASSUME ~Strict, NEW p \in Frames(wal), Readable(p), n <= wal[p].seq, p <= Len(walFlushed),
                 \A i \in 1 .. p : wal[i] = walFlushed[i] /\ (wal[i].k = "frame" => wal[i].op \notin dirty)
          PROVE  Led(n)'
      <4>1. p \in FramesTo(r)
        BY <1>0, <3>3, ReadableRead DEF r
      <4>2. p \in Frames(wal') /\ p \in 1 .. l /\ wal'[p] = wal[p] /\ p \in Nat
        BY <1>8, <1>11, <4>1
      <4>3. \A i \in 1 .. p : wal'[i] = wal[i]
        BY <1>8, <1>9, <4>2
      <4>4. Readable(p)'
        BY <3>3, <4>2, <4>3 DEF Readable
      <4> QED
        BY <1>13, <3>3, <4>2, <4>3, <4>4 DEF Led
    <3> QED
      BY <2>3, <3>1, <3>2, <3>3 DEF Led
  <2>4. ASSUME NEW n \in Nat, LedFlushed(n)
        PROVE  LedFlushed(n)'
    BY <2>4 DEF LedFlushed
  <2>5. ASSUME NEW c \in Pending'
        PROVE  Led(Len(c))' /\ (~Strict' => LedFlushed(Len(c))')
    <3>1. c \in Pending /\ Len(c) \in Nat
      <4>1. c \in Seq(Nat)
        BY <1>0, <1>13, DiskIs
      <4> QED
        BY <1>13, <4>1
    <3>2. PICK n \in Nat : n = Len(c)
      BY <3>1
    <3>3. Led(n) /\ (~Strict => LedFlushed(n))
      BY <3>1, <3>2 DEF Even
    <3> QED
      BY <1>13, <2>3, <2>4, <3>2, <3>3
  <2> QED
    BY <1>13, <2>2, <2>5
<1>19. Intact'
  <2>1. \A i \in 1 .. Len(x) : x[i] \notin lost
    BY <1>0, <1>1, RecoveredWhole DEF x
  <2> QED
    BY <1>2, <2>1 DEF Intact
<1>20. Generations'
  BY <1>2, <1>13 DEF Generations
<1> QED
  BY <1>16, <1>17, <1>18, <1>19, <1>20 DEF Stamps
--------------------------------------------------------------------------------
(***************************************************************************)
(* Between operations.                                                     *)
(***************************************************************************)
LEMMA SameLength ==
  ASSUME NEW a \in Seq(Nat), NEW b \in Seq(Nat), Begins(a, b), Len(b) <= Len(a)
  PROVE  a = b
<1>1. Len(a) = Len(b) /\ \A i \in 1 .. Len(a) : a[i] = b[i]
  BY DEF Begins
<1> QED
  BY <1>1, SeqEqual

(* Recovery reads all of the log, and starts no lower than the leader.      *)
LEMMA ReloadReads ==
  ASSUME Good, Reloads, Idle, ~soft
  PROVE  /\ op.stage = "none" /\ Len(wal) = end /\ end \in Nat /\ WholeCells = end /\ Replayed = end /\ Unverified = {}
         /\ LastFrame(end) = end
         /\ Base \in Seq(Nat) /\ Begins(Base, core) /\ Len(Base) \in Nat /\ Len(Floor) \in Nat /\ Len(Floor) <= Len(Base)
         /\ Len(Base) <= Len(core) /\ (Valid = {} => Base = << >>) /\ (Valid # {} => Base \in Contents)
<1>1. phase = "open" /\ ~poisoned /\ op = NoOp /\ op.stage = "none" /\ newest \in 0 .. 1
  BY DEF Idle, Busy, Good, Operation, Types
<1>2. Len(wal) = end /\ Sound
  BY <1>1 DEF Good, Memory
<1>3. wal \in Seq(Cells) /\ end \in Nat /\ Len(wal) \in Nat
  BY Facts DEF Good
<1>4. WholeCells = end
  <2>1. WholeCells \in 0 .. Len(wal) /\ ((\A i \in 1 .. Len(wal) : wal[i].k \in Whole) => Len(wal) <= WholeCells)
    BY <1>3, WholeIs DEF Good
  <2> QED
    BY <1>2, <1>3, <2>1 DEF Sound
<1>5. Unverified = {}
  BY <1>2, <1>3, <1>4 DEF Unverified, FramesTo, Sound
<1>6. Replayed = end
  BY <1>4, <1>5, ReplayedIs DEF Good
<1>7. Tip /\ Kept = end
  BY <1>1, <1>2 DEF Reloads, Serves, Kept
<1>8. LastFrame(end) = end
  <2>1. LastFrame(end) \in 0 .. end /\ \A i \in FramesTo(end) : i <= LastFrame(end)
    BY <1>2, <1>3, LastFrameIs DEF Good
  <2>2. end # 0 => end \in FramesTo(end)
    BY <1>3, <1>7 DEF Tip, FramesTo
  <2> QED
    BY <1>3, <2>1, <2>2
<1>9. Selected \in 0 .. 1 /\ (Valid # {} => Selected \in Valid /\ \A j \in Valid : Precedes(Selected, j))
  BY SelectedIs DEF Good
<1>10. Valid # {} => Base = slots[Selected].core /\ slots[Selected].state = "valid" /\ Base \in Contents
  BY <1>9 DEF Base, Valid, Contents, Cores
<1>11. Valid = {} => Base = << >>
  BY DEF Base
<1>12. Base \in Seq(Nat) /\ Len(Base) \in Nat /\ Begins(Base, core) /\ Len(Base) <= Len(core)
  <2>1. CASE Valid = {}
    BY <1>11, <2>1, Facts DEF Good, Begins
  <2>2. CASE Valid # {}
    BY <1>1, <1>10, <2>2, PendingIs DEF Pending
  <2> QED
    BY <2>1, <2>2
<1>13. Len(Floor) \in Nat /\ Len(Floor) <= Len(Base)
  <2>1. Len(Floor) \in Nat
    BY <1>1, FloorIs
  <2>2. CASE slots[newest].state # "valid"
    BY <1>12, <2>2 DEF Floor
  <2>3. CASE slots[newest].state = "valid"
    <3>1. newest \in Valid /\ Floor = slots[newest].core
      BY <1>1, <2>3 DEF Valid, Floor
    <3>2. Precedes(Selected, newest) /\ slots[Selected].state = "valid"
      BY <1>9, <1>10, <3>1
    <3>3. slots[newest].gen = generation /\ Beside(slots[1 - newest], newest, generation) /\ generation \in Nat
      BY <1>1, <2>3 DEF Reloads, Twins, Paired, Good, Types
    <3>4. slots[Selected].gen \in Nat
      BY <1>9, SlotIs DEF Good
    <3>5. CASE Selected = newest
      BY <1>10, <2>1, <3>1, <3>5
    <3>6. CASE Selected # newest
      <4>1. Selected = 1 - newest
        BY <1>1, <1>9, <3>6
      <4>2. slots[Selected].gen = generation \/ slots[Selected].gen > generation
        BY <3>2, <3>3 DEF Precedes
      <4>3. slots[Selected].core = slots[newest].core \/ Len(slots[Selected].core) >= Len(slots[newest].core)
        BY <3>2, <3>3, <3>4, <4>1, <4>2 DEF Beside
      <4> QED
        BY <1>10, <1>12, <2>1, <3>1, <4>3
    <3> QED
      BY <3>5, <3>6
  <2> QED
    BY <2>1, <2>2, <2>3
<1> QED
  BY <1>1, <1>2, <1>3, <1>4, <1>5, <1>6, <1>8, <1>10, <1>11, <1>12, <1>13

--------------------------------------------------------------------------------
(***************************************************************************)
(* The invariant of reloads.                                               *)
(***************************************************************************)
LEMMA InitReloads ==
  ASSUME Init
  PROVE  Reloads
<1> USE DEF Init
<1>1. /\ Empty.state # "valid" /\ \A i \in 0 .. 1 : slots[i] = Empty /\ slotsFlushed[i] = Empty
      /\ Len(wal) = 0 /\ Len(core) = 0 /\ Frames(wal) = {} /\ Frames(walFlushed) = {}
  BY DEF Empty, Frames
<1>2. Floor = << >> /\ Len(Floor) = 0 /\ Contents = {} /\ Pending = {}
  BY <1>1 DEF Floor, Contents, Cores, Pending, NoCheckpoint
<1>3. Ack(0, 0).valid /\ Ack(0, 0).seq = 0 /\ Ack(0, 0).end = 0
  BY DEF Ack
<1>4. LastAck = Ack(0, 0)
  BY <1>3 DEF LastAck
<1>5. Serves
  <2>1. Kept = 0 /\ Tip
    BY <1>1, <1>2 DEF Kept, Tip, NoOp
  <2> QED
    BY <1>3, <1>4, <2>1 DEF Serves, NoOp
<1>6. Twins
  <2>1. Paired(newest, generation)
    BY <1>1 DEF Paired
  <2> QED
    BY <2>1 DEF Twins
<1>7. Even
  BY <1>2 DEF Even
<1>8. Generations
  BY DEF Generations, NoCheckpoint
<1>9. Intact
  BY <1>1 DEF Intact
<1>10. Stamps(acks) /\ Stamps(acksFlushed)
  BY DEF Stamps
<1> QED
  BY <1>5, <1>6, <1>7, <1>8, <1>9, <1>10 DEF Reloads

LEMMA StutterReloads ==
  ASSUME Reloads, UNCHANGED vars
  PROVE  Reloads'
<1>1. UNCHANGED <<wal, walFlushed, slots, slotsFlushed, acks, acksFlushed, dirty, lost, phase, core, poisoned, end, newest,
                  generation, latest, op, cp, durability, soft>>
  BY DEF vars, fileVars, memoryVars, stepVars, countVars, historyVars
<1>2. /\ Floor' = Floor /\ Kept' = Kept /\ Contents' = Contents /\ Pending' = Pending /\ Strict' = Strict /\ Bare' = Bare
      /\ LastAck' = LastAck
  BY <1>1 DEF Floor, Kept, Contents, Cores, Pending, Strict, Bare, LastAck
<1>3. Tip' = Tip
  BY <1>1, <1>2 DEF Tip
<1>4. \A n : Led(n)' = Led(n) /\ LedFlushed(n)' = LedFlushed(n)
  BY <1>1, <1>2 DEF Led, LedFlushed, Readable
<1>5. \A n, g : Paired(n, g)' = Paired(n, g)
  BY <1>1 DEF Paired, Beside
<1>6. Serves' = Serves
  BY <1>1, <1>2, <1>3 DEF Serves
<1>7. Twins' = Twins
  BY <1>1, <1>5 DEF Twins
<1>8. Even' = Even
  BY <1>1, <1>2, <1>4 DEF Even
<1>9. Generations' = Generations /\ Intact' = Intact
  BY <1>1, <1>2 DEF Generations, Intact
<1>10. Stamps(acks') /\ Stamps(acksFlushed')
  BY <1>1 DEF Reloads
<1> QED
  BY <1>6, <1>7, <1>8, <1>9, <1>10 DEF Reloads

(* A recovery of served files, by a new leader or by the one that was       *)
(* poisoned, starts between operations.                                     *)
LEMMA AgainReloads ==
  ASSUME Good, Reloads, Open \/ Reload
  PROVE  Same'
<1>1. phase \in {"open", "down"} /\ op = NoOp /\ cp = NoCheckpoint
  BY DEF Open, Reload, Good, Operation
<1>2. UNCHANGED <<walFlushed, slots, slotsFlushed, acks, acksFlushed, dirty, lost, op, cp, durability>>
  BY DEF Open, Reload, stepVars, countVars
<1>3. CASE RecoveryRefused
  BY <1>3 DEF Open, Reload, Refuse, Same
<1>4. CASE ~RecoveryRefused
  <2>1. Recover /\ wal' = TailCutOff /\ phase # "refused"
    BY <1>1, <1>4 DEF Open, Reload
  <2>2. Reloads'
    BY <2>1, <1>1, <1>2, <1>4, RecoverReloads
  <2> QED
    BY <2>2 DEF Same
<1> QED
  BY <1>3, <1>4

LEMMA NextReloads ==
  ASSUME Inv, Same, Next
  PROVE  Same'
<1>0. Reloads
  BY NextGood DEF Same
<1>1. Good
  BY NextGood
<1>2. CASE LogFlushed
  BY <1>0, <1>1, <1>2, LogFlushedReloads DEF Same
<1>3. ASSUME NEW payload \in BOOLEAN, LogUnflushed(payload)
      PROVE  Same'
  BY <1>0, <1>1, <1>3, LogUnflushedReloads DEF Same
<1>4. CASE Stage
  BY <1>0, <1>1, <1>4, StageReloads DEF Same
<1>5. CASE Complete
  BY <1>0, <1>1, <1>5, CompleteReloads DEF Same
<1>6. CASE Unstage
  BY <1>0, <1>1, <1>6, UnstageReloads DEF Same
<1>7. ASSUME NEW cut \in BOOLEAN, AppendFails(cut)
      PROVE  Same'
  BY <1>0, <1>1, <1>7, AppendFailsReloads DEF Same
<1>8. CASE FlushFrame
  BY <1>0, <1>1, <1>8, FlushFrameReloads DEF Same
<1>9. ASSUME NEW keep, FrameFails(keep)
      PROVE  Same'
  BY <1>0, <1>1, <1>9, FrameFailsReloads DEF Same
<1>10. CASE PublishFrame
  BY <1>0, <1>1, <1>10, PublishFrameReloads DEF Same
<1>11. CASE Acknowledge
  BY <1>0, <1>1, <1>11, AcknowledgeReloads DEF Same
<1>12. ASSUME NEW torn \in BOOLEAN, PublishFails(torn)
       PROVE  Same'
  BY <1>0, <1>1, <1>12, PublishFailsReloads DEF Same
<1>13. ASSUME NEW closing \in BOOLEAN, BeginCheckpoint(closing)
       PROVE  Same'
  BY <1>0, <1>1, <1>13, BeginCheckpointReloads DEF Same
<1>14. CASE TearSlot
  BY <1>0, <1>1, <1>14, TearSlotReloads DEF Same
<1>15. CASE WriteSlot
  BY <1>0, <1>1, <1>15, WriteSlotReloads DEF Same
<1>16. CASE FlushSlot
  BY <1>0, <1>1, <1>16, FlushSlotReloads DEF Same
<1>17. CASE Mirrored
  BY <1>0, <1>1, <1>17, MirroredReloads DEF Same
<1>18. CASE FlushBoundary
  BY <1>0, <1>1, <1>18, FlushBoundaryReloads DEF Same
<1>19. CASE Reset
  BY <1>0, <1>1, <1>19, ResetReloads DEF Same
<1>20. CASE FlushReset
  BY <1>0, <1>1, <1>20, FlushResetReloads DEF Same
<1>21. CASE CheckpointFails
  BY <1>0, <1>1, <1>21, CheckpointFailsReloads DEF Same
<1>22. CASE Shutdown
  BY <1>0, <1>1, <1>22, ShutdownReloads DEF Same
<1>23. CASE Open \/ Reload
  BY <1>0, <1>1, <1>23, AgainReloads
<1>24. ASSUME NEW short \in BOOLEAN, NEW torn \in BOOLEAN, TabDies(short, torn)
       PROVE  Same'
  BY <1>0, <1>1, <1>24, TabDiesReloads DEF Same
<1>25. CASE PowerLoss
  BY <1>0, <1>1, <1>25, PowerLossReloads DEF Same
<1> QED
  BY <1>2, <1>3, <1>4, <1>5, <1>6, <1>7, <1>8, <1>9, <1>10, <1>11, <1>12, <1>13, <1>14, <1>15, <1>16, <1>17, <1>18,
     <1>19, <1>20, <1>21, <1>22, <1>23, <1>24, <1>25 DEF Next

(* What is in memory stays what the files say.                              *)
THEOREM StaysSame == Spec => [](Inv /\ Same)
<1>1. Init => Inv /\ Same
  BY InitGood, GoodInv, InitReloads DEF Same
<1>2. Inv /\ Same /\ [Next]_vars => (Inv /\ Same)'
  <2> SUFFICES ASSUME Inv, Same, [Next]_vars PROVE Inv' /\ Same'
    OBVIOUS
  <2>1. Inv'
    BY StutterStep, NextStep
  <2>2. ASSUME UNCHANGED vars PROVE Same'
    BY <2>2, StutterReloads DEF Same, vars, memoryVars
  <2>3. ASSUME Next PROVE Same'
    BY <2>3, NextReloads
  <2> QED
    BY <2>1, <2>2, <2>3
<1> QED
  BY <1>1, <1>2, PTL DEF Spec
--------------------------------------------------------------------------------
(***************************************************************************)
(* Recoveries that open: what the files are like until one is refused.     *)
(***************************************************************************)
(* What recovery may start from, as numbers of operations: the cores of the *)
(* slots, and nothing as long as no slot was flushed.                       *)
Hollow == \A i \in 0 .. 1 : slotsFlushed[i].state # "valid"
Bases == {Len(c) : c \in Contents} \cup (IF Hollow THEN {0} ELSE {})

(* The frames before any hole, and those of them that a power loss leaves   *)
(* where they are.                                                          *)
Legible(w) == {j \in Frames(w) : \A i \in 1 .. j : w[i].k \in Whole}
Settled(w, f) == {j \in Legible(w) : j <= Len(f) /\ \A i \in 1 .. j : w[i] = f[i]}

(* They are read one after another, whichever of b recovery starts from.    *)
Linked(w, b) ==
    \A j \in Legible(w) :
        /\ \A p \in 1 .. j - 1 : (\A q \in p .. j - 1 : w[q].k # "frame") => w[p].op = w[j].op
        /\ \/ (\A i \in 1 .. j - 1 : w[i].k # "frame") /\ \A n \in b : w[j].seq <= n + 1
           \/ \E i \in 1 .. j - 1 : /\ w[i].k = "frame" /\ w[j].seq = w[i].seq + 1
                                    /\ \A q \in i + 1 .. j - 1 : w[q].k # "frame"

(* Only the last cell is damaged; a relaxed log may have holes before it.   *)
Tailed(w) == \A i \in 1 .. Len(w) - 1 : w[i].k # "short" /\ (Strict => w[i].k # "zero")

(* An acknowledgement that says more than a slot names a settled frame.     *)
Named(a) ==
    \A n \in Bases :
        a.valid /\ n < a.seq => Strict /\ a.end \in Settled(wal, walFlushed) /\ wal[a.end].seq = a.seq

(* Strict staged pieces are flushed as they are written.                    *)
Staged ==
    Strict => \A i \in 1 .. Len(wal) :
        wal[i].k = "piece" => i <= Len(walFlushed) /\ \A q \in 1 .. i : wal[q] = walFlushed[q]

(* Without settled frames, the slots of a relaxed log are at one place.     *)
Level == ~Strict /\ Settled(wal, walFlushed) = {} => \A c, d \in Pending : Len(c) = Len(d)

Readied ==
    /\ Linked(wal, Bases) /\ Linked(walFlushed, Bases) /\ Tailed(wal) /\ Tailed(walFlushed)
    /\ (\A i \in 0 .. 1 : Named(acks[i]) /\ Named(acksFlushed[i])) /\ Staged /\ Level

(* No checkpoint has an operation that a power loss may take or took.       *)
Paid ==
    /\ Strict => dirty = {} /\ lost = {}
    /\ \A c \in Pending : \A i \in 1 .. Len(c) : c[i] \notin dirty \cup lost

(* The flushed acknowledgements are no later than the written ones.         *)
Later ==
    \A i \in 0 .. 1 :
        /\ acks[i].valid /\ acksFlushed[i].valid => acksFlushed[i].seq <= acks[i].seq
        /\ phase = "open" => /\ acks[i].valid => acks[i].seq <= latest.seq
                             /\ acksFlushed[i].valid => acksFlushed[i].seq <= latest.seq

(* The flush of a frame covers the log.                                     *)
Synced == op.stage = "flushed" => walFlushed = wal

(* The files are such that recovery opens them.                             *)
Opens == (~soft => Readied) /\ Paid /\ Later /\ Synced
--------------------------------------------------------------------------------
(***************************************************************************)
(* What recovery reads, and why it opens such files.                       *)
(***************************************************************************)
LEMMA BasesAre ==
  ASSUME Types, Past, OneLine
  PROVE  /\ Bases \subseteq Nat /\ Bases # {} /\ \A c \in Contents : Len(c) \in Bases
         /\ Hollow => 0 \in Bases
<1>1. \A c \in Contents : Len(c) \in Nat
  BY DiskIs
<1>2. ~Hollow => Contents # {}
  BY DEF Hollow, Contents, Cores
<1> QED
  BY <1>1, <1>2 DEF Bases

(* What recovery comes to and where it starts.                              *)
LEMMA BaseStarts ==
  ASSUME Types, Past, OneLine, Twins, ~soft
  PROVE  /\ Base \in Seq(Nat) /\ Len(Base) \in Bases /\ Len(Base) \in Nat /\ Selected \in 0 .. 1
         /\ Valid = {} => Hollow /\ Base = << >>
         /\ Valid # {} => /\ Base \in Contents /\ Base = slots[Selected].core /\ slots[Selected].state = "valid"
                          /\ \A j \in Valid : Precedes(Selected, j)
<1>1. Selected \in 0 .. 1 /\ (Valid # {} => Selected \in Valid /\ \A j \in Valid : Precedes(Selected, j))
  BY SelectedIs
<1>2. Valid # {} => Base = slots[Selected].core /\ slots[Selected].state = "valid" /\ Base \in Contents
  BY <1>1 DEF Base, Valid, Contents, Cores
<1>3. Valid = {} => Hollow /\ Base = << >>
  <2>1. PICK n \in 0 .. 1, g \in Nat : Paired(n, g)
    BY DEF Twins
  <2> QED
    BY <2>1 DEF Paired, Valid, Hollow, Base
<1>4. Base \in Seq(Nat) /\ Len(Base) \in Nat /\ Len(Base) \in Bases
  <2>1. CASE Valid = {}
    BY <1>3, <2>1, BasesAre
  <2>2. CASE Valid # {}
    BY <1>2, <2>2, BasesAre, DiskIs
  <2> QED
    BY <2>1, <2>2
<1> QED
  BY <1>1, <1>2, <1>3, <1>4

(* The two slots, read together.                                            *)
LEMMA PairReads ==
  ASSUME Types, Past, OneLine, Twins, Even, Paid, ~soft,
         Valid = {} /\ wal = << >> => \A i \in 0 .. 1 : slots[i].state # "torn"
  PROVE  ~SlotsRefused
<1>1. Selected \in 0 .. 1 /\ (Valid # {} => Selected \in Valid /\ \A j \in Valid : Precedes(Selected, j))
  BY SelectedIs
<1>2. ASSUME Valid = {0, 1}
      PROVE  LET new == slots[Selected]
                 old == slots[1 - Selected]
             IN  /\ new.gen > old.gen => Len(new.core) >= Len(old.core)
                 /\ new.gen = old.gen => new.core = old.core
                 /\ ~(new.gen - old.gen > 1)
                 /\ new.core \in Contents /\ old.core \in Contents
                 /\ Len(new.core) \in Nat /\ Len(old.core) \in Nat
  <2>1. PICK n \in 0 .. 1, g \in Nat : Paired(n, g)
    BY DEF Twins
  <2>2. /\ slots[n].state = "valid" /\ slots[1 - n].state = "valid"
        /\ slots[Selected].state = "valid" /\ slots[1 - Selected].state = "valid"
        /\ Selected = n \/ (Selected = 1 - n /\ n = 1 - Selected)
    BY <1>1, <1>2 DEF Valid
  <2>3. slots[n].gen = g /\ Beside(slots[1 - n], n, g)
    BY <2>1, <2>2 DEF Paired
  <2>4. slots[Selected].core \in Contents /\ slots[1 - Selected].core \in Contents
    BY <1>1, <2>2 DEF Contents, Cores
  <2>5. Len(slots[Selected].core) \in Nat /\ Len(slots[1 - Selected].core) \in Nat
    BY <2>4, DiskIs
  <2>6. slots[Selected].gen \in Nat /\ slots[1 - Selected].gen \in Nat
    BY <1>1, SlotIs
  <2>7. CASE Selected = n
    BY <2>2, <2>3, <2>4, <2>5, <2>6, <2>7 DEF Beside
  <2>8. CASE Selected = 1 - n /\ n = 1 - Selected
    <3>1. Precedes(Selected, n)
      BY <1>1, <1>2
    <3> QED
      BY <2>2, <2>3, <2>4, <2>5, <2>6, <2>8, <3>1 DEF Beside, Precedes
  <2> QED
    BY <2>2, <2>7, <2>8
<1>3. ASSUME Strict, wal = << >>
      PROVE  \A c, d \in Contents : Len(c) = Len(d)
  <2>1. Bare
    BY <1>3 DEF Bare, Frames
  <2> QED
    BY <1>3, <2>1 DEF Even, Pending
<1>4. ToSet(Base) \cap lost = {}
  <2>1. \A i \in 1 .. Len(Base) : Base[i] \notin lost
    <3>1. CASE Valid = {}
      BY <3>1 DEF Base
    <3>2. CASE Valid # {}
      BY <3>2, BaseStarts DEF Paid, Pending
    <3> QED
      BY <3>1, <3>2
  <2>2. Base \in Seq(Nat)
    BY BaseStarts
  <2> QED
    BY <2>1, <2>2 DEF ToSet
<1> QED
  BY <1>2, <1>3, <1>4 DEF SlotsRefused

(* A frame that recovery reads continues the one before it.                 *)
LEMMA LinkedReads ==
  ASSUME Types, Past, OneLine, NEW b, Linked(wal, b), NEW i \in Legible(wal)
  PROVE  /\ LastFrame(i - 1) > 0 => wal[i].seq = wal[LastFrame(i - 1)].seq + 1
         /\ ~(LastFrame(i - 1) > 0) => \A n \in b : wal[i].seq <= n + 1
         /\ \A j \in LastFrame(i - 1) + 1 .. i - 1 : wal[j].op = wal[i].op
<1> DEFINE l == LastFrame(i - 1)
<1>1. i \in Frames(wal) /\ i \in 1 .. Len(wal) /\ Len(wal) \in Nat /\ i \in Nat /\ i - 1 \in 0 .. Len(wal)
  BY Facts DEF Legible, Frames
<1>2. l \in 0 .. i - 1 /\ (l # 0 => l \in FramesTo(i - 1)) /\ \A j \in FramesTo(i - 1) : j <= l
  BY <1>1, LastFrameIs
<1>3. /\ \A p \in 1 .. i - 1 : (\A q \in p .. i - 1 : wal[q].k # "frame") => wal[p].op = wal[i].op
      /\ \/ (\A j \in 1 .. i - 1 : wal[j].k # "frame") /\ \A n \in b : wal[i].seq <= n + 1
         \/ \E j \in 1 .. i - 1 : /\ wal[j].k = "frame" /\ wal[i].seq = wal[j].seq + 1
                                  /\ \A q \in j + 1 .. i - 1 : wal[q].k # "frame"
  BY DEF Linked
<1>4. \A q \in l + 1 .. i - 1 : q \in 1 .. i - 1 /\ wal[q].k # "frame"
  <2> TAKE q \in l + 1 .. i - 1
  <2>1. q \in 1 .. i - 1 /\ ~(q <= l)
    BY <1>1, <1>2
  <2> QED
    BY <1>2, <2>1 DEF FramesTo
<1>5. \A j \in l + 1 .. i - 1 : wal[j].op = wal[i].op
  <2> TAKE j \in l + 1 .. i - 1
  <2>1. j \in 1 .. i - 1 /\ \A q \in j .. i - 1 : q \in l + 1 .. i - 1
    BY <1>1, <1>2
  <2> QED
    BY <1>3, <1>4, <2>1
<1>6. ASSUME l > 0
      PROVE  wal[i].seq = wal[l].seq + 1
  <2>1. l \in 1 .. i - 1 /\ wal[l].k = "frame"
    BY <1>1, <1>2, <1>6 DEF FramesTo
  <2>2. PICK j \in 1 .. i - 1 : /\ wal[j].k = "frame" /\ wal[i].seq = wal[j].seq + 1
                                /\ \A q \in j + 1 .. i - 1 : wal[q].k # "frame"
    BY <1>3, <2>1
  <2>3. j \in FramesTo(i - 1) /\ j <= l /\ l \notin j + 1 .. i - 1
    BY <1>2, <2>1, <2>2 DEF FramesTo
  <2> HIDE DEF l
  <2>4. j = l
    BY <1>1, <2>1, <2>2, <2>3
  <2> QED
    BY <2>2, <2>4
<1>7. ASSUME ~(l > 0)
      PROVE  \A n \in b : wal[i].seq <= n + 1
  <2>1. l = 0
    BY <1>1, <1>2, <1>7
  <2> QED
    BY <1>3, <1>4, <2>1
<1> QED
  BY <1>5, <1>6, <1>7

LEMMA LegibleRead ==
  ASSUME Types
  PROVE  /\ Legible(wal) = FramesTo(WholeCells)
         /\ FramesTo(IF Unverified = {} THEN WholeCells ELSE Min(Unverified)) \subseteq Legible(wal)
<1>1. wal \in Seq(Cells) /\ Len(wal) \in Nat
  BY Facts
<1>2. /\ WholeCells \in 0 .. Len(wal) /\ \A i \in 1 .. WholeCells : wal[i].k \in Whole
      /\ \A n \in 0 .. Len(wal) : (\A i \in 1 .. n : wal[i].k \in Whole) => n <= WholeCells
  BY WholeIs
<1>3. \A j \in Legible(wal) : j \in FramesTo(WholeCells)
  BY <1>1, <1>2 DEF Legible, Frames, FramesTo
<1>4. \A j \in FramesTo(WholeCells) : j \in Legible(wal)
  <2> TAKE j \in FramesTo(WholeCells)
  <2>1. j \in 1 .. WholeCells /\ j \in 1 .. Len(wal) /\ wal[j].k = "frame" /\ \A i \in 1 .. j : i \in 1 .. WholeCells
    BY <1>1, <1>2 DEF FramesTo
  <2> QED
    BY <1>2, <2>1 DEF Legible, Frames
<1>5. ASSUME Unverified # {}
      PROVE  FramesTo(Min(Unverified)) \subseteq FramesTo(WholeCells)
  <2>1. Unverified \subseteq 1 .. WholeCells /\ Unverified \in SUBSET Nat
    BY <1>2 DEF Unverified, FramesTo
  <2>2. Min(Unverified) \in 1 .. WholeCells
    BY <1>5, <2>1, Least
  <2> QED
    BY <1>2, <2>2 DEF FramesTo
<1> QED
  BY <1>3, <1>4, <1>5

(* Files like these are refused for a torn slot of an empty log alone.      *)
LEMMA OpensReads ==
  ASSUME Good, Reloads, Opens, ~soft, ~AcksRefused,
         Valid = {} /\ wal = << >> => \A i \in 0 .. 1 : slots[i].state # "torn"
  PROVE  ~RecoveryRefused
<1>0. Types /\ Past /\ OneLine /\ Twins /\ Even /\ Paid /\ Readied
  BY DEF Good, Reloads, Opens
<1>1. ~SlotsRefused
  BY <1>0, PairReads
<1>2. Base \in Seq(Nat) /\ Len(Base) \in Bases /\ Len(Base) \in Nat /\ (Valid = {} => Hollow /\ 0 \in Bases)
  BY <1>0, BaseStarts, BasesAre
<1>3. Legible(wal) = FramesTo(WholeCells) /\ wal \in Seq(Cells) /\ Len(wal) \in Nat /\ WholeCells \in 0 .. Len(wal)
  BY <1>0, LegibleRead, Facts, WholeIs
<1>4. Strict => Unverified = {}
  BY <1>0 DEF Unverified, Paid
<1>5. LastAck.seq > Len(Base) => Strict /\ LastAck.end \in Legible(wal) /\ wal[LastAck.end].seq = LastAck.seq
  <2>1. LastAck = acks[0] \/ LastAck = acks[1]
    BY DEF LastAck
  <2>2. Named(LastAck) /\ LastAck.valid /\ LastAck.seq \in Nat
    BY <1>0, <2>1, LastAckIs DEF AcksRefused, Readied
  <2> QED
    BY <1>2, <2>2 DEF Named, Settled
<1>6. AckedEnd \in Nat /\ (AckedEnd > 0 => AckedEnd = LastAck.end /\ AckedEnd \in Legible(wal) /\ wal[AckedEnd].seq = LastAck.seq)
  BY <1>2, <1>5 DEF AckedEnd, Legible, Frames
<1>7. AckedEnd <= WholeCells
  BY <1>3, <1>6 DEF FramesTo
<1>8. ASSUME NEW i \in Legible(wal)
      PROVE  /\ ~(AckedEnd > 0 /\ wal[i].seq = LastAck.seq /\ i # AckedEnd)
             /\ ~ IF LastFrame(i - 1) > 0 THEN wal[i].seq # wal[LastFrame(i - 1)].seq + 1
                  ELSE IF Valid = {} THEN wal[i].seq # 1
                  ELSE wal[i].seq > Len(Base) + 1
             /\ ~ \E j \in LastFrame(i - 1) + 1 .. i - 1 : wal[j].op # wal[i].op
  <2>1. i \in Frames(wal) /\ i \in Nat /\ wal[i].seq \in Nat \ {0} /\ \A j \in Frames(wal) : i < j => wal[i].seq < wal[j].seq
    BY <1>0, FrameIs DEF Legible
  <2>2. ~(AckedEnd > 0 /\ wal[i].seq = LastAck.seq /\ i # AckedEnd)
    <3> SUFFICES ASSUME AckedEnd > 0, wal[i].seq = LastAck.seq, i # AckedEnd
                 PROVE  FALSE
      OBVIOUS
    <3>1. AckedEnd \in Frames(wal) /\ wal[AckedEnd].seq = wal[i].seq
      BY <1>6 DEF Legible
    <3>2. AckedEnd < i => wal[AckedEnd].seq < wal[i].seq
      BY <1>0, <2>1, <3>1, FrameIs
    <3> QED
      BY <1>6, <2>1, <3>1, <3>2
  <2>3. /\ LastFrame(i - 1) > 0 => wal[i].seq = wal[LastFrame(i - 1)].seq + 1
        /\ ~(LastFrame(i - 1) > 0) => \A n \in Bases : wal[i].seq <= n + 1
        /\ \A j \in LastFrame(i - 1) + 1 .. i - 1 : wal[j].op = wal[i].op
    BY <1>0, LinkedReads DEF Readied
  <2>4. ~(LastFrame(i - 1) > 0) => wal[i].seq <= Len(Base) + 1 /\ (Valid = {} => wal[i].seq = 1)
    <3>1. ~(LastFrame(i - 1) > 0) => wal[i].seq <= Len(Base) + 1 /\ (Valid = {} => wal[i].seq <= 0 + 1)
      BY <1>2, <2>3
    <3> QED
      BY <2>1, <3>1
  <2>5. ~(LastFrame(i - 1) > 0) => ~(wal[i].seq > Len(Base) + 1)
    BY <1>2, <2>1, <2>4
  <2> QED
    BY <2>2, <2>3, <2>4, <2>5
<1>9. ~FramesRefused
  <2>1. FramesTo(IF Unverified = {} THEN WholeCells ELSE Min(Unverified)) \subseteq Legible(wal)
    BY <1>0, LegibleRead
  <2>2. ~(Len(wal) < AckedEnd)
    BY <1>3, <1>6, <1>7
  <2> QED
    BY <1>4, <1>8, <2>1, <2>2 DEF FramesRefused
<1>10. ~TailRefused
  <2>1. LastFrame(WholeCells) \in Nat /\ AckedEnd <= LastFrame(WholeCells)
    <3>1. LastFrame(WholeCells) \in 0 .. WholeCells /\ \A j \in FramesTo(WholeCells) : j <= LastFrame(WholeCells)
      BY <1>0, <1>3, LastFrameIs
    <3> QED
      BY <1>3, <1>6, <3>1
  <2>2. \A j \in 1 .. Len(wal) - 1 : wal[j].k # "short" /\ (Strict => wal[j].k # "zero")
    BY <1>0 DEF Readied, Tailed
  <2>3. ~(WholeCells < AckedEnd) /\ ~(LastFrame(WholeCells) < AckedEnd)
    BY <1>3, <1>6, <1>7, <2>1
  <2>4. WholeCells < Len(wal) /\ wal[WholeCells + 1].k = "short" => ~(WholeCells + 1 < Len(wal))
    BY <1>3, <2>2
  <2>5. WholeCells < Len(wal) /\ wal[WholeCells + 1].k = "zero" =>
            ZeroedFrameEndsLog \/ \A i \in WholeCells + 1 .. Len(wal) : wal[i].k = "zero"
    <3> SUFFICES ASSUME WholeCells < Len(wal), wal[WholeCells + 1].k = "zero", Strict
                 PROVE  \A i \in WholeCells + 1 .. Len(wal) : wal[i].k = "zero"
      BY DEF ZeroedFrameEndsLog
    <3>1. WholeCells + 1 = Len(wal)
      BY <1>3, <2>2
    <3> QED
      BY <1>3, <3>1
  <2> QED
    BY <2>3, <2>4, <2>5 DEF TailRefused
<1>11. ~(Len(RecoveredCore) < LastAck.seq)
  <2>1. /\ RecoveredCore \in Seq(Nat) /\ Begins(Base, RecoveredCore)
        /\ \A i \in FramesTo(Replayed) : Begins(Line(based, wal[i].op), RecoveredCore)
    BY <1>0, <1>1, <1>9, RecoveredIs
  <2>2. LastAck.seq \in Nat /\ Len(RecoveredCore) \in Nat /\ Len(Base) <= Len(RecoveredCore)
    BY <1>0, <2>1, LastAckIs DEF Begins
  <2>3. CASE LastAck.seq > Len(Base)
    <3>1. LastAck.end \in FramesTo(Replayed) /\ LastAck.end \in Frames(wal)
      BY <1>0, <1>3, <1>4, <1>5, <2>3, ReplayedIs DEF Legible
    <3>2. Len(Line(based, wal[LastAck.end].op)) = LastAck.seq
      BY <1>0, <1>5, <2>3, <3>1, FrameIs
    <3> QED
      BY <2>1, <2>2, <3>1, <3>2 DEF Begins
  <2> QED
    BY <1>2, <2>2, <2>3
<1> QED
  BY <1>1, <1>9, <1>10, <1>11 DEF RecoveryRefused

(* Somebody was promised something: there is something to recover.          *)
LEMMA PromisedThere ==
  ASSUME Good, Reloads, Opens, ~soft, ~AcksRefused, phase # "refused", NEW o \in promised, Valid = {}
  PROVE  wal # << >>
<1>0. Types /\ Past /\ OneLine /\ Twins /\ Readied
  BY DEF Good, Reloads, Opens
<1>1. SUFFICES ASSUME wal = << >>
               PROVE  FALSE
  OBVIOUS
<1>2. Legible(wal) = {} /\ Frames(wal) = {} /\ Settled(wal, walFlushed) = {}
  BY <1>1 DEF Legible, Frames, Settled
<1>3. o \in 1 .. made /\ Line(based, o) \in Seq(Nat) /\ Place(based, o) \in Nat \ {0} /\ Len(Line(based, o)) = Place(based, o)
  BY <1>0, SwornIs, LineIs
<1>4. 0 \in Bases
  BY <1>0, BaseStarts, BasesAre
<1>5. ASSUME NEW n \in Nat \ {0}
      PROVE  ~Acked(n) /\ ~OnDisk(n)
  <2>1. ~Acked(n)
    <3> SUFFICES ASSUME NEW i \in 0 .. 1, n <= acks[i].seq
                 PROVE  FALSE
      BY DEF Acked, AcksRefused
    <3>1. acks[i].seq \in Nat
      BY <1>0 DEF Types, AckContents
    <3> QED
      <4>1. 0 < acks[i].seq /\ acks[i].valid /\ Named(acks[i])
        BY <1>0, <3>1 DEF Readied, AcksRefused
      <4> QED
        BY <1>2, <1>4, <4>1 DEF Named
  <2>2. ~Reaches(n)
    BY DEF Reaches, Standing, Valid, Types, Good
  <2> QED
    BY <1>2, <2>1, <2>2 DEF OnDisk
<1>6. CASE Strict
  BY <1>3, <1>5, <1>6 DEF Good, Durable
<1>7. CASE ~Strict /\ phase = "down"
  BY <1>3, <1>5, <1>7 DEF Good, Durable
<1>8. CASE ~Strict /\ phase = "open"
  <2>1. Begins(Line(based, o), core) /\ Len(core) \in Nat
    BY <1>8, Facts DEF Good, Memory
  <2>2. Len(core) \in Nat \ {0}
    BY <1>3, <2>1 DEF Begins
  <2> QED
    BY <1>5, <1>8, <2>2 DEF Good, Durable
<1> QED
  BY <1>0, <1>6, <1>7, <1>8 DEF Types

LEMMA LinkedLess ==
  ASSUME NEW w \in Seq(Cells), NEW v \in Seq(Cells), NEW b \in SUBSET Nat, NEW c \in SUBSET Nat, Linked(w, b),
         \A n \in c : \E m \in b : m <= n,
         \A j \in Legible(v) : j <= Len(w) /\ \A q \in 1 .. j : v[q] = w[q]
  PROVE  Linked(v, c)
<1> SUFFICES ASSUME NEW j \in Legible(v)
             PROVE  /\ \A p \in 1 .. j - 1 : (\A q \in p .. j - 1 : v[q].k # "frame") => v[p].op = v[j].op
                    /\ \/ (\A i \in 1 .. j - 1 : v[i].k # "frame") /\ \A n \in c : v[j].seq <= n + 1
                       \/ \E i \in 1 .. j - 1 : /\ v[i].k = "frame" /\ v[j].seq = v[i].seq + 1
                                                /\ \A q \in i + 1 .. j - 1 : v[q].k # "frame"
  BY DEF Linked
<1>1. /\ j \in 1 .. Len(w) /\ j \in Nat /\ v[j] = w[j]
      /\ \A p \in 1 .. j - 1 : v[p] = w[p] /\ (\A q \in p .. j - 1 : v[q] = w[q]) /\ \A r \in p + 1 .. j - 1 : v[r] = w[r]
  BY DEF Legible, Frames
<1>2. j \in Legible(w) /\ w[j].seq \in Nat
  <2>1. w[j] \in Cells /\ v[j].k = "frame" /\ \A q \in 1 .. j : v[q] = w[q] /\ v[q].k \in Whole
    BY <1>1, ElementOfSeq DEF Legible, Frames
  <2> QED
    BY <1>1, <2>1 DEF Legible, Frames, Cells
<1>3. /\ \A p \in 1 .. j - 1 : (\A q \in p .. j - 1 : w[q].k # "frame") => w[p].op = w[j].op
      /\ \/ (\A i \in 1 .. j - 1 : w[i].k # "frame") /\ \A n \in b : w[j].seq <= n + 1
         \/ \E i \in 1 .. j - 1 : /\ w[i].k = "frame" /\ w[j].seq = w[i].seq + 1
                                  /\ \A q \in i + 1 .. j - 1 : w[q].k # "frame"
  BY <1>2 DEF Linked
<1>4. \A p \in 1 .. j - 1 : (\A q \in p .. j - 1 : v[q].k # "frame") => v[p].op = v[j].op
  BY <1>1, <1>3
<1>5. CASE (\A i \in 1 .. j - 1 : w[i].k # "frame") /\ \A n \in b : w[j].seq <= n + 1
  <2>1. ASSUME NEW n \in c PROVE w[j].seq <= n + 1
    <3>1. PICK m \in b : m <= n
      OBVIOUS
    <3>2. w[j].seq <= m + 1 /\ m \in Nat /\ n \in Nat
      BY <1>5, <3>1
    <3> QED
      BY <1>2, <3>1, <3>2
  <2> QED
    BY <1>1, <1>4, <1>5, <2>1
<1>6. CASE \E i \in 1 .. j - 1 : /\ w[i].k = "frame" /\ w[j].seq = w[i].seq + 1
                                 /\ \A q \in i + 1 .. j - 1 : w[q].k # "frame"
  <2>1. PICK i \in 1 .. j - 1 : /\ w[i].k = "frame" /\ w[j].seq = w[i].seq + 1
                                /\ \A q \in i + 1 .. j - 1 : w[q].k # "frame"
    BY <1>6
  <2>2. v[i].k = "frame" /\ v[j].seq = v[i].seq + 1 /\ \A q \in i + 1 .. j - 1 : v[q].k # "frame"
    BY <1>1, <2>1
  <2> QED
    BY <1>4, <2>2
<1> QED
  BY <1>3, <1>5, <1>6

(* A frame is written behind its own piece, or behind another frame.        *)
LEMMA LinkedOn ==
  ASSUME NEW w \in Seq(Cells), NEW b \in SUBSET Nat, Linked(w, b), NEW o \in Nat, NEW s \in Nat,
         NEW m \in Nat, m = Len(w) \/ (m + 1 = Len(w) /\ w[Len(w)].k # "frame" /\ w[Len(w)].op = o),
         IF m = 0 THEN \A n \in b : s <= n ELSE w[m].k = "frame" /\ w[m].seq = s
  PROVE  Linked(Append(w, Frame(s + 1, o)), b)
<1> DEFINE v == Append(w, Frame(s + 1, o))
           e == Len(w) + 1
<1>1. /\ Len(w) \in Nat /\ Len(v) = e /\ \A q \in 1 .. Len(w) : v[q] = w[q] /\ w[q] \in Cells
      /\ v[e] = Frame(s + 1, o) /\ v[e].k = "frame" /\ v[e].seq = s + 1 /\ v[e].op = o
  <2>1. Frame(s + 1, o) \in Cells /\ Frame(s + 1, o).k = "frame" /\ Frame(s + 1, o).seq = s + 1 /\ Frame(s + 1, o).op = o
    BY CellIs
  <2>2. Len(v) = e /\ v[e] = Frame(s + 1, o) /\ \A q \in 1 .. Len(w) : v[q] = w[q]
    BY <2>1
  <2> QED
    BY <2>1, <2>2, ElementOfSeq
<1> HIDE DEF v
<1> SUFFICES ASSUME NEW j \in Legible(v)
             PROVE  /\ \A p \in 1 .. j - 1 : (\A q \in p .. j - 1 : v[q].k # "frame") => v[p].op = v[j].op
                    /\ \/ (\A i \in 1 .. j - 1 : v[i].k # "frame") /\ \A n \in b : v[j].seq <= n + 1
                       \/ \E i \in 1 .. j - 1 : /\ v[i].k = "frame" /\ v[j].seq = v[i].seq + 1
                                                /\ \A q \in i + 1 .. j - 1 : v[q].k # "frame"
  BY DEF Linked, v
<1>2. CASE j # e
  <2>1. j \in Nat /\ v[j] = w[j] /\ j \in Legible(w)
    BY <1>1, <1>2 DEF Legible, Frames
  <2>2. /\ \A p \in 1 .. j - 1 : (\A q \in p .. j - 1 : w[q].k # "frame") => w[p].op = w[j].op
        /\ \/ (\A i \in 1 .. j - 1 : w[i].k # "frame") /\ \A n \in b : w[j].seq <= n + 1
           \/ \E i \in 1 .. j - 1 : /\ w[i].k = "frame" /\ w[j].seq = w[i].seq + 1
                                    /\ \A q \in i + 1 .. j - 1 : w[q].k # "frame"
    BY <2>1 DEF Linked
  <2>3. \A p \in 1 .. j - 1 : v[p] = w[p] /\ (\A q \in p .. j - 1 : v[q] = w[q]) /\ \A r \in p + 1 .. j - 1 : v[r] = w[r]
    <3>1. \A q \in 1 .. j : q \in 1 .. Len(w)
      BY <1>1, <2>1 DEF Legible, Frames
    <3>2. \A q \in 1 .. j : v[q] = w[q]
      BY <1>1, <3>1
    <3> TAKE p \in 1 .. j - 1
    <3>3. p \in 1 .. j /\ (\A q \in p .. j - 1 : q \in 1 .. j) /\ \A r \in p + 1 .. j - 1 : r \in 1 .. j
      BY <2>1
    <3> QED
      BY <3>2, <3>3
  <2>4. \A p \in 1 .. j - 1 : (\A q \in p .. j - 1 : v[q].k # "frame") => v[p].op = v[j].op
    BY <2>1, <2>2, <2>3
  <2>5. CASE (\A i \in 1 .. j - 1 : w[i].k # "frame") /\ \A n \in b : w[j].seq <= n + 1
    BY <2>1, <2>3, <2>4, <2>5
  <2>6. CASE \E i \in 1 .. j - 1 : /\ w[i].k = "frame" /\ w[j].seq = w[i].seq + 1
                                   /\ \A q \in i + 1 .. j - 1 : w[q].k # "frame"
    <3>1. PICK i \in 1 .. j - 1 : /\ w[i].k = "frame" /\ w[j].seq = w[i].seq + 1
                                  /\ \A q \in i + 1 .. j - 1 : w[q].k # "frame"
      BY <2>6
    <3>2. v[i].k = "frame" /\ v[j].seq = v[i].seq + 1 /\ \A q \in i + 1 .. j - 1 : v[q].k # "frame"
      BY <2>1, <2>3, <3>1
    <3> QED
      BY <2>4, <3>2
  <2> QED
    BY <2>2, <2>5, <2>6
<1>3. CASE j = e
  <2>1. j - 1 = Len(w)
    BY <1>1, <1>3
  <2>2. m # 0 => m \in 1 .. Len(w) /\ v[m].k = "frame" /\ v[m].seq = s /\ v[j].seq = v[m].seq + 1
    BY <1>1, <1>3
  <2>3. ASSUME NEW p \in 1 .. j - 1, \A q \in p .. j - 1 : v[q].k # "frame"
        PROVE  v[p].op = v[j].op
    <3>1. p > m
      BY <1>1, <2>1, <2>2, <2>3
    <3>2. p = Len(w) /\ w[Len(w)].op = o
      BY <1>1, <2>1, <3>1
    <3> QED
      BY <1>1, <1>3, <3>2
  <2>4. \A q \in m + 1 .. j - 1 : v[q].k # "frame"
    BY <1>1, <2>1
  <2>5. CASE m = 0
    <3>1. (\A i \in 1 .. j - 1 : v[i].k # "frame") /\ \A n \in b : v[j].seq <= n + 1
      BY <1>1, <1>3, <2>4, <2>5
    <3> QED
      BY <2>3, <3>1
  <2>6. CASE m # 0
    BY <2>1, <2>2, <2>3, <2>4, <2>6
  <2> QED
    BY <2>5, <2>6
<1> QED
  BY <1>2, <1>3
--------------------------------------------------------------------------------
(***************************************************************************)
(* The steps that leave the log, or only cut it off.                       *)
(***************************************************************************)
LEMMA BasesNext ==
  ASSUME Types, Past, OneLine, Pending' \subseteq Pending
  PROVE  Bases' \in SUBSET Nat /\ Bases \in SUBSET Nat
<1>1. \A c \in Pending : Len(c) \in Nat
  <2>1. \A c \in Contents : Len(c) \in Nat
    BY DiskIs
  <2>2. Len(cp.core) \in Nat
    BY DEF Types
  <2> QED
    BY <2>1, <2>2 DEF Pending
<1>2. \A c \in Contents' : Len(c) \in Nat
  BY <1>1 DEF Pending
<1>3. Bases' = {Len(c) : c \in Contents'} \cup (IF Hollow' THEN {0} ELSE {})
  BY DEF Bases
<1> QED
  BY <1>2, <1>3, BasesAre

(* What the files keep of it, when the slots and acknowledgements that are  *)
(* left were there before.                                                  *)
LEMMA ReadiedStays ==
  ASSUME Types, Past, OneLine, Readied, durability' = durability,
         Pending' \subseteq Pending, \A n \in Bases' : n \in Bases \/ \E m \in Bases : m <= n,
         Linked(wal', Bases'), Linked(walFlushed', Bases'), Tailed(wal)', Tailed(walFlushed)', Staged',
         \A j \in Settled(wal, walFlushed) : j \in Settled(wal', walFlushed') /\ wal'[j] = wal[j],
         \A i \in 0 .. 1 : acks'[i] \in {acks[i], acksFlushed[i]} \/ ~acks'[i].valid,
         \A i \in 0 .. 1 : acksFlushed'[i] \in {acks[i], acksFlushed[i]} \/ ~acksFlushed'[i].valid
  PROVE  Readied'
<1>1. Bases \subseteq Nat /\ Bases' \subseteq Nat /\ Strict' = Strict
  BY BasesNext DEF Strict
<1>2. ASSUME NEW a \in AckContents, Named(a)
      PROVE  Named(a)'
  <2> SUFFICES ASSUME NEW n \in Bases', a.valid, n < a.seq
               PROVE  Strict /\ a.end \in Settled(wal', walFlushed') /\ wal'[a.end].seq = a.seq
    BY <1>1 DEF Named
  <2>1. PICK m \in Bases : m <= n
    BY <1>1
  <2>2. m < a.seq
    BY <1>1, <2>1 DEF AckContents
  <2>3. Strict /\ a.end \in Settled(wal, walFlushed) /\ wal[a.end].seq = a.seq
    BY <1>2, <2>2 DEF Named
  <2> QED
    BY <2>3
<1>3. \A i \in 0 .. 1 : acks[i] \in AckContents /\ acksFlushed[i] \in AckContents /\ Named(acks[i]) /\ Named(acksFlushed[i])
  BY DEF Types, Readied
<1>4. \A i \in 0 .. 1 : Named(acks[i])' /\ Named(acksFlushed[i])'
  <2> TAKE i \in 0 .. 1
  <2>1. Named(acks[i])'
    <3>1. PICK a : a = acks'[i]
      OBVIOUS
    <3>2. a.valid => a \in AckContents /\ Named(a)
      BY <1>3, <3>1
    <3>3. a.valid => Named(a)'
      BY <1>2, <3>2
    <3> QED
      BY <3>1, <3>3 DEF Named
  <2>2. Named(acksFlushed[i])'
    <3>1. PICK a : a = acksFlushed'[i]
      OBVIOUS
    <3>2. a.valid => a \in AckContents /\ Named(a)
      BY <1>3, <3>1
    <3>3. a.valid => Named(a)'
      BY <1>2, <3>2
    <3> QED
      BY <3>1, <3>3 DEF Named
  <2> QED
    BY <2>1, <2>2
<1>5. Level'
  BY <1>1 DEF Readied, Level
<1> QED
  BY <1>4, <1>5 DEF Readied

(* Steps that write no frame.                                               *)
LEMMA OpensStay ==
  ASSUME Good, wal' \in Seq(Cells), walFlushed' \in Seq(Cells), Opens, Later', Synced', UNCHANGED <<durability, dirty, lost>>, soft => soft',
         Pending' \subseteq Pending, \A n \in Bases' : n \in Bases \/ \E m \in Bases : m <= n,
         NEW k \in 0 .. Len(wal), k <= Len(wal'), \A i \in 1 .. k : wal'[i] = wal[i],
         \A i \in Frames(wal') : i <= k, \A j \in Settled(wal, walFlushed) : j <= k,
         walFlushed' = walFlushed \/ walFlushed' = wal' \/ (walFlushed' = wal /\ k = Len(wal)),
         ~soft => Tailed(wal)',
         Strict => \A i \in 1 .. Len(wal') : wal'[i].k = "piece" => i <= k \/ walFlushed' = wal',
         \A i \in 0 .. 1 : acks'[i] \in {acks[i], acksFlushed[i]} \/ ~acks'[i].valid,
         \A i \in 0 .. 1 : acksFlushed'[i] \in {acks[i], acksFlushed[i]} \/ ~acksFlushed'[i].valid
  PROVE  Opens'
<1>0. Types /\ Past /\ OneLine /\ Paid
  BY DEF Good, Opens
<1>1. /\ wal \in Seq(Cells) /\ walFlushed \in Seq(Cells) /\ wal' \in Seq(Cells) /\ walFlushed' \in Seq(Cells)
      /\ Len(wal) \in Nat /\ Len(wal') \in Nat /\ Strict' = Strict /\ Bases \in SUBSET Nat /\ Bases' \in SUBSET Nat
  <2>1. Bases \in SUBSET Nat /\ Bases' \in SUBSET Nat
    BY <1>0, BasesNext
  <2>2. wal \in Seq(Cells) /\ walFlushed \in Seq(Cells) /\ Len(wal) \in Nat
    BY <1>0 DEF Types
  <2> QED
    BY <2>1, <2>2 DEF Strict
<1>2. \A n \in Bases' : \E m \in Bases : m <= n
  BY <1>1
<1>3. Paid'
  BY <1>0, <1>1 DEF Paid
<1>4. ASSUME ~soft'
      PROVE  Readied'
  <2>1. Readied /\ ~soft
    BY <1>4 DEF Opens
  <2>2. Linked(wal', Bases')
    <3>1. \A j \in Legible(wal') : j <= Len(wal) /\ \A q \in 1 .. j : wal'[q] = wal[q]
      <4> TAKE j \in Legible(wal')
      <4>1. j \in Nat /\ j <= k
        BY DEF Legible, Frames
      <4> QED
        BY <1>1, <4>1
    <3> QED
      BY <1>1, <1>2, <2>1, <3>1, LinkedLess DEF Readied
  <2>3. Linked(walFlushed', Bases')
    <3>1. CASE walFlushed' = wal'
      BY <2>2, <3>1
    <3>2. ASSUME NEW v \in {wal, walFlushed}, walFlushed' = v
          PROVE  Linked(walFlushed', Bases')
      <4>1. \A j \in Legible(v) : j <= Len(v) /\ \A q \in 1 .. j : v[q] = v[q]
        BY <1>1 DEF Legible, Frames
      <4> QED
        BY <1>1, <1>2, <2>1, <3>2, <4>1, LinkedLess DEF Readied
    <3> QED
      BY <3>1, <3>2
  <2>4. Tailed(wal)' /\ Tailed(walFlushed)'
    BY <1>1, <2>1 DEF Readied, Tailed
  <2>5. Staged'
    <3> SUFFICES ASSUME Strict, NEW i \in 1 .. Len(wal'), wal'[i].k = "piece"
                 PROVE  i <= Len(walFlushed') /\ \A q \in 1 .. i : wal'[q] = walFlushed'[q]
      BY <1>1 DEF Staged
    <3>1. CASE walFlushed' = wal'
      BY <1>1, <3>1
    <3>2. CASE walFlushed' # wal'
      <4>1. i \in 1 .. k /\ i \in 1 .. Len(wal) /\ wal[i].k = "piece" /\ \A q \in 1 .. i : wal'[q] = wal[q]
        BY <1>1, <3>2
      <4>2. i <= Len(walFlushed) /\ \A q \in 1 .. i : wal[q] = walFlushed[q]
        BY <2>1, <4>1 DEF Readied, Staged
      <4> QED
        BY <1>1, <3>2, <4>1, <4>2
    <3> QED
      BY <3>1, <3>2
  <2>6. \A j \in Settled(wal, walFlushed) : j \in Settled(wal', walFlushed') /\ wal'[j] = wal[j]
    <3> TAKE j \in Settled(wal, walFlushed)
    <3>1. /\ j \in 1 .. Len(wal) /\ j \in 1 .. Len(wal') /\ j \in 1 .. k /\ wal[j].k = "frame" /\ j <= Len(walFlushed)
          /\ \A i \in 1 .. j : wal[i].k \in Whole /\ wal[i] = walFlushed[i] /\ wal'[i] = wal[i]
      BY <1>1 DEF Settled, Legible, Frames
    <3>2. j \in Legible(wal') /\ wal'[j] = wal[j]
      BY <3>1 DEF Legible, Frames
    <3>3. j <= Len(walFlushed') /\ \A i \in 1 .. j : wal'[i] = walFlushed'[i]
      BY <1>1, <3>1
    <3> QED
      BY <3>2, <3>3 DEF Settled
  <2> QED
    BY <1>0, <2>1, <2>2, <2>3, <2>4, <2>5, <2>6, ReadiedStays
<1> QED
  BY <1>3, <1>4 DEF Opens

LEMMA OpensStill ==
  ASSUME Good, Opens, Later', UNCHANGED <<wal, durability, dirty, lost, soft>>, walFlushed' = walFlushed \/ walFlushed' = wal,
         op' = op \/ op'.stage # "flushed" \/ walFlushed' = wal, Pending' \subseteq Pending, \A n \in Bases' : n \in Bases \/ \E m \in Bases : m <= n,
         \A i \in 0 .. 1 : acks'[i] \in {acks[i], acksFlushed[i]} \/ ~acks'[i].valid,
         \A i \in 0 .. 1 : acksFlushed'[i] \in {acks[i], acksFlushed[i]} \/ ~acksFlushed'[i].valid
  PROVE  Opens'
<1>1. wal \in Seq(Cells) /\ walFlushed \in Seq(Cells) /\ Len(wal) \in Nat /\ Len(wal) \in 0 .. Len(wal)
  BY DEF Good, Types
<1>2. wal' \in Seq(Cells) /\ walFlushed' \in Seq(Cells)
  BY <1>1
<1>3. (\A j \in Settled(wal, walFlushed) : j <= Len(wal)) /\ \A i \in Frames(wal') : i <= Len(wal)
  BY <1>1 DEF Settled, Legible, Frames
<1>4. ~soft => Tailed(wal)'
  BY DEF Opens, Readied, Tailed, Strict
<1>5. Synced'
  BY DEF Opens, Synced
<1> QED
  BY <1>1, <1>2, <1>3, <1>4, <1>5, OpensStay

LEMMA LaterSame ==
  ASSUME Later, Types, phase' = "open" => phase = "open" /\ latest' = latest, acksFlushed' = acksFlushed \/ acksFlushed' = acks,
         \A i \in 0 .. 1 : acks'[i] = acks[i] \/ ~acks'[i].valid
  PROVE  Later'
<1>1. \A i \in 0 .. 1 : acks[i].seq \in Nat /\ acksFlushed[i].seq \in Nat
  BY DEF Types, AckContents
<1> QED
  BY <1>1 DEF Later

LEMMA BasesSame ==
  ASSUME Contents' \subseteq Contents, Hollow' => Hollow
  PROVE  \A n \in Bases' : n \in Bases
  BY DEF Bases

LEMMA FlushFrameOpens ==
  ASSUME Good, Opens, FlushFrame
  PROVE  Opens'
<1>1. /\ walFlushed' = wal
      /\ UNCHANGED <<wal, slots, slotsFlushed, acks, acksFlushed, dirty, lost, phase, latest, cp, durability, soft>>
  BY DEF FlushFrame, countVars, historyVars
<1>2. Pending' = Pending /\ Bases' = Bases
  BY <1>1 DEF Pending, Contents, Cores, Bases, Hollow
<1>3. Later'
  BY <1>1, LaterSame DEF Opens, Good
<1> QED
  BY <1>1, <1>2, <1>3, OpensStill

LEMMA PublishFailsOpens ==
  ASSUME Good, Opens, NEW torn \in BOOLEAN, PublishFails(torn)
  PROVE  Opens'
<1>1. /\ acks' = IF torn THEN [acks EXCEPT ![Len(core) % 2] = TornAck] ELSE acks
      /\ UNCHANGED <<wal, walFlushed, slots, slotsFlushed, acksFlushed, dirty, lost, phase, latest, cp, durability, soft>>
      /\ op'.stage # "flushed"
  BY DEF PublishFails, historyVars, NoOp
<1>2. Pending' = Pending /\ Bases' = Bases
  BY <1>1 DEF Pending, Contents, Cores, Bases, Hollow
<1>3. \A i \in 0 .. 1 : acks'[i] = acks[i] \/ ~acks'[i].valid
  BY <1>1 DEF Good, Types, TornAck
<1>4. Later'
  BY <1>1, <1>3, LaterSame DEF Opens, Good
<1> QED
  BY <1>1, <1>2, <1>3, <1>4, OpensStill

LEMMA AcknowledgeOpens ==
  ASSUME Good, Opens, Acknowledge
  PROVE  Opens'
<1>1. /\ acksFlushed' = acks
      /\ UNCHANGED <<wal, walFlushed, slots, slotsFlushed, acks, dirty, lost, phase, latest, cp, durability, soft>>
      /\ op'.stage # "flushed"
  BY DEF Acknowledge, memoryVars, countVars, NoOp
<1>2. Pending' = Pending /\ Bases' = Bases
  BY <1>1 DEF Pending, Contents, Cores, Bases, Hollow
<1>3. Later'
  BY <1>1, LaterSame DEF Opens, Good
<1> QED
  BY <1>1, <1>2, <1>3, OpensStill

LEMMA FlushBoundaryOpens ==
  ASSUME Good, Opens, FlushBoundary
  PROVE  Opens'
<1>1. /\ acksFlushed' = acks /\ cp.stage # "none" /\ (cp' = Ended \/ cp' = [cp EXCEPT !.stage = "reset"])
      /\ UNCHANGED <<wal, walFlushed, slots, slotsFlushed, acks, dirty, lost, phase, latest, op, durability, soft>>
  BY DEF FlushBoundary, memoryVars, countVars, historyVars
<1>2. Pending' \subseteq Pending /\ Bases' = Bases
  <2>1. cp'.stage = "none" \/ cp'.core = cp.core
    BY <1>1, EndedIs, CpIs DEF Good, CheckpointStages
  <2> QED
    BY <1>1, <2>1 DEF Pending, Contents, Cores, Bases, Hollow
<1>3. Later'
  BY <1>1, LaterSame DEF Opens, Good
<1> QED
  BY <1>1, <1>2, <1>3, OpensStill

LEMMA EndedOpens ==
  ASSUME Good, Opens, FlushReset \/ CheckpointFails
  PROVE  Opens'
<1>1. /\ (walFlushed' = walFlushed \/ walFlushed' = wal) /\ cp' = Ended
      /\ UNCHANGED <<wal, slots, slotsFlushed, acks, acksFlushed, dirty, lost, phase, latest, op, durability, soft>>
  BY DEF FlushReset, CheckpointFails, fileVars, memoryVars, countVars, historyVars
<1>2. Pending' \subseteq Pending /\ Bases' = Bases
  <2>1. cp'.stage = "none"
    BY <1>1, EndedIs DEF Good
  <2> QED
    BY <1>1, <2>1 DEF Pending, Contents, Cores, Bases, Hollow
<1>3. Later'
  BY <1>1, LaterSame DEF Opens, Good
<1> QED
  BY <1>1, <1>2, <1>3, OpensStill

LEMMA TearSlotOpens ==
  ASSUME Good, Opens, TearSlot
  PROVE  Opens'
<1>1. cp.stage = "slot" /\ SlotNow \in 0 .. 1
  BY SlotNowIs DEF TearSlot
<1>2. /\ slots' = [slots EXCEPT ![SlotNow] = Torn] /\ cp' = [cp EXCEPT !.stage = "torn"]
      /\ UNCHANGED <<wal, walFlushed, slotsFlushed, acks, acksFlushed, dirty, lost, phase, latest, op, durability, soft>>
  BY DEF TearSlot, memoryVars, countVars, historyVars
<1>3. Contents' \subseteq Contents /\ Pending' \subseteq Pending /\ Hollow' = Hollow
  <2>1. \A i \in 0 .. 1 : slots'[i] = slots[i] \/ slots'[i].state # "valid"
    BY <1>1, <1>2 DEF Good, Types, Torn
  <2>2. Cores(slots)' \subseteq Cores(slots) /\ Cores(slotsFlushed)' = Cores(slotsFlushed)
    BY <1>2, <2>1 DEF Cores
  <2>3. cp'.core = cp.core
    BY <1>2, CpIs DEF Good, CheckpointStages
  <2> QED
    BY <1>1, <1>2, <2>2, <2>3 DEF Contents, Pending, Hollow
<1>4. Later'
  BY <1>2, LaterSame DEF Opens, Good
<1> QED
  BY <1>2, <1>3, <1>4, BasesSame, OpensStill

LEMMA WriteSlotOpens ==
  ASSUME Good, Opens, WriteSlot
  PROVE  Opens'
<1> DEFINE s == [state |-> "valid", gen |-> cp.gen, core |-> cp.core]
<1>1. cp.stage = "torn" /\ SlotNow \in 0 .. 1
  BY SlotNowIs DEF WriteSlot
<1>2. /\ slots' = [slots EXCEPT ![SlotNow] = s] /\ cp' = [cp EXCEPT !.stage = "written"]
      /\ UNCHANGED <<wal, walFlushed, slotsFlushed, acks, acksFlushed, dirty, lost, phase, latest, op, durability, soft>>
  BY DEF WriteSlot, memoryVars, countVars, historyVars
<1>3. Contents' \subseteq Contents \cup {cp.core} /\ Pending' \subseteq Pending /\ Hollow' = Hollow
  <2>1. \A i \in 0 .. 1 : slots'[i] = slots[i] \/ slots'[i] = s
    BY <1>1, <1>2 DEF Good, Types
  <2>2. Cores(slots)' \subseteq Cores(slots) \cup {cp.core} /\ Cores(slotsFlushed)' = Cores(slotsFlushed)
    BY <1>2, <2>1 DEF Cores
  <2>3. cp'.core = cp.core
    BY <1>2, CpIs DEF Good, CheckpointStages
  <2> QED
    BY <1>1, <1>2, <2>2, <2>3 DEF Contents, Pending, Hollow
<1>4. \E m \in Bases : m <= Len(cp.core)
  <2>1. Bases # {} /\ Len(cp.core) \in Nat /\ \A c \in Contents : Len(c) <= Len(cp.core)
    BY <1>1, BasesAre, Facts DEF Good, Checkpoint
  <2> QED
    BY <2>1 DEF Bases
<1>5. \A n \in Bases' : n \in Bases \/ \E m \in Bases : m <= n
  BY <1>3, <1>4 DEF Bases
<1>6. Later'
  BY <1>2, LaterSame DEF Opens, Good
<1> QED
  BY <1>2, <1>3, <1>5, <1>6, OpensStill

LEMMA FlushSlotOpens ==
  ASSUME Good, Opens, FlushSlot
  PROVE  Opens'
<1>1. cp.stage = "written" /\ SlotNow \in 0 .. 1 /\ slots[SlotNow].state = "valid"
  BY SlotNowIs DEF FlushSlot, Good, Checkpoint
<1>2. /\ slotsFlushed' = [slotsFlushed EXCEPT ![SlotNow] = slots[SlotNow]]
      /\ UNCHANGED <<wal, walFlushed, slots, acks, acksFlushed, dirty, lost, phase, latest, op, durability, soft>>
      /\ cp' = [cp EXCEPT !.stage = "mirrored"] \/ cp' = [cp EXCEPT !.stage = "slot", !.mirror = TRUE]
  BY DEF FlushSlot, countVars
<1>3. Contents' \subseteq Contents /\ Pending' \subseteq Pending /\ ~Hollow'
  <2>1. /\ slotsFlushed'[SlotNow] = slots[SlotNow]
        /\ \A i \in 0 .. 1 : slotsFlushed'[i] = slotsFlushed[i] \/ slotsFlushed'[i] = slots[i]
    BY <1>1, <1>2 DEF Good, Types
  <2>2. Cores(slots)' = Cores(slots) /\ Cores(slotsFlushed)' \subseteq Cores(slotsFlushed) \cup Cores(slots)
    BY <1>2, <2>1 DEF Cores
  <2>3. cp'.core = cp.core
    BY <1>2, CpIs DEF Good, CheckpointStages
  <2> QED
    BY <1>1, <1>2, <2>1, <2>2, <2>3 DEF Contents, Pending, Hollow
<1>4. Later'
  BY <1>2, LaterSame DEF Opens, Good
<1> QED
  BY <1>2, <1>3, <1>4, BasesSame, OpensStill

LEMMA ShutdownOpens ==
  ASSUME Good, Opens, Shutdown
  PROVE  Opens'
<1>1. /\ phase' = "down" /\ cp'.stage = "none" /\ op'.stage # "flushed"
      /\ UNCHANGED <<wal, walFlushed, slots, slotsFlushed, acks, acksFlushed, dirty, lost, durability, soft>>
  BY ForgottenIs DEF Shutdown, fileVars, countVars, historyVars, NoOp
<1>2. Pending' \subseteq Pending /\ Bases' = Bases
  BY <1>1 DEF Pending, Contents, Cores, Bases, Hollow
<1>3. Later'
  BY <1>1, LaterSame DEF Opens, Good
<1> QED
  BY <1>1, <1>2, <1>3, OpensStill

(* What an operation adds to the log or takes from it, short of its frame.  *)
LEMMA TailOpens ==
  ASSUME Good, Opens, phase = "open", Sound, UNCHANGED <<durability, dirty, lost, soft, slots, slotsFlushed, acksFlushed>>,
         wal' \in Seq(Cells), walFlushed' = walFlushed \/ walFlushed' = wal',
         op'.stage # "flushed", phase' = "open" => latest' = latest, cp' = cp \/ cp'.stage = "none",
         \A i \in 0 .. 1 : acks'[i] = acks[i] \/ ~acks'[i].valid,
         NEW k \in 0 .. Len(wal), k = Len(wal') \/ k + 1 = Len(wal'), \A i \in 1 .. k : wal'[i] = wal[i],
         k + 1 = Len(wal') => wal'[k + 1].k \in {"piece", "short"} /\ (wal'[k + 1].k = "piece" /\ Strict => walFlushed' = wal'),
         \A p \in Frames(wal) \cap Frames(walFlushed) : wal[p] = walFlushed[p] => p <= k
  PROVE  Opens'
<1>1. wal \in Seq(Cells) /\ walFlushed \in Seq(Cells) /\ Len(wal) \in Nat /\ Len(walFlushed) \in Nat /\ Len(wal') \in Nat /\ k \in Nat
  BY DEF Good, Types
<1>2. walFlushed' \in Seq(Cells) /\ k <= Len(wal')
  BY <1>1
<1>3. \A i \in 1 .. k : wal'[i].k \in Whole
  BY <1>1 DEF Sound
<1>4. \A i \in Frames(wal') : i <= k
  BY <1>1 DEF Frames
<1>5. \A j \in Settled(wal, walFlushed) : j <= k
  <2> TAKE j \in Settled(wal, walFlushed)
  <2>1. j \in Frames(wal) /\ j \in 1 .. Len(walFlushed) /\ wal[j] = walFlushed[j] /\ wal[j].k = "frame"
    BY <1>1 DEF Settled, Legible, Frames
  <2> QED
    BY <2>1 DEF Frames
<1>6. Tailed(wal)'
  <2>1. \A i \in 1 .. Len(wal') - 1 : wal'[i].k \in Whole
    BY <1>1, <1>3
  <2> QED
    BY <2>1 DEF Tailed, Whole
<1>7. Strict => \A i \in 1 .. Len(wal') : wal'[i].k = "piece" => i <= k \/ walFlushed' = wal'
  BY <1>1
<1>8. Pending' \subseteq Pending /\ Bases' = Bases
  BY DEF Pending, Contents, Cores, Bases, Hollow
<1>9. Later'
  BY LaterSame DEF Opens, Good
<1>10. Synced'
  BY DEF Synced
<1> QED
  BY <1>1, <1>2, <1>4, <1>5, <1>6, <1>7, <1>8, <1>9, <1>10, OpensStay

LEMMA StageOpens ==
  ASSUME Good, Opens, Stage
  PROVE  Opens'
<1>1. phase = "open" /\ Len(wal) = end /\ Sound
  BY Serving DEF Stage
<1>2. /\ wal' = Put(end, Piece(made + 1)) /\ (Strict => walFlushed' = wal')
      /\ walFlushed' = walFlushed \/ walFlushed' = wal'
      /\ UNCHANGED <<acks, acksFlushed, latest, soft, slots, slotsFlushed, cp, durability, lost, dirty>>
      /\ op'.stage # "flushed"
  BY DEF Stage
<1>3. made \in Nat /\ made + 1 \in Nat /\ wal \in Seq(Cells) /\ Len(wal) \in Nat /\ Len(wal) \in 0 .. Len(wal)
  BY Facts DEF Good
<1>4. Piece(made + 1) \in Cells /\ Piece(made + 1).k = "piece"
  BY <1>3, CellIs
<1>5. /\ wal' \in Seq(Cells) /\ Len(wal) + 1 = Len(wal') /\ wal'[Len(wal) + 1] = Piece(made + 1)
      /\ \A i \in 1 .. Len(wal) : wal'[i] = wal[i]
  BY <1>1, <1>2, <1>4, PutEnd DEF Good
<1>6. \A p \in Frames(wal) \cap Frames(walFlushed) : p <= Len(wal)
  BY <1>3 DEF Frames
<1> QED
  BY <1>1, <1>2, <1>3, <1>4, <1>5, <1>6, TailOpens

LEMMA UnstageOpens ==
  ASSUME Good, Opens, Unstage
  PROVE  Opens'
<1>1. op.stage = "staged"
  BY DEF Unstage
<1>2. /\ phase = "open" /\ Sound /\ op.start \in Nat /\ Len(wal) = end /\ end = op.start + 1 /\ wal[end].k = "piece"
  BY <1>1, InOperation DEF Good, Operation
<1>3. UNCHANGED <<acks, acksFlushed, latest, soft, slots, slotsFlushed, cp, durability, lost, dirty>> /\ op'.stage # "flushed"
  BY DEF Unstage, countVars, historyVars, NoOp
<1>4. wal \in Seq(Cells) /\ Len(wal) \in Nat
  BY Facts DEF Good
<1>5. CASE UNCHANGED <<wal, walFlushed>>
  <2>1. Len(wal) \in 0 .. Len(wal) /\ \A p \in Frames(wal) \cap Frames(walFlushed) : p <= Len(wal)
    BY <1>4 DEF Frames
  <2>2. wal' \in Seq(Cells) /\ Len(wal') = Len(wal) /\ Len(wal) + 1 # Len(wal') /\ \A i \in 1 .. Len(wal) : wal'[i] = wal[i]
    BY <1>4, <1>5
  <2> QED
    BY <1>2, <1>3, <1>4, <1>5, <2>1, <2>2, TailOpens
<1>6. CASE wal' = Truncated(wal, op.start) /\ walFlushed' = wal'
  <2>1. op.start \in 0 .. Len(wal) /\ op.start + 1 # op.start
    BY <1>2, <1>4
  <2>2. wal' \in Seq(Cells) /\ Len(wal') = op.start /\ \A i \in 1 .. op.start : wal'[i] = wal[i]
    BY <2>1, <1>4, <1>6, TruncatedIs
  <2>3. \A p \in Frames(wal) \cap Frames(walFlushed) : p <= op.start
    BY <1>2, <1>4 DEF Frames
  <2> QED
    BY <1>2, <1>3, <1>6, <2>1, <2>2, <2>3, TailOpens
<1> QED
  BY <1>5, <1>6 DEF Unstage

LEMMA AppendFailsOpens ==
  ASSUME Good, Opens, NEW cut \in BOOLEAN, AppendFails(cut)
  PROVE  Opens'
<1>1. phase = "open" /\ Len(wal) = end /\ Sound /\ op.stage = "none"
  BY Serving DEF AppendFails
<1>2. /\ wal' = Truncated(wal, end) \/ wal' = Put(end, Short)
      /\ UNCHANGED <<walFlushed, slots, slotsFlushed, acks, acksFlushed, dirty, lost, latest, op, cp, durability, soft>>
  BY DEF AppendFails, stepVars, historyVars
<1>3. wal \in Seq(Cells) /\ Len(wal) \in Nat /\ end \in Nat /\ Len(wal) \in 0 .. Len(wal)
  BY Facts DEF Good
<1>4. \A p \in Frames(wal) \cap Frames(walFlushed) : p <= Len(wal)
  BY <1>3 DEF Frames
<1>5. /\ wal' \in Seq(Cells) /\ \A i \in 1 .. Len(wal) : wal'[i] = wal[i]
      /\ Len(wal) = Len(wal') \/ (Len(wal) + 1 = Len(wal') /\ wal'[Len(wal) + 1].k = "short")
  <2>1. CASE wal' = Truncated(wal, end)
    BY <2>1, <1>1, <1>3, TruncatedIs
  <2>2. CASE wal' = Put(end, Short)
    <3>1. Short \in Cells /\ Short.k = "short"
      BY CellIs
    <3> QED
      BY <2>2, <3>1, <1>1, PutEnd DEF Good
  <2> QED
    BY <2>1, <2>2, <1>2
<1>6. Len(wal) + 1 = Len(wal') => wal'[Len(wal) + 1].k = "short"
  BY <1>3, <1>5
<1> QED
  BY <1>1, <1>2, <1>3, <1>4, <1>5, <1>6, TailOpens

LEMMA FrameFailsOpens ==
  ASSUME Good, Reloads, Opens, NEW keep, FrameFails(keep)
  PROVE  Opens'
<1>1. op.stage = "written" /\ Strict /\ \A i \in Frames(walFlushed) : walFlushed[i].op # op.id
  BY DEF FrameFails, Good, Operation
<1>2. phase = "open" /\ ~poisoned /\ Sound /\ op.start \in Nat /\ op.start <= end /\ Len(wal) = end + 1
  BY <1>1, InOperation
<1>3. /\ wal' = Truncated(wal, keep) /\ keep \in {op.start, end, end + 1}
      /\ walFlushed' = wal' \/ walFlushed' = walFlushed
      /\ UNCHANGED <<slots, slotsFlushed, acks, acksFlushed, dirty, lost, latest, cp, durability, soft>>
      /\ op'.stage # "flushed"
  BY DEF FrameFails, historyVars, NoOp
<1>4. wal \in Seq(Cells) /\ Len(wal) \in Nat /\ end \in Nat
  BY Facts DEF Good
<1>5. wal[end + 1].op = op.id /\ end <= op.start + 1
  BY <1>1, CellIs DEF Good, Operation, Frame
<1>6. keep \in 0 .. Len(wal) /\ keep \in Nat /\ keep + 1 # keep
  BY <1>2, <1>3, <1>4
<1>7. wal' \in Seq(Cells) /\ Len(wal') = keep /\ \A i \in 1 .. keep : wal'[i] = wal[i]
  BY <1>3, <1>4, <1>6, TruncatedIs
<1>8. op.start < end => wal[end].k = "piece"
  BY <1>1, <1>2 DEF Reloads, Serves
<1>9. ASSUME NEW p \in Frames(wal) \cap Frames(walFlushed), wal[p] = walFlushed[p]
      PROVE  p <= keep
  <2>1. p \in Nat /\ p <= end + 1 /\ p >= 1 /\ wal[p].k = "frame" /\ wal[p].op # op.id
    BY <1>1, <1>2, <1>9 DEF Frames
  <2>2. p # end + 1 /\ (op.start < end => p # end)
    BY <1>5, <1>8, <2>1
  <2> QED
    BY <1>2, <1>3, <1>4, <1>5, <2>1, <2>2
<1> QED
  BY <1>2, <1>3, <1>6, <1>7, <1>9, TailOpens

LEMMA TabDiesOpens ==
  ASSUME Good, Good', Opens, NEW short \in BOOLEAN, NEW torn \in BOOLEAN, TabDies(short, torn)
  PROVE  Opens'
<1>1. /\ phase = "open" /\ phase' = "down" /\ cp'.stage = "none" /\ op'.stage # "flushed" /\ (short => Logging)
      /\ wal' = IF short THEN Put(end, Short) ELSE wal
      /\ acks' = IF torn THEN [acks EXCEPT ![latest.seq % 2] = TornAck] ELSE acks
      /\ UNCHANGED <<walFlushed, slots, slotsFlushed, acksFlushed, dirty, lost, durability, soft>>
  BY ForgottenIs DEF TabDies, historyVars, NoOp
<1>2. Len(wal) \in Nat /\ wal \in Seq(Cells) /\ wal' \in Seq(Cells) /\ end \in Nat
  BY Facts DEF Good, Types
<1>3. \A i \in 0 .. 1 : acks'[i] = acks[i] \/ ~acks'[i].valid
  <2>1. latest.seq \in Nat /\ acks \in [0 .. 1 -> AckContents] /\ ~TornAck.valid
    BY Facts DEF Good, Types, TornAck
  <2>2. latest.seq % 2 \in 0 .. 1
    BY <2>1
  <2> QED
    BY <2>1, <2>2, <1>1
<1>4. Short \in Cells /\ Short.k = "short"
  BY CellIs
<1>5. CASE ~short
  <2>1. wal' = wal /\ UNCHANGED <<walFlushed, slots, slotsFlushed, acksFlushed, dirty, lost, durability, soft>>
    BY <1>1, <1>5
  <2>2. Pending' \subseteq Pending /\ Bases' = Bases
    BY <1>1 DEF Pending, Contents, Cores, Bases, Hollow
  <2>3. Later'
    BY <1>1, <1>3, LaterSame DEF Opens, Good
  <2> QED
    BY <1>1, <1>3, <2>1, <2>2, <2>3, OpensStill
<1>6. CASE short
  <2>1. Sound /\ (IF op.stage = "written" THEN Len(wal) = end + 1 ELSE Len(wal) = end)
    <3>1. CASE op.stage # "none"
      BY <3>1, InOperation
    <3>2. CASE op.stage = "none"
      <4>1. QueueTurn \/ LeaseLane
        BY <1>1, <1>6, <3>2 DEF Logging
      <4> QED
        BY <4>1, <3>2, Serving
    <3> QED
      BY <3>1, <3>2
  <2>2. end \in 0 .. Len(wal) /\ end <= Len(wal)
    BY <1>2, <2>1
  <2>3. /\ Len(wal') = end + 1 /\ wal'[end + 1] = Short /\ \A i \in 1 .. end : wal'[i] = wal[i]
    <3>1. LET v == Put(end, Short)
          IN  /\ v \in Seq(Cells) /\ Len(v) = IF Len(wal) > end THEN Len(wal) ELSE end + 1
              /\ v[end + 1] = Short /\ \A i \in 1 .. Len(wal) : i # end + 1 => v[i] = wal[i]
      BY <2>2, <1>2, <1>4, PutIs DEF Good
    <3> QED
      BY <3>1, <2>1, <2>2, <1>1, <1>2, <1>6
  <2>4. ASSUME NEW p \in Frames(wal) \cap Frames(walFlushed), wal[p] = walFlushed[p]
        PROVE  p <= end
    <3>1. p \in 1 .. Len(wal) /\ p \in Frames(walFlushed)
      BY DEF Frames
    <3>2. op.stage = "written" => p # end + 1
      <4>1. op.stage = "written" => wal[end + 1].op = op.id /\ \A i \in Frames(walFlushed) : walFlushed[i].op # op.id
        BY DEF Good, Operation, Frame
      <4> QED
        BY <2>4, <3>1, <4>1
    <3> QED
      BY <1>2, <2>1, <3>1, <3>2
  <2> QED
    BY <1>1, <1>2, <1>3, <1>4, <2>1, <2>2, <2>3, <2>4, TailOpens
<1> QED
  BY <1>5, <1>6
--------------------------------------------------------------------------------
(***************************************************************************)
(* The steps that write frames.                                            *)
(***************************************************************************)
(* A log without frames: everything is in every slot.                       *)
LEMMA SlotsLevel ==
  ASSUME Good, Reloads, Readied, ~soft, phase = "open", Frames(wal) = {}, Len(core) = Len(Floor)
  PROVE  /\ \A c, d \in Pending : Len(c) = Len(d)
         /\ \A n \in Bases : Len(core) <= n
<1>1. \A c, d \in Pending : Len(c) = Len(d)
  <2>1. CASE Strict
    <3>1. Bare
      BY DEF Bare
    <3> QED
      BY <2>1, <3>1 DEF Reloads, Even
  <2>2. CASE ~Strict
    <3>1. Settled(wal, walFlushed) = {}
      BY DEF Settled, Legible
    <3> QED
      BY <2>2, <3>1 DEF Readied, Level
  <2> QED
    BY <2>1, <2>2
<1>2. Len(Floor) \in Nat /\ newest \in 0 .. 1 /\ (slots[newest].state = "valid" => Floor \in Contents)
  BY FloorIs
<1>3. \A n \in Bases : n \in Nat
  BY BasesAre DEF Good
<1>4. CASE slots[newest].state # "valid"
  <2>1. Len(core) = 0
    BY <1>4 DEF Floor
  <2> QED
    BY <1>1, <1>3, <2>1
<1>5. CASE slots[newest].state = "valid"
  <2>1. Paired(newest, generation)
    BY DEF Reloads, Twins
  <2>2. ~Hollow
    BY <1>2, <1>5, <2>1 DEF Paired, Hollow
  <2>3. \A c \in Contents : Len(c) = Len(Floor)
    BY <1>1, <1>2, <1>5 DEF Pending
  <2> QED
    BY <1>1, <1>2, <2>2, <2>3 DEF Bases
<1> QED
  BY <1>4, <1>5

LEMMA FrameOpens ==
  ASSUME Good, Reloads, Opens, phase = "open", ~poisoned, Sound, NEW o \in Nat,
         wal' = Append(wal, Frame(Len(core) + 1, o)),
         UNCHANGED <<phase, acks, acksFlushed, latest, soft, slots, slotsFlushed, cp, durability, lost, walFlushed>>,
         dirty' = dirty \/ (~Strict /\ dirty' = dirty \cup {made + 1}),
         op.stage \in {"none", "staged"}, op.stage = "staged" => op.id = o, op'.stage # "flushed"
  PROVE  Opens'
<1>0. Types /\ Past /\ OneLine /\ Paid /\ Later
  BY DEF Good, Opens
<1>1. /\ wal \in Seq(Cells) /\ Len(wal) \in Nat /\ Len(walFlushed) \in Nat /\ Len(core) \in Nat /\ op.start \in Nat /\ end \in Nat
      /\ core \in Seq(1 .. made) /\ made \in Nat
  BY <1>0, Facts
<1>2. /\ Len(wal') = Len(wal) + 1 /\ wal'[Len(wal) + 1].k = "frame" /\ \A i \in 1 .. Len(wal) : wal'[i] = wal[i]
  BY <1>1, CellIs
<1>3. Strict' = Strict /\ Pending' = Pending /\ Bases' = Bases
  BY DEF Strict, Pending, Contents, Cores, Bases, Hollow
<1>4. Later'
  BY <1>0, LaterSame
<1>5. Paid'
  <2>1. \A c \in Pending : \A i \in 1 .. Len(c) : c[i] \in 1 .. made /\ c[i] # made + 1
    <3> TAKE c \in Pending
    <3>1. Len(c) \in Nat /\ Begins(c, core) /\ \A i \in 1 .. Len(core) : core[i] \in 1 .. made
      BY <1>1, PendingIs, ElementOfSeq
    <3>2. \A i \in 1 .. Len(c) : i \in 1 .. Len(core) /\ c[i] = core[i]
      BY <1>1, <3>1 DEF Begins
    <3>3. \A i \in 1 .. made : i # made + 1
      BY <1>1
    <3> QED
      BY <3>1, <3>2, <3>3
  <2> QED
    BY <1>0, <1>3, <2>1 DEF Paid
<1>6. ASSUME ~soft
      PROVE  Readied'
  <2>1. Readied /\ Tip
    BY <1>6 DEF Opens, Reloads, Serves
  <2>2. op.stage = "staged" => Len(wal) = end /\ end = op.start + 1 /\ wal[end].k = "piece" /\ wal[end].op = op.id
    <3> SUFFICES ASSUME op.stage = "staged"
                 PROVE  Len(wal) = end /\ end = op.start + 1 /\ wal[end].k = "piece" /\ wal[end].op = op.id
      OBVIOUS
    <3>1. Len(wal) = end /\ end = op.start + 1 /\ wal[end].k = "piece"
      BY DEF Good, Operation, Memory
    <3>2. op.start < end
      BY <1>1, <3>1
    <3> QED
      BY <3>1, <3>2 DEF Reloads, Serves
  <2>3. Kept \in Nat /\ (Kept = Len(wal) \/ (Kept + 1 = Len(wal) /\ wal[Len(wal)].k # "frame" /\ wal[Len(wal)].op = o))
    BY <1>1, <2>2 DEF Kept
  <2>4. IF Kept = 0 THEN \A n \in Bases : Len(core) <= n ELSE wal[Kept].k = "frame" /\ wal[Kept].seq = Len(core)
    <3>1. ASSUME Kept = 0
          PROVE  \A n \in Bases : Len(core) <= n
      <4>1. Frames(wal) = {} /\ Len(core) = Len(Floor)
        BY <1>1, <2>1, <2>3, <3>1 DEF Frames, Tip
      <4> QED
        BY <1>6, <2>1, <4>1, SlotsLevel
    <3> QED
      BY <2>1, <3>1 DEF Tip
  <2>5. Linked(wal', Bases') /\ Linked(walFlushed', Bases')
    <3>1. Bases \in SUBSET Nat
      BY <1>0, BasesAre
    <3>2. Linked(Append(wal, Frame(Len(core) + 1, o)), Bases)
      BY <1>1, <2>1, <2>3, <2>4, <3>1, LinkedOn DEF Readied
    <3> QED
      BY <1>3, <2>1, <3>2 DEF Readied
  <2>6. Tailed(wal)' /\ Tailed(walFlushed)'
    <3>1. \A i \in 1 .. Len(wal') - 1 : wal'[i].k \in Whole
      BY <1>1, <1>2 DEF Sound
    <3> QED
      BY <1>3, <2>1, <3>1 DEF Tailed, Whole, Readied
  <2>7. Staged'
    <3> SUFFICES ASSUME Strict, NEW i \in 1 .. Len(wal'), wal'[i].k = "piece"
                 PROVE  i <= Len(walFlushed) /\ \A q \in 1 .. i : wal'[q] = walFlushed[q]
      BY <1>3 DEF Staged
    <3>1. i \in 1 .. Len(wal) /\ wal[i].k = "piece" /\ \A q \in 1 .. i : wal'[q] = wal[q]
      BY <1>1, <1>2
    <3>2. i <= Len(walFlushed) /\ \A q \in 1 .. i : wal[q] = walFlushed[q]
      BY <2>1, <3>1 DEF Readied, Staged
    <3> QED
      BY <3>1, <3>2
  <2>8. \A j \in Settled(wal, walFlushed) : j \in Settled(wal', walFlushed') /\ wal'[j] = wal[j]
    BY <1>1, <1>2 DEF Settled, Legible, Frames
  <2> QED
    BY <1>0, <1>3, <2>1, <2>5, <2>6, <2>7, <2>8, ReadiedStays
<1> QED
  BY <1>4, <1>5, <1>6 DEF Opens, Synced

LEMMA LogFlushedOpens ==
  ASSUME Good, Reloads, Opens, LogFlushed
  PROVE  Opens'
<1>1. phase = "open" /\ ~poisoned /\ op.stage = "none" /\ Len(wal) = end /\ Sound
  BY Serving DEF LogFlushed
<1>2. /\ wal' = Put(end, Frame(Len(core) + 1, made + 1))
      /\ UNCHANGED <<phase, acks, acksFlushed, latest, soft, slots, slotsFlushed, cp, durability, lost, walFlushed, dirty>>
      /\ op'.stage # "flushed"
  BY DEF LogFlushed, Apply
<1>3. made + 1 \in Nat /\ Len(core) + 1 \in Nat
  BY Facts DEF Good
<1>4. wal' = Append(wal, Frame(Len(core) + 1, made + 1))
  BY <1>1, <1>2, <1>3, CellIs, PutEnd DEF Good
<1> QED
  BY <1>1, <1>2, <1>3, <1>4, FrameOpens

LEMMA LogUnflushedOpens ==
  ASSUME Good, Reloads, Opens, NEW payload \in BOOLEAN, LogUnflushed(payload)
  PROVE  Opens'
<1>1. phase = "open" /\ ~poisoned /\ op.stage = "none" /\ Len(wal) = end /\ Sound
  BY Serving DEF LogUnflushed
<1>2. /\ wal' = Put(end, Frame(Len(core) + 1, made + 1))
      /\ dirty' = dirty \/ (~Strict /\ dirty' = dirty \cup {made + 1})
      /\ UNCHANGED <<phase, acks, acksFlushed, latest, soft, slots, slotsFlushed, op, cp, durability, lost, walFlushed>>
  BY DEF LogUnflushed, Apply, stepVars
<1>3. made + 1 \in Nat /\ Len(core) + 1 \in Nat
  BY Facts DEF Good
<1>4. wal' = Append(wal, Frame(Len(core) + 1, made + 1))
  BY <1>1, <1>2, <1>3, CellIs, PutEnd DEF Good
<1> QED
  BY <1>1, <1>2, <1>3, <1>4, FrameOpens

LEMMA CompleteOpens ==
  ASSUME Good, Reloads, Opens, Complete
  PROVE  Opens'
<1>1. op.stage = "staged"
  BY DEF Complete
<1>2. phase = "open" /\ ~poisoned /\ Len(wal) = end /\ Sound /\ op.id \in 1 .. made
  BY <1>1, InOperation
<1>3. /\ wal' = Put(end, Frame(Len(core) + 1, op.id))
      /\ UNCHANGED <<phase, acks, acksFlushed, latest, soft, slots, slotsFlushed, cp, durability, lost, walFlushed, dirty>>
      /\ op'.stage # "flushed"
  BY DEF Complete, countVars, NoOp, Good, Types
<1>4. op.id \in Nat /\ Len(core) + 1 \in Nat
  BY <1>2, Facts DEF Good
<1>5. wal' = Append(wal, Frame(Len(core) + 1, op.id))
  BY <1>2, <1>3, <1>4, CellIs, PutEnd DEF Good
<1> QED
  BY <1>1, <1>2, <1>3, <1>4, <1>5, FrameOpens
--------------------------------------------------------------------------------
(***************************************************************************)
(* Acknowledgements and checkpoints.                                       *)
(***************************************************************************)
(* A boundary is acknowledged that no slot reaches and a settled frame      *)
(* ends, or that every slot reaches.                                        *)
LEMMA PublishOpens ==
  ASSUME Good, Opens, phase = "open", NEW s \in Nat, NEW e \in Nat, latest.seq <= s, Publish(s, e),
         UNCHANGED <<wal, walFlushed, slots, slotsFlushed, acksFlushed, dirty, lost, durability, soft>>,
         Pending' \subseteq Pending, op' = op \/ op'.stage # "flushed",
         ~soft => \A n \in Bases : n < s => Strict /\ e \in Settled(wal, walFlushed) /\ wal[e].seq = s
  PROVE  Opens'
<1>1. s % 2 \in 0 .. 1 /\ acks \in [0 .. 1 -> AckContents] /\ acksFlushed \in [0 .. 1 -> AckContents] /\ latest.seq \in Nat
  BY Facts DEF Good, Types
<1>2. /\ acks' = [acks EXCEPT ![s % 2] = Ack(s, e)] /\ latest'.seq = s
      /\ \A i \in 0 .. 1 : acks'[i] = acks[i] \/ acks'[i] = Ack(s, e)
  BY <1>1 DEF Publish, Ack
<1>3. Ack(s, e).valid /\ Ack(s, e).seq = s /\ Ack(s, e).end = e
  BY DEF Ack
<1>4. Bases' = Bases /\ Strict' = Strict
  BY DEF Bases, Hollow, Contents, Cores, Strict
<1>5. Later'
  <2>1. \A i \in 0 .. 1 : /\ acks[i].seq \in Nat /\ acksFlushed[i].seq \in Nat
                          /\ acks[i].valid => acks[i].seq <= s
                          /\ acksFlushed[i].valid => acksFlushed[i].seq <= s
    <3>1. \A i \in 0 .. 1 : acks[i].seq \in Nat /\ acksFlushed[i].seq \in Nat
      BY <1>1 DEF AckContents
    <3>2. \A i \in 0 .. 1 : /\ acks[i].valid => acks[i].seq <= latest.seq
                            /\ acksFlushed[i].valid => acksFlushed[i].seq <= latest.seq
      BY DEF Opens, Later
    <3> QED
      BY <1>1, <3>1, <3>2
  <2>2. \A i \in 0 .. 1 : acks[i].valid /\ acksFlushed[i].valid => acksFlushed[i].seq <= acks[i].seq
    BY DEF Opens, Later
  <2> QED
    BY <1>2, <1>3, <2>1, <2>2 DEF Later
<1>6. Paid' /\ Synced'
  BY <1>4 DEF Opens, Paid, Synced
<1>7. ASSUME ~soft
      PROVE  Readied'
  <2>1. Readied
    BY <1>7 DEF Opens
  <2>2. Named(Ack(s, e))
    BY <1>3, <1>7 DEF Named
  <2>3. \A i \in 0 .. 1 : Named(acks[i])' /\ Named(acksFlushed[i])'
    <3> TAKE i \in 0 .. 1
    <3>1. PICK a, g : a = acks'[i] /\ g = acksFlushed'[i]
      OBVIOUS
    <3>2. Named(a) /\ Named(g)
      BY <1>2, <2>1, <2>2, <3>1 DEF Readied
    <3>3. Named(a)' /\ Named(g)'
      BY <1>4, <3>2 DEF Named
    <3> QED
      BY <3>1, <3>3 DEF Named
  <2> QED
    BY <1>4, <2>1, <2>3 DEF Readied, Tailed, Staged, Level
<1> QED
  BY <1>5, <1>6, <1>7 DEF Opens

LEMMA PublishFrameOpens ==
  ASSUME Good, Reloads, Opens, PublishFrame
  PROVE  Opens'
<1>1. op.stage = "flushed"
  BY DEF PublishFrame
<1>2. phase = "open" /\ ~poisoned /\ Sound /\ Len(wal) = end /\ Strict
  BY <1>1, InOperation DEF Good, Operation
<1>3. /\ Publish(Len(core), end) /\ op'.stage # "flushed"
      /\ UNCHANGED <<wal, walFlushed, slots, slotsFlushed, acksFlushed, dirty, lost, cp, durability, soft>>
  BY DEF PublishFrame, countVars, historyVars, Good, Types
<1>4. Len(core) \in Nat /\ end \in Nat /\ latest.seq <= Len(core) /\ wal \in Seq(Cells)
  BY <1>2, Facts DEF Good, Memory
<1>5. Pending' = Pending
  BY <1>3 DEF Pending, Contents, Cores
<1>6. ASSUME ~soft, NEW n \in Bases, n < Len(core)
      PROVE  end \in Settled(wal, walFlushed) /\ wal[end].seq = Len(core)
  <2>1. Readied /\ Tip /\ walFlushed = wal
    BY <1>1, <1>2, <1>6 DEF Opens, Reloads, Serves, Synced
  <2>2. Kept = end
    BY <1>1, <1>2 DEF Kept
  <2>3. end # 0
    <3> SUFFICES ASSUME end = 0
                 PROVE  FALSE
      OBVIOUS
    <3>1. Frames(wal) = {} /\ Len(core) = Len(Floor)
      BY <1>2, <2>1, <2>2 DEF Frames, Tip
    <3>2. Len(core) <= n /\ n \in Nat
      BY <1>2, <1>6, <2>1, <3>1, SlotsLevel, BasesAre DEF Good
    <3> QED
      BY <1>4, <1>6, <3>2
  <2>4. wal[end].k = "frame" /\ wal[end].seq = Len(core) /\ end \in 1 .. Len(wal)
    BY <1>2, <1>4, <2>1, <2>2, <2>3 DEF Tip
  <2> QED
    BY <1>2, <1>4, <2>1, <2>4 DEF Settled, Legible, Frames, Sound
<1> QED
  BY <1>2, <1>3, <1>4, <1>5, <1>6, PublishOpens

(* Every slot has the checkpoint that ends.                                 *)
LEMMA MirrorsLevel ==
  ASSUME Good, Reloads, ~soft, cp.stage \in {"mirrored", "resetting", "keeping", "reset"}
  PROVE  /\ \A n \in Bases : n = Len(cp.core)
         /\ \A c \in Pending : c = cp.core
<1>1. \A c \in Contents : c = cp.core
  BY DEF Reloads, Generations
<1>2. phase = "open" /\ slots[newest].state = "valid" /\ newest \in 0 .. 1
  BY InCheckpoint DEF Good, Checkpoint
<1>3. ~Hollow
  BY <1>2 DEF Reloads, Twins, Paired, Hollow
<1> QED
  BY <1>1, <1>3 DEF Bases, Pending

LEMMA MirroredOpens ==
  ASSUME Good, Reloads, Opens, Mirrored
  PROVE  Opens'
<1>1. cp.stage = "mirrored"
  BY DEF Mirrored
<1>2. phase = "open" /\ latest.seq <= Len(core) /\ Len(core) \in Nat /\ Len(cp.core) \in Nat /\ end \in Nat /\ cp.end \in Nat
      /\ latest.seq \in Nat
  BY <1>1, InCheckpoint, Facts DEF Good, Types
<1>3. UNCHANGED <<wal, walFlushed, slots, slotsFlushed, acksFlushed, dirty, lost, phase, op, durability, soft>>
  BY DEF Mirrored, countVars, historyVars
<1>4. /\ cp' = Ended \/ cp' = [cp EXCEPT !.stage = "resetting"] \/ cp' = [cp EXCEPT !.stage = "keeping"]
      /\ \/ UNCHANGED <<acks, latest>>
         \/ Publish(Len(cp.core), end) /\ Len(core) = Len(cp.core)
         \/ Publish(Len(cp.core), cp.end) /\ latest.seq < Len(cp.core)
  BY DEF Mirrored, CoversLog
<1>5. Pending' \subseteq Pending /\ Bases' = Bases
  <2>1. cp'.stage = "none" \/ cp'.core = cp.core
    BY <1>4, EndedIs, CpIs DEF Good, CheckpointStages
  <2> QED
    BY <1>1, <1>3, <2>1 DEF Pending, Contents, Cores, Bases, Hollow
<1>6. CASE UNCHANGED <<acks, latest>>
  <2>1. Later'
    BY <1>3, <1>6, LaterSame DEF Opens, Good
  <2> QED
    BY <1>3, <1>5, <1>6, <2>1, OpensStill
<1>7. ASSUME NEW e \in Nat, Publish(Len(cp.core), e), latest.seq <= Len(cp.core)
      PROVE  Opens'
  <2>1. ~soft => \A n \in Bases : ~(n < Len(cp.core))
    BY <1>1, <1>2, MirrorsLevel
  <2> QED
    BY <1>2, <1>3, <1>5, <1>7, <2>1, PublishOpens
<1> QED
  BY <1>2, <1>4, <1>6, <1>7

LEMMA BeginCheckpointOpens ==
  ASSUME Good, Reloads, Opens, NEW closing \in BOOLEAN, BeginCheckpoint(closing)
  PROVE  Opens'
<1>1. phase = "open" /\ ~poisoned /\ op.stage = "none" /\ Len(wal) = end /\ Sound /\ cp.stage = "none"
  BY Serving DEF BeginCheckpoint, QueueTurn
<1>2. /\ cp'.core = core /\ cp'.stage # "none"
      /\ IF Strict THEN UNCHANGED <<walFlushed, dirty>> ELSE walFlushed' = wal /\ dirty' = {}
      /\ UNCHANGED <<wal, slots, slotsFlushed, acks, acksFlushed, lost, phase, latest, op, durability, soft>>
  BY DEF BeginCheckpoint, memoryVars, historyVars
<1>3. Contents' = Contents /\ Bases' = Bases /\ Strict' = Strict /\ Pending' = Contents \cup {core} /\ Pending = Contents
  BY <1>1, <1>2 DEF Pending, Contents, Cores, Bases, Hollow, Strict
<1>4. Later' /\ Synced'
  BY <1>1, <1>2, LaterSame DEF Opens, Good, Synced
<1>5. Paid'
  <2>1. Paid /\ \A i \in 1 .. Len(core) : core[i] \notin lost
    BY <1>1 DEF Opens, Reloads, Intact
  <2>2. dirty' = {} /\ lost' = lost /\ (Strict => lost = {})
    BY <1>2, <2>1 DEF Paid
  <2> QED
    BY <1>3, <2>1, <2>2 DEF Paid
<1>6. ASSUME ~soft
      PROVE  Readied'
  <2>1. Readied /\ Tip
    BY <1>1, <1>6 DEF Opens, Reloads, Serves
  <2>2. \A i \in 0 .. 1 : Named(acks[i])' /\ Named(acksFlushed[i])'
    <3>1. CASE Strict
      BY <1>2, <1>3, <2>1, <3>1 DEF Readied, Named
    <3>2. CASE ~Strict
      BY <1>2, <1>3, <2>1, <3>2 DEF Readied, Named
    <3> QED
      BY <3>1, <3>2
  <2>3. Level'
    <3> SUFFICES ASSUME ~Strict, Settled(wal, wal) = {}
                 PROVE  \A c, d \in Contents \cup {core} : Len(c) = Len(d)
      BY <1>2, <1>3 DEF Level
    <3>1. wal \in Seq(Cells) /\ Len(wal) \in Nat
      BY Facts DEF Good
    <3>2. Frames(wal) = {}
      BY <3>1, <1>1 DEF Settled, Legible, Frames, Sound
    <3>3. Len(core) = Len(Floor)
      BY <1>1, <2>1, <3>1, <3>2 DEF Tip, Kept, Frames
    <3>4. \A n \in Bases : Len(core) <= n
      BY <1>1, <1>6, <2>1, <3>2, <3>3, SlotsLevel
    <3>5. \A c \in Contents : Len(c) \in Nat /\ Len(c) <= Len(core) /\ Len(c) \in Bases
      BY <1>1, BasesAre, PendingIs DEF Good, Pending
    <3>6. Len(core) \in Nat
      BY Facts DEF Good
    <3>7. \A c \in Contents \cup {core} : Len(c) = Len(core)
      BY <3>4, <3>5, <3>6
    <3> QED
      BY <3>7
  <2> QED
    BY <1>2, <1>3, <2>1, <2>2, <2>3 DEF Readied, Tailed, Staged
<1> QED
  BY <1>2, <1>4, <1>5, <1>6 DEF Opens

LEMMA ResetOpens ==
  ASSUME Good, Reloads, Opens, Reset
  PROVE  Opens'
<1>1. cp.stage = "reset"
  BY DEF Reset
<1>2. phase = "open" /\ core = cp.core /\ ~Busy /\ latest.seq <= Len(core) /\ Len(core) \in Nat /\ latest.seq \in Nat
  BY <1>1, InCheckpoint, Facts DEF Good, Checkpoint
<1>3. /\ wal' = << >> /\ cp' = [cp EXCEPT !.stage = "emptied"]
      /\ UNCHANGED <<walFlushed, slots, slotsFlushed, acks, acksFlushed, dirty, lost, phase, latest, op, durability, soft>>
  BY DEF Reset, countVars, historyVars
<1>4. Bases' = Bases /\ Strict' = Strict /\ Pending' = Pending
  <2>1. cp'.core = cp.core /\ cp'.stage = "emptied"
    BY <1>3, CpIs DEF Good, CheckpointStages
  <2> QED
    BY <1>1, <1>3, <2>1 DEF Pending, Contents, Cores, Bases, Hollow, Strict
<1>5. Later' /\ Paid' /\ Synced'
  <2>1. op.stage # "flushed"
    BY <1>2 DEF Busy
  <2> QED
    BY <1>3, <1>4, <2>1, LaterSame DEF Opens, Good, Paid, Synced
<1>6. ASSUME ~soft
      PROVE  Readied'
  <2>1. Readied /\ \A c \in Pending : c = cp.core
    BY <1>1, <1>6, MirrorsLevel DEF Opens
  <2>2. \A n \in Bases : n = Len(core)
    BY <1>1, <1>2, <1>6, MirrorsLevel
  <2>3. \A i \in 0 .. 1 : Named(acks[i])' /\ Named(acksFlushed[i])'
    <3> TAKE i \in 0 .. 1
    <3>1. /\ acks[i].valid => acks[i].seq <= latest.seq /\ acks[i].seq \in Nat
          /\ acksFlushed[i].valid => acksFlushed[i].seq <= latest.seq /\ acksFlushed[i].seq \in Nat
      BY <1>2 DEF Opens, Later, Good, Types, AckContents
    <3>2. /\ acks[i].valid => \A n \in Bases : ~(n < acks[i].seq)
          /\ acksFlushed[i].valid => \A n \in Bases : ~(n < acksFlushed[i].seq)
      BY <1>2, <2>2, <3>1
    <3> QED
      BY <1>3, <1>4, <3>2 DEF Named
  <2>4. Linked(wal', Bases') /\ Tailed(wal)' /\ Staged'
    BY <1>3 DEF Linked, Legible, Frames, Tailed, Staged
  <2>5. Level'
    BY <1>4, <2>1 DEF Level
  <2> QED
    BY <1>3, <1>4, <2>1, <2>3, <2>4, <2>5 DEF Readied, Tailed
<1> QED
  BY <1>3, <1>5, <1>6 DEF Opens
--------------------------------------------------------------------------------
(***************************************************************************)
(* Recovery and power losses.                                              *)
(***************************************************************************)
LEMMA RecoverOpens ==
  ASSUME Good, Opens, Recover, wal' = TailCutOff, op = NoOp, cp = NoCheckpoint, ~AcksRefused,
         UNCHANGED <<walFlushed, slots, slotsFlushed, acks, acksFlushed, dirty, lost, op, cp, durability>>
  PROVE  Opens'
<1> DEFINE l == LastFrame(Replayed)
<1>0. Types /\ Past /\ OneLine /\ Paid /\ Later
  BY DEF Good, Opens
<1>1. wal \in Seq(Cells) /\ Len(wal) \in Nat /\ WholeCells \in 0 .. Len(wal) /\ Replayed \in 0 .. WholeCells
      /\ Len(walFlushed) \in Nat
  BY <1>0, Facts, WholeIs, ReplayedIs
<1>2. l \in 0 .. Replayed /\ l \in 0 .. Len(wal) /\ \A i \in FramesTo(Replayed) : i <= l
  BY <1>0, <1>1, LastFrameIs
<1>3. wal' \in Seq(Cells) /\ Len(wal') = l /\ \A i \in 1 .. l : wal'[i] = wal[i]
  BY <1>1, <1>2 DEF TailCutOff
<1> HIDE DEF l
<1>4. /\ Contents' = Contents /\ Bases' = Bases /\ Strict' = Strict /\ Pending' = Contents /\ Pending = Contents
      /\ \A i \in Frames(wal') : i <= l
  BY <1>1, <1>3 DEF Pending, Contents, Cores, Bases, Hollow, Strict, NoCheckpoint, Frames
<1>5. Later'
  <2>1. \A i \in 0 .. 1 : acks[i].seq <= LastAck.seq /\ acks[i].valid /\ acks[i].seq \in Nat /\ acksFlushed[i].seq \in Nat
    BY <1>0, LastAckIs DEF Types, AckContents
  <2>2. LastAck.seq \in Nat /\ latest' = LastAck
    BY <1>0, LastAckIs DEF Recover
  <2> QED
    BY <1>0, <2>1, <2>2 DEF Later
<1>6. Paid' /\ Synced' /\ (soft => soft')
  BY <1>0, <1>4 DEF Paid, Synced, NoOp, Recover
<1>7. CASE \A j \in Settled(wal, walFlushed) : j <= l
  <2>1. ~soft => Tailed(wal)'
    BY <1>1, <1>2, <1>3, <1>4 DEF Opens, Readied, Tailed
  <2>2. /\ Pending' \subseteq Pending /\ \A n \in Bases' : n \in Bases
        /\ l <= Len(wal') /\ walFlushed' \in Seq(Cells)
        /\ \A i \in 1 .. Len(wal') : i <= l
    BY <1>0, <1>1, <1>2, <1>3, <1>4 DEF Types
  <2> QED
    BY <1>2, <1>3, <1>4, <1>5, <1>6, <1>7, <2>1, <2>2, OpensStay
<1>8. ASSUME NEW j \in Settled(wal, walFlushed), ~(j <= l), ~soft
      PROVE  Readied'
  <2>1. Readied
    BY <1>8 DEF Opens
  <2>2. /\ j \in FramesTo(WholeCells) /\ j \in 1 .. WholeCells /\ j <= Len(walFlushed)
        /\ \A i \in 1 .. j : wal[i] = walFlushed[i] /\ wal[i].k \in Whole
    BY <1>0, LegibleRead DEF Settled, Legible, FramesTo
  <2>3. j \notin FramesTo(Replayed)
    BY <1>2, <1>8
  <2>4. Unverified # {} /\ Unverified \subseteq FramesTo(WholeCells) /\ Unverified \in SUBSET Nat
    BY <1>0, <1>1, <2>2, <2>3, ReplayedIs DEF Unverified, FramesTo
  <2>5. PICK b \in Unverified : Replayed = b - 1
    <3>1. Min(Unverified) \in Unverified /\ Replayed = Min(Unverified) - 1
      BY <2>4, Least DEF Replayed
    <3> QED
      BY <3>1
  <2>6. b \in 1 .. WholeCells /\ wal[b].k = "frame" /\ wal[b].op \in lost /\ b <= j /\ b \in Legible(wal) /\ b \in Frames(wal)
    <3>1. b \in FramesTo(WholeCells) /\ wal[b].op \in lost
      BY <2>4, <2>5 DEF Unverified
    <3>2. b \in Legible(wal)
      BY <1>0, <3>1, LegibleRead
    <3>3. ~(j <= b - 1)
      BY <1>1, <2>2, <2>3, <2>5 DEF FramesTo
    <3> QED
      BY <1>1, <2>2, <3>1, <3>2, <3>3 DEF FramesTo, Legible
  <2>7. ~Strict
    BY <1>0, <2>6 DEF Paid
  <2>8. Linked(wal', Bases') /\ Linked(walFlushed', Bases')
    <3>1. \A i \in Legible(wal') : i <= Len(wal) /\ \A q \in 1 .. i : wal'[q] = wal[q]
      <4> TAKE i \in Legible(wal')
      <4>1. i \in Nat /\ i <= l
        BY <1>4 DEF Legible, Frames
      <4> QED
        BY <1>1, <1>2, <1>3, <4>1
    <3>2. Bases \in SUBSET Nat /\ \A n \in Bases : n <= n
      BY <1>0, BasesAre
    <3>3. Linked(wal', Bases)
      BY <1>1, <1>3, <2>1, <3>1, <3>2, LinkedLess DEF Readied
    <3> QED
      BY <1>4, <2>1, <3>3 DEF Readied
  <2>9. Tailed(wal)' /\ Tailed(walFlushed)' /\ Staged'
    BY <1>1, <1>2, <1>3, <1>4, <2>1, <2>7 DEF Readied, Tailed, Staged
  <2>10. \A i \in 0 .. 1 : Named(acks[i])' /\ Named(acksFlushed[i])'
    BY <1>4, <2>1, <2>7 DEF Readied, Named
  <2>11. Level'
    <3> SUFFICES ASSUME Settled(wal', walFlushed) = {}
                 PROVE  \A c, d \in Contents : Len(c) = Len(d)
      BY <1>4 DEF Level
    <3>1. \A i \in 1 .. b - 1 : wal[i].k # "frame"
      <4> SUFFICES ASSUME NEW i \in 1 .. b - 1, wal[i].k = "frame"
                   PROVE  FALSE
        OBVIOUS
      <4>1. i \in FramesTo(Replayed) /\ i <= l /\ i \in 1 .. j /\ \A q \in 1 .. i : q \in 1 .. j /\ q \in 1 .. l
        BY <1>1, <1>2, <2>2, <2>5, <2>6 DEF FramesTo
      <4>2. /\ i \in 1 .. Len(wal') /\ wal'[i].k = "frame" /\ i <= Len(walFlushed)
            /\ \A q \in 1 .. i : wal'[q].k \in Whole /\ wal'[q] = walFlushed[q]
        BY <1>1, <1>2, <1>3, <2>2, <4>1
      <4>3. i \in Settled(wal', walFlushed)
        BY <4>2 DEF Settled, Legible, Frames
      <4> QED
        BY <4>3
    <3>2. \A n \in Bases : wal[b].seq <= n + 1
      BY <2>1, <2>6, <3>1 DEF Readied, Linked
    <3>3. /\ wal[b].seq \in Nat \ {0} /\ Line(based, wal[b].op) \in Present
          /\ Len(Line(based, wal[b].op)) = wal[b].seq /\ Line(based, wal[b].op)[wal[b].seq] = wal[b].op
      BY <1>0, <2>6, FrameIs DEF Present
    <3>4. ASSUME NEW c \in Contents
          PROVE  Len(c) + 1 = wal[b].seq
      <4>1. Len(c) \in Nat /\ Len(c) \in Bases /\ Agree(c, Line(based, wal[b].op)) /\ \A i \in 1 .. Len(c) : c[i] \notin lost
        BY <1>0, <1>4, <3>3, BasesAre DEF OneLine, Paid
      <4>2. ~(wal[b].seq <= Len(c))
        BY <2>6, <3>3, <4>1 DEF Agree
      <4> QED
        BY <3>2, <3>3, <4>1, <4>2
    <3>5. \A c \in Contents : Len(c) \in Nat
      BY <1>0, DiskIs
    <3> QED
      BY <3>4, <3>5
  <2> QED
    BY <2>8, <2>9, <2>10, <2>11 DEF Readied
<1> QED
  BY <1>5, <1>6, <1>7, <1>8 DEF Opens

(* Cell by cell, what a power loss leaves of a log that it does not roll    *)
(* back to the last flush.                                                  *)
LEMMA WrittenCells ==
  ASSUME NEW w \in Seq(Cells), NEW f \in Seq(Cells), NEW v \in WrittenBack(w, f), v # f
  PROVE  /\ Len(v) \in Nat /\ Len(v) <= Len(w)
         /\ \A i \in 1 .. Len(v) : v[i] = w[i] \/ v[i] = Zero \/ (i = Len(v) /\ v[i] = Short)
         /\ \A i \in 1 .. Len(v) : i <= Common(w, f) => v[i] = w[i]
<1> DEFINE kept == Common(w, f)
           left(n, holes) == [i \in 1 .. n |-> IF i \in holes THEN Zero ELSE w[i]]
<1>1. kept \in 0 .. Len(w) /\ Len(w) \in Nat
  BY CommonAgrees
<1>2. \E n \in kept + 1 .. Len(w) : \E holes \in SUBSET (kept + 1 .. n) :
          v = left(n, holes) \/ v = [left(n, holes) EXCEPT ![n] = Short]
  BY DEF WrittenBack
<1> HIDE DEF kept
<1>3. PICK n \in kept + 1 .. Len(w) : \E holes \in SUBSET (kept + 1 .. n) :
          v = left(n, holes) \/ v = [left(n, holes) EXCEPT ![n] = Short]
  BY <1>2
<1>7. PICK holes \in SUBSET (kept + 1 .. n) : v = left(n, holes) \/ v = [left(n, holes) EXCEPT ![n] = Short]
  BY <1>3
<1>4. n \in Nat /\ n <= Len(w) /\ kept < n /\ \A i \in 1 .. kept : i # n /\ i \notin holes
  BY <1>1
<1>5. CASE v = left(n, holes)
  <2>1. Len(v) = n
    BY <1>4, <1>5
  <2> QED
    BY <1>1, <1>4, <1>5, <2>1 DEF kept
<1>6. CASE v = [left(n, holes) EXCEPT ![n] = Short]
  <2>1. Len(v) = n
    BY <1>4, <1>6
  <2>2. \A i \in 1 .. n : v[i] = IF i = n THEN Short ELSE IF i \in holes THEN Zero ELSE w[i]
    BY <1>4, <1>6
  <2> QED
    BY <1>1, <1>4, <2>1, <2>2 DEF kept
<1> QED
  BY <1>5, <1>6, <1>7

(* A strict log has one unflushed cell at most, unless finished operations  *)
(* rest on unflushed frames.                                                *)
LEMMA OneUnflushed ==
  ASSUME Good, Readied, Strict, ~UnflushedFrames
  PROVE  Len(wal) <= Common(wal, walFlushed) + 1
<1> DEFINE kept == Common(wal, walFlushed)
<1>1. wal \in Seq(Cells) /\ walFlushed \in Seq(Cells) /\ Len(wal) \in Nat /\ Len(walFlushed) \in Nat
  BY DEF Good, Types
<1>2. /\ kept \in 0 .. Len(wal)
      /\ \A p \in 0 .. Len(wal) : p <= Len(walFlushed) /\ (\A i \in 1 .. p : wal[i] = walFlushed[i]) => p <= kept
  BY <1>1, CommonIs
<1>3. \A i \in Frames(wal) : i > kept => wal[i].op = op.id
  BY <1>1 DEF UnflushedFrames, FramesTo, Frames
<1> HIDE DEF kept
<1>4. SUFFICES ASSUME kept + 1 < Len(wal)
               PROVE  FALSE
  BY <1>1, <1>2 DEF kept
<1>5. \A i \in 1 .. Len(wal) : i > kept => wal[i].k # "piece"
  <2> TAKE i \in 1 .. Len(wal)
  <2>1. wal[i].k = "piece" => i <= Len(walFlushed) /\ \A q \in 1 .. i : wal[q] = walFlushed[q]
    BY DEF Readied, Staged
  <2>2. wal[i].k = "piece" => i <= kept
    BY <1>1, <1>2, <2>1
  <2> QED
    BY <1>1, <1>2, <2>2
<1>6. /\ kept + 1 \in 1 .. Len(wal) - 1 /\ kept + 1 \in 1 .. Len(wal) /\ kept + 1 > kept
      /\ Len(wal) \in 1 .. Len(wal) /\ Len(wal) > kept
  BY <1>1, <1>2, <1>4
<1>7. wal[kept + 1].k \in {"frame", "piece", "zero", "short"} /\ wal[Len(wal)].k \in {"frame", "piece", "zero", "short"}
  <2>1. wal[kept + 1] \in Cells /\ wal[Len(wal)] \in Cells
    BY <1>1, <1>6, ElementOfSeq
  <2> QED
    BY <2>1 DEF Cells
<1>8. wal[kept + 1].k = "frame" /\ kept + 1 \in Frames(wal) /\ wal[kept + 1].op = op.id
  <2>1. wal[kept + 1].k # "short" /\ wal[kept + 1].k # "zero"
    BY <1>6 DEF Readied, Tailed
  <2>2. wal[kept + 1].k = "frame"
    BY <1>5, <1>6, <1>7, <2>1
  <2> QED
    BY <1>3, <1>6, <2>2 DEF Frames
<1>9. wal[kept + 1].op \in 1 .. made /\ wal[kept + 1].seq \in Nat /\ \A j \in Frames(wal) : kept + 1 < j => wal[kept + 1].seq < wal[j].seq
  BY <1>8, FrameIs DEF Good
<1>10. op.stage # "none"
  BY <1>8, <1>9 DEF Good, Operation, Busy, NoOp
<1>11. wal[Len(wal)].k = "frame" /\ Len(wal) \in Frames(wal) /\ wal[Len(wal)].op = op.id
  <2>1. wal[Len(wal)].k \in Whole
    BY <1>6, <1>10, InOperation DEF Sound
  <2>2. wal[Len(wal)].k = "frame"
    BY <1>5, <1>6, <2>1 DEF Whole
  <2> QED
    BY <1>3, <1>6, <2>2 DEF Frames
<1>12. wal[Len(wal)].seq = Place(based, op.id) /\ wal[kept + 1].seq = Place(based, op.id)
  BY <1>8, <1>11 DEF Good, OneLine, Logged
<1> QED
  BY <1>4, <1>9, <1>11, <1>12

LEMMA PowerLossOpens ==
  ASSUME Good, Reloads, Opens, PowerLoss
  PROVE  Opens'
<1>0. Types /\ Past /\ OneLine /\ Paid
  BY DEF Good, Opens
<1>1. /\ wal' \in WrittenBack(wal, walFlushed) /\ walFlushed' = wal'
      /\ slots' \in SlotOutcomes(slots, slotsFlushed, Torn) /\ slotsFlushed' = slots'
      /\ acks' \in SlotOutcomes(acks, acksFlushed, TornAck) /\ acksFlushed' = acks'
      /\ dirty' = {} /\ Forget /\ durability' = durability
  BY DEF PowerLoss
<1>2. PICK gone \in SUBSET dirty : lost' = lost \cup gone
  BY DEF PowerLoss
<1>3. wal \in Seq(Cells) /\ walFlushed \in Seq(Cells) /\ Len(wal) \in Nat /\ Len(walFlushed) \in Nat
  BY <1>0, Facts
<1>4. /\ wal' \in Seq(Cells) /\ Len(wal') \in Nat
      /\ \A p \in 0 .. Len(wal) : p <= Len(walFlushed) /\ (\A i \in 1 .. p : wal[i] = walFlushed[i])
                                  => p <= Len(wal') /\ \A i \in 1 .. p : wal'[i] = wal[i]
  BY <1>1, <1>3, WrittenIs
<1>5. /\ Torn \in SlotContents /\ Torn.state # "valid" /\ TornAck \in AckContents /\ ~TornAck.valid
  BY DEF Torn, TornAck, SlotContents, AckContents
<1>6. /\ slots \in [0 .. 1 -> SlotContents] /\ slotsFlushed \in [0 .. 1 -> SlotContents]
      /\ acks \in [0 .. 1 -> AckContents] /\ acksFlushed \in [0 .. 1 -> AckContents]
  BY <1>0 DEF Types
<1>7. slots' \in [0 .. 1 -> SlotContents] /\ \A i \in 0 .. 1 : slots'[i] \in {slots[i], slotsFlushed[i], Torn}
  BY <1>1, <1>5, <1>6, OutcomeIs
<1>8. \A i \in 0 .. 1 : slots[i] = slotsFlushed[i] => slots'[i] = slots[i]
  BY <1>1, <1>5, <1>6, OutcomeStays
<1>9. acks' \in [0 .. 1 -> AckContents] /\ \A i \in 0 .. 1 : acks'[i] \in {acks[i], acksFlushed[i], TornAck}
  BY <1>1, <1>5, <1>6, OutcomeIs
<1>10. phase' = "down" /\ cp'.stage = "none" /\ op'.stage # "flushed"
  BY <1>1, ForgottenIs DEF NoOp
<1>11. Contents' \subseteq Contents /\ Pending' \subseteq Pending /\ Strict' = Strict
  BY <1>1, <1>5, <1>7, <1>10 DEF Cores, Contents, Pending, Strict
<1>12. Later' /\ Synced'
  <2>1. \A i \in 0 .. 1 : acks'[i].seq \in Nat
    BY <1>9 DEF AckContents
  <2> QED
    BY <1>1, <1>10, <2>1 DEF Later, Synced
<1>13. Paid'
  BY <1>0, <1>1, <1>2, <1>11 DEF Paid
<1>14. ASSUME ~soft'
       PROVE  Readied'
  <2>1. Readied /\ ~soft /\ (Strict => ~UnflushedFrames)
    BY <1>14 DEF PowerLoss, Opens
  <2>2. \A n \in Bases' : n \in Bases
    <3>1. PICK n \in 0 .. 1, g \in Nat : Paired(n, g)
      BY <2>1 DEF Reloads, Twins
    <3>2. Hollow' => Hollow
      BY <1>1, <1>8, <3>1 DEF Paired, Hollow
    <3> QED
      BY <1>11, <3>2, BasesSame
  <2>3. Bases \in SUBSET Nat /\ Bases' \in SUBSET Nat /\ \A n \in Bases' : \E m \in Bases : m <= n
    <3>1. Bases \in SUBSET Nat /\ Bases' \in SUBSET Nat
      BY <1>0, <1>11, BasesNext
    <3>2. ASSUME NEW n \in Bases'
          PROVE  \E m \in Bases : m <= n
      <4>1. n \in Bases /\ n \in Nat /\ n <= n
        BY <2>2, <3>1
      <4> QED
        BY <4>1
    <3> QED
      BY <3>1, <3>2
  <2>4. wal' # walFlushed => /\ Len(wal') <= Len(wal)
                             /\ \A i \in 1 .. Len(wal') : wal'[i] = wal[i] \/ wal'[i] = Zero \/ (i = Len(wal') /\ wal'[i] = Short)
                             /\ \A i \in 1 .. Len(wal') : i <= Common(wal, walFlushed) => wal'[i] = wal[i]
    BY <1>1, <1>3, WrittenCells
  <2>5. Zero.k = "zero" /\ Short.k = "short"
    BY CellIs
  <2>6. Linked(wal', Bases')
    <3>1. CASE wal' = walFlushed
      <4>1. \A j \in Legible(walFlushed) : j <= Len(walFlushed) /\ \A q \in 1 .. j : walFlushed[q] = walFlushed[q]
        BY <1>3 DEF Legible, Frames
      <4> QED
        BY <1>3, <2>1, <2>3, <3>1, <4>1, LinkedLess DEF Readied
    <3>2. CASE wal' # walFlushed
      <4>1. \A j \in Legible(wal') : j <= Len(wal) /\ \A q \in 1 .. j : wal'[q] = wal[q]
        <5> TAKE j \in Legible(wal')
        <5>1. j \in 1 .. Len(wal') /\ j <= Len(wal) /\ \A q \in 1 .. j : q \in 1 .. Len(wal') /\ wal'[q].k \in Whole
          BY <1>3, <1>4, <2>4, <3>2 DEF Legible, Frames
        <5> QED
          BY <2>4, <2>5, <3>2, <5>1 DEF Whole
      <4> QED
        BY <1>3, <1>4, <2>1, <2>3, <4>1, LinkedLess DEF Readied
    <3> QED
      BY <3>1, <3>2
  <2>7. Tailed(wal)'
    <3>1. CASE wal' = walFlushed
      BY <1>11, <2>1, <3>1 DEF Readied, Tailed
    <3>2. CASE wal' # walFlushed
      <4> SUFFICES ASSUME NEW i \in 1 .. Len(wal') - 1
                   PROVE  wal'[i].k # "short" /\ (Strict => wal'[i].k # "zero")
        BY <1>11 DEF Tailed
      <4>1. i \in 1 .. Len(wal') /\ i # Len(wal') /\ i \in 1 .. Len(wal) - 1
        BY <1>3, <1>4, <2>4, <3>2
      <4>2. wal[i].k # "short" /\ (Strict => wal[i].k # "zero")
        BY <2>1, <4>1 DEF Readied, Tailed
      <4>3. wal'[i] = wal[i] \/ wal'[i] = Zero
        BY <2>4, <3>2, <4>1
      <4>4. Strict => wal'[i] = wal[i]
        <5>1. Common(wal, walFlushed) \in Nat
          BY <1>3, CommonAgrees
        <5>2. Strict => i <= Common(wal, walFlushed)
          BY <1>3, <2>1, <4>1, <5>1, OneUnflushed
        <5> QED
          BY <2>4, <3>2, <4>1, <5>2
      <4> QED
        BY <2>5, <4>2, <4>3, <4>4
    <3> QED
      BY <3>1, <3>2
  <2>8. Staged'
    BY <1>1 DEF Staged
  <2>9. \A j \in Settled(wal, walFlushed) : j \in Settled(wal', walFlushed') /\ wal'[j] = wal[j]
    <3> TAKE j \in Settled(wal, walFlushed)
    <3>1. /\ j \in 0 .. Len(wal) /\ j \in 1 .. Len(wal) /\ j <= Len(walFlushed) /\ wal[j].k = "frame"
          /\ \A i \in 1 .. j : wal[i] = walFlushed[i] /\ wal[i].k \in Whole
      BY <1>3 DEF Settled, Legible, Frames
    <3>2. j <= Len(wal') /\ \A i \in 1 .. j : wal'[i] = wal[i]
      BY <1>4, <3>1
    <3> QED
      BY <1>1, <1>4, <3>1, <3>2 DEF Settled, Legible, Frames
  <2>10. Linked(walFlushed', Bases') /\ Tailed(walFlushed)'
    BY <1>1, <2>6, <2>7 DEF Tailed
  <2>11. /\ \A i \in 0 .. 1 : acks'[i] \in {acks[i], acksFlushed[i]} \/ ~acks'[i].valid
         /\ \A i \in 0 .. 1 : acksFlushed'[i] \in {acks[i], acksFlushed[i]} \/ ~acksFlushed'[i].valid
    BY <1>1, <1>5, <1>9
  <2> QED
    BY <1>0, <1>1, <1>11, <2>1, <2>2, <2>6, <2>7, <2>8, <2>9, <2>10, <2>11, ReadiedStays
<1> QED
  BY <1>12, <1>13, <1>14 DEF Opens
--------------------------------------------------------------------------------
(***************************************************************************)
(* The invariant of recoveries that open.                                  *)
(***************************************************************************)
LEMMA InitOpens ==
  ASSUME Init
  PROVE  Opens
<1> USE DEF Init
<1>1. /\ Empty.state # "valid" /\ \A i \in 0 .. 1 : slots[i] = Empty /\ slotsFlushed[i] = Empty
      /\ Len(wal) = 0 /\ Len(walFlushed) = 0 /\ Frames(wal) = {} /\ Frames(walFlushed) = {}
  BY DEF Empty, Frames
<1>2. Contents = {} /\ Pending = {} /\ Hollow /\ Bases = {0}
  BY <1>1 DEF Contents, Cores, Pending, NoCheckpoint, Hollow, Bases
<1>3. \A i \in 0 .. 1 : acks[i].seq = 0 /\ acksFlushed[i].seq = 0
  BY DEF Ack
<1>4. Readied
  <2>1. Linked(wal, Bases) /\ Linked(walFlushed, Bases)
    BY <1>1 DEF Linked, Legible
  <2>2. Tailed(wal) /\ Tailed(walFlushed) /\ Staged
    BY <1>1 DEF Tailed, Staged
  <2>3. \A i \in 0 .. 1 : Named(acks[i]) /\ Named(acksFlushed[i])
    BY <1>2, <1>3 DEF Named
  <2> QED
    BY <1>2, <2>1, <2>2, <2>3 DEF Readied, Level
<1>5. Paid /\ Synced
  BY <1>2 DEF Paid, Synced, NoOp
<1>6. Later
  BY <1>3 DEF Later, Ack
<1> QED
  BY <1>4, <1>5, <1>6 DEF Opens

LEMMA StutterOpens ==
  ASSUME Opens, UNCHANGED vars
  PROVE  Opens'
<1>1. UNCHANGED <<wal, walFlushed, slots, slotsFlushed, acks, acksFlushed, dirty, lost, phase, latest, op, cp, durability, soft>>
  BY DEF vars, fileVars, memoryVars, stepVars, countVars, historyVars
<1>2. Contents' = Contents /\ Pending' = Pending /\ Strict' = Strict /\ Hollow' = Hollow /\ Bases' = Bases
  BY <1>1 DEF Contents, Cores, Pending, Strict, Hollow, Bases
<1>3. \A a : Named(a)' = Named(a)
  BY <1>1, <1>2 DEF Named
<1>4. Readied => Readied'
  <2> SUFFICES ASSUME Readied PROVE Readied'
    OBVIOUS
  <2>1. Linked(wal', Bases') /\ Linked(walFlushed', Bases')
    BY <1>1, <1>2 DEF Readied
  <2>2. Tailed(wal)' /\ Tailed(walFlushed)'
    BY <1>1, <1>2 DEF Readied, Tailed
  <2>3. (\A i \in 0 .. 1 : Named(acks[i]) /\ Named(acksFlushed[i]))'
    BY <1>1, <1>2 DEF Readied, Named, Settled, Legible
  <2>4. Staged' /\ Level'
    BY <1>1, <1>2 DEF Readied, Staged, Level, Settled, Legible
  <2> QED
    BY <2>1, <2>2, <2>3, <2>4 DEF Readied
<1>5. Paid' = Paid /\ Later' = Later /\ Synced' = Synced
  BY <1>1, <1>2 DEF Paid, Later, Synced
<1> QED
  BY <1>1, <1>4, <1>5 DEF Opens

(* What holds of the files until recovery refuses them, and of the refusal. *)
Owes == (phase # "refused" => Opens) /\ RecoveryOpens

(* A recovery that is refused was refused for one of the reasons.           *)
LEMMA AgainOpens ==
  ASSUME Good, Reloads, Opens, Open \/ Reload
  PROVE  Owes'
<1>1. phase \in {"open", "down"} /\ op = NoOp /\ cp = NoCheckpoint
  BY DEF Open, Reload, Good, Operation
<1>2. UNCHANGED <<walFlushed, slots, slotsFlushed, acks, acksFlushed, dirty, lost, op, cp, durability, promised>>
  BY DEF Open, Reload, stepVars, countVars
<1>3. CASE RecoveryRefused
  <2>1. phase' = "refused" /\ soft' = soft
    BY <1>3 DEF Open, Reload, Refuse
  <2>2. AcksRefused' = AcksRefused
    BY <1>2 DEF AcksRefused
  <2>3. SUFFICES ASSUME promised # {}, ~AcksRefused, ~soft
                 PROVE  FALSE
    BY <1>2, <2>1, <2>2 DEF Owes, RecoveryOpens
  <2>4. PICK o : o \in promised
    BY <2>3
  <2>5. Valid = {} => wal # << >>
    BY <1>1, <2>3, <2>4, PromisedThere
  <2> QED
    BY <1>3, <2>3, <2>5, OpensReads
<1>4. CASE ~RecoveryRefused
  <2>1. Recover /\ wal' = TailCutOff /\ ~AcksRefused /\ phase' = "open"
    BY <1>4 DEF Open, Reload, RecoveryRefused, Recover
  <2>2. Opens'
    BY <2>1, <1>1, <1>2, RecoverOpens
  <2> QED
    BY <2>1, <2>2 DEF Owes, RecoveryOpens
<1> QED
  BY <1>3, <1>4

LEMMA NextOpens ==
  ASSUME Inv, Same, Owes, Next
  PROVE  Owes'
<1>0. Good /\ Reloads /\ Opens /\ phase # "refused"
  BY NextGood DEF Same, Owes
<1>1. CASE Open \/ Reload
  BY <1>0, <1>1, AgainOpens
<1>2. SUFFICES ASSUME ~(Open \/ Reload)
               PROVE  Opens' /\ phase' # "refused"
  BY <1>1 DEF Owes, RecoveryOpens
<1>3. phase' # "refused"
  BY <1>0, <1>2 DEF Next, LogFlushed, LogUnflushed, Stage, Complete, Unstage, AppendFails, FlushFrame, FrameFails, PublishFrame,
     Acknowledge, PublishFails, BeginCheckpoint, TearSlot, WriteSlot, FlushSlot, Mirrored, FlushBoundary, Reset, FlushReset,
     CheckpointFails, Shutdown, TabDies, PowerLoss, Forget, memoryVars
<1>4. CASE LogFlushed
  BY <1>0, <1>3, <1>4, LogFlushedOpens
<1>5. CASE FlushFrame
  BY <1>0, <1>3, <1>5, FlushFrameOpens
<1>6. CASE PublishFrame
  BY <1>0, <1>3, <1>6, PublishFrameOpens
<1>7. CASE Acknowledge
  BY <1>0, <1>3, <1>7, AcknowledgeOpens
<1>8. CASE Stage
  BY <1>0, <1>3, <1>8, StageOpens
<1>9. CASE Complete
  BY <1>0, <1>3, <1>9, CompleteOpens
<1>10. CASE Unstage
  BY <1>0, <1>3, <1>10, UnstageOpens
<1>11. ASSUME NEW payload \in BOOLEAN, LogUnflushed(payload)
      PROVE  Opens'
  BY <1>0, <1>11, LogUnflushedOpens
<1>12. ASSUME NEW cut \in BOOLEAN, AppendFails(cut)
      PROVE  Opens'
  BY <1>0, <1>12, AppendFailsOpens
<1>13. ASSUME NEW keep, FrameFails(keep)
      PROVE  Opens'
  BY <1>0, <1>13, FrameFailsOpens
<1>14. ASSUME NEW torn \in BOOLEAN, PublishFails(torn)
      PROVE  Opens'
  BY <1>0, <1>14, PublishFailsOpens
<1>15. ASSUME NEW closing \in BOOLEAN, BeginCheckpoint(closing)
      PROVE  Opens'
  BY <1>0, <1>15, BeginCheckpointOpens
<1>16. CASE TearSlot
  BY <1>0, <1>3, <1>16, TearSlotOpens
<1>17. CASE WriteSlot
  BY <1>0, <1>3, <1>17, WriteSlotOpens
<1>18. CASE FlushSlot
  BY <1>0, <1>3, <1>18, FlushSlotOpens
<1>19. CASE Mirrored
  BY <1>0, <1>3, <1>19, MirroredOpens
<1>20. CASE FlushBoundary
  BY <1>0, <1>3, <1>20, FlushBoundaryOpens
<1>21. CASE Reset
  BY <1>0, <1>3, <1>21, ResetOpens
<1>22. CASE FlushReset
  BY <1>0, <1>3, <1>22, EndedOpens
<1>23. CASE CheckpointFails
  BY <1>0, <1>3, <1>23, EndedOpens
<1>24. CASE Shutdown
  BY <1>0, <1>3, <1>24, ShutdownOpens
<1>25. CASE PowerLoss
  BY <1>0, <1>3, <1>25, PowerLossOpens
<1>26. ASSUME NEW short \in BOOLEAN, NEW torn \in BOOLEAN, TabDies(short, torn)
       PROVE  Opens'
  BY <1>0, <1>26, TabDiesStep, TabDiesOpens
<1> QED
  BY <1>2, <1>3, <1>4, <1>5, <1>6, <1>7, <1>8, <1>9, <1>10, <1>11, <1>12, <1>13, <1>14, <1>15, <1>16, <1>17, <1>18,
     <1>19, <1>20, <1>21, <1>22, <1>23, <1>24, <1>25, <1>26 DEF Next

(* The files stay such that recovery opens them.                            *)
THEOREM StaysOpen == Spec => [](Inv /\ Same /\ Owes)
<1>1. Init => Owes
  BY InitOpens DEF Owes, RecoveryOpens, Init
<1>2. Inv /\ Same /\ Owes /\ [Next]_vars => Owes'
  <2> SUFFICES ASSUME Inv, Same, Owes, [Next]_vars PROVE Owes'
    OBVIOUS
  <2>1. ASSUME UNCHANGED vars PROVE Owes'
    <3>1. phase' = phase /\ promised' = promised /\ acks' = acks /\ soft' = soft
      BY <2>1 DEF vars, fileVars, memoryVars, historyVars
    <3>2. RecoveryOpens'
      BY <3>1 DEF Owes, RecoveryOpens, AcksRefused
    <3> QED
      BY <2>1, <3>1, <3>2, StutterOpens DEF Owes
  <2>2. ASSUME Next PROVE Owes'
    BY <2>2, NextOpens
  <2> QED
    BY <2>1, <2>2
<1> QED
  BY <1>1, <1>2, StaysSame, PTL DEF Spec

(* Recovery (#loadFromDisk) refuses a database that owes somebody an        *)
(* operation only when a stamp of the acknowledgement file is damaged, or   *)
(* when a leader had gone on from bytes that a power loss could still take. *)
THEOREM RecoveriesOpen == Spec => []RecoveryOpens
<1>1. Owes => RecoveryOpens
  BY DEF Owes
<1> QED
  BY <1>1, StaysOpen, PTL

LEMMA ReloadSame ==
  ASSUME Good, Reloads, Opens, Idle, ~soft, core # << >>, ~AcksRefused
  PROVE  ~RecoveryRefused /\ RecoveredCore = core /\ LastFrame(Replayed) = end
<1>1. phase = "open" /\ ~poisoned
  BY DEF Idle
<1>2. ~RecoveryRefused
  <2> SUFFICES ASSUME Valid = {}, wal = << >>
               PROVE  FALSE
    BY OpensReads
  <2>1. newest \in 0 .. 1 /\ op.stage = "none" /\ core \in Seq(Nat)
    BY Facts DEF Idle, Busy, Good, Types
  <2>2. Floor = << >>
    BY <2>1 DEF Valid, Floor
  <2>3. Len(core) = 0
    BY <1>1, <2>1, <2>2 DEF Reloads, Serves, Tip, Kept
  <2> QED
    BY <2>1, <2>3
<1>3. /\ op.stage = "none" /\ Len(wal) = end /\ end \in Nat /\ Replayed = end /\ LastFrame(end) = end
      /\ Base \in Seq(Nat) /\ Begins(Base, core) /\ Len(Base) \in Nat /\ Len(Floor) \in Nat /\ Len(Floor) <= Len(Base)
      /\ Len(Base) <= Len(core)
  BY ReloadReads
<1>4. /\ RecoveredCore \in Seq(Nat) /\ RecoveredCore \in Present \cup {<< >>} /\ Begins(Base, RecoveredCore)
      /\ \A i \in FramesTo(Replayed) : Begins(Line(based, wal[i].op), RecoveredCore)
  BY <1>2, RecoveredIs DEF Good, RecoveryRefused
<1>5. core \in Seq(Nat) /\ Len(core) \in Nat
  BY <1>1, Facts DEF Good, Memory
<1>6. Begins(RecoveredCore, core)
  <2>1. Begins(<< >>, core)
    BY <1>5 DEF Begins
  <2> QED
    BY <1>1, <1>4, <2>1 DEF Good, Memory
<1>7. Tip /\ Kept = end
  BY <1>1, <1>3 DEF Reloads, Serves, Kept
<1>8. Len(core) <= Len(RecoveredCore)
  <2>1. CASE end = 0
    BY <1>3, <1>4, <1>5, <1>7, <2>1 DEF Tip, Begins
  <2>2. CASE end # 0
    <3>1. end \in FramesTo(Replayed) /\ end \in Frames(wal) /\ wal[end].seq = Len(core)
      BY <1>3, <1>7, <2>2 DEF Tip, FramesTo, Frames
    <3>2. Len(Line(based, wal[end].op)) = Len(core)
      BY <3>1, FrameIs DEF Good
    <3> QED
      BY <1>4, <3>1, <3>2 DEF Begins
  <2> QED
    BY <2>1, <2>2
<1>9. RecoveredCore = core
  BY <1>4, <1>5, <1>6, <1>8, SameLength
<1> QED
  BY <1>2, <1>3, <1>9

(* A leader that serves and closes its files finds them again as it left    *)
(* them (#loadFromDisk): no recovery of an idle log with whole stamps is    *)
(* refused, or differs from the core and the end that were in memory.       *)
THEOREM ReloadsAreIdentity == Spec => []ReloadIsIdentity
<1>1. Inv /\ Same /\ Owes => ReloadIsIdentity
  <2> SUFFICES ASSUME Inv, Same, Owes, Idle, core # << >>, ~AcksRefused, ~soft
               PROVE  ~RecoveryRefused /\ RecoveredCore = core /\ LastFrame(Replayed) = end
    BY DEF ReloadIsIdentity
  <2>1. Good /\ Reloads /\ Opens
    BY DEF Idle, Inv, Good, Same, Owes
  <2> QED
    BY <2>1, ReloadSame
<1> QED
  BY <1>1, StaysOpen, PTL
================================================================================
