------------------------- MODULE ServedRequestsProofs -------------------------
(***************************************************************************)
(* Proofs about ServedRequests for any tabs and requests, any number of    *)
(* leaderships, timeouts and ticks, and whichever tabs are crowded, die or *)
(* close.                                                                  *)
(***************************************************************************)
EXTENDS ServedRequests, FiniteSetTheorems, SequenceTheorems, WellFoundedInduction, TLAPS

(* What a sequence holds. *)
In(s) == {s[i] : i \in 1 .. Len(s)}

(***************************************************************************)
(* The invariant.                                                          *)
(***************************************************************************)
(* A tab that leads holds the handles of the last term; one that stepped    *)
(* down keeps them until its shutdown.  A tab does not send to itself.      *)
Leads ==
    /\ holder # Nobody => terms # <<>>
    /\ \A t \in Tabs :
          /\ leading[t] # 0 => mode[t] = "up" /\ holder = t /\ leading[t] = Len(terms)
          /\ \A x \in In(queue[t]) : x.kind = "shutdown" => holder = t /\ leading[t] = 0
          /\ mode[t] = "up" /\ leading[t] = 0 => known[t] # t

(* How far a call is against what it sent and was told. *)
Calls ==
    \A r \in Requests :
        /\ call[r].pc = "new" => ~call[r].sentRemotely
        /\ call[r].pc = "pending" => call[r].sentRemotely
        /\ call[r].told # "none" => call[r].pc = "told"

(* What the messages to a tab say, given the calls and what was executed.   *)
GoodMessage(t, m, calls, done) ==
    /\ m.kind = "op" => m.request \in Requests /\ From[m.request] # t /\ calls[m.request].sentRemotely
    /\ m.kind = "leader" => m.tab \in Tabs \ {t}
    /\ m.kind = "ok" => m.request \in Requests /\ done[m.request] = 1

Mail == \A t \in Tabs : \A m \in In(inbox[t]) : GoodMessage(t, m, call, executed)

(* The deliveries and the turns of a tab: a request that is served is another *)
(* tab's and its delivery waits for it; one that runs here is this tab's.     *)
GoodDelivery(t, d, calls, n) ==
    /\ From[d.request] # t /\ calls[d.request].sentRemotely
    /\ d.term <= n /\ (d.phase # "lock" => d.term # 0)

GoodTurn(t, x, taken, calls, done, n) ==
    /\ x.term <= n
    /\ IF x.kind = "shutdown" THEN x.request = Nobody ELSE x.request \in Requests
    /\ x.kind = "serve" =>
          /\ From[x.request] # t /\ calls[x.request].sentRemotely
          /\ \E d \in taken : d.request = x.request /\ d.phase = "run"
          /\ x.applied => done[x.request] = 1
    /\ x.kind = "local" => From[x.request] = t /\ calls[x.request].pc = "local" /\ ~x.applied

Distinct(q) ==
    \A i, j \in 1 .. Len(q) : q[i].kind = q[j].kind /\ q[i].request = q[j].request => i = j

Work ==
    \A t \in Tabs :
        /\ \A d \in In(serving[t]) : GoodDelivery(t, d, call, Len(terms))
        /\ \A x \in In(queue[t]) : GoodTurn(t, x, In(serving[t]), call, executed, Len(terms))
        /\ Distinct(queue[t])

(* The log of a term says that a request ran, or that it cannot tell.       *)
AnswersFor(n, r) == Logged(n, r) \/ call[r].sentAt < terms[n].coverage

(* A request may still come to be looked at by a leader. *)
Reaches(t, r) ==
    \/ \E m \in In(inbox[t]) : m.kind = "op" /\ m.request = r
    \/ \E d \in In(serving[t]) :
          d.request = r /\ (d.phase = "lock" \/ (d.phase = "check" /\ d.term = leading[t]))

(* What ran once does not run again: the log answers for it, or its caller  *)
(* ran it itself, was told, and no leader will look at it any more.  What   *)
(* has a turn of this leader did not run.                                   *)
Once ==
    \A r \in Requests :
        /\ executed[r] <= 1
        /\ executed[r] = 1 =>
              /\ call[r].sentRemotely \/ call[r].told = "ok"
              /\ \/ terms # <<>> /\ AnswersFor(Len(terms), r)
                 \/ call[r].pc = "told" /\ \A t \in Tabs : leading[t] # 0 => ~Reaches(t, r)
        /\ \A t \in Tabs : \A x \in In(queue[t]) :
              /\ leading[t] # 0 /\ x.term = leading[t] /\ ~x.applied
              /\ x.kind # "shutdown" /\ x.request = r
              => executed[r] = 0

(* What a log, a memory or a caller takes for done was executed. *)
Entries == UNION {In(terms[i].ledger) : i \in 1 .. Len(terms)}
Truth ==
    /\ \A e \in Entries : executed[e.key] = 1 /\ e.sentAt = call[e.key].sentAt
    /\ \A t \in Tabs, r \in Requests : remembered[t][r] = "ok" => executed[r] = 1
    /\ \A r \in Requests : call[r].told = "ok" => executed[r] = 1

(* The inductive invariant. *)
Inv == TypeOK /\ Leads /\ Calls /\ Mail /\ Work /\ Once /\ Truth
-------------------------------------------------------------------------------
(***************************************************************************)
(* Sequences.                                                              *)
(***************************************************************************)
(* A nonempty set of naturals has a least element. *)
LEMMA Least ==
  ASSUME NEW I \in SUBSET Nat, I # {}
  PROVE  \E x \in I : \A y \in I : x <= y
<1>1. PICK x \in I : \A y \in I : <<y, x>> \notin OpToRel(<, Nat)
  BY WFMin, NatLessThanWellFounded, Zenon
<1>2. \A y \in I : ~(y < x)
  BY <1>1, Zenon DEF OpToRel
<1> QED
  BY <1>2

(* A bounded set of naturals has a greatest element. *)
LEMMA Greatest ==
  ASSUME NEW n \in Nat, NEW I \in SUBSET (0 .. n), I # {}
  PROVE  Max(I) \in I /\ \A y \in I : y <= Max(I)
<1> DEFINE J == {n - y : y \in I}
<1>1. J \in SUBSET Nat /\ J # {}
  <2>1. \A y \in 0 .. n : n - y \in Nat
    OBVIOUS
  <2> QED
    BY <2>1
<1>2. PICK z \in J : \A y \in J : z <= y
  <2> HIDE DEF J
  <2> QED
    BY <1>1, Least
<1>3. PICK x \in I : z = n - x
  BY <1>2
<1>4. \A y \in I : n - x <= n - y
  BY <1>2, <1>3
<1>5. \A y \in I : y \in 0 .. n
  OBVIOUS
<1>6. \A y \in I : x >= y
  BY <1>4, <1>5
<1> QED
  BY <1>5, <1>6 DEF Max

(* What a sequence over a set holds is in it. *)
LEMMA Held ==
  ASSUME NEW S, NEW s \in Seq(S)
  PROVE  In(s) \subseteq S
BY ElementOfSeq DEF In

(* Concatenation of messages. *)
LEMMA Concatenated ==
  ASSUME NEW S, NEW s \in Seq(S), NEW e \in Seq(S)
  PROVE  s \o e \in Seq(S) /\ In(s \o e) = In(s) \cup In(e)
<1>1. /\ s \o e \in Seq(S) /\ Len(s \o e) = Len(s) + Len(e) /\ Len(s) \in Nat /\ Len(e) \in Nat
      /\ \A i \in 1 .. Len(s) + Len(e) : (s \o e)[i] = IF i <= Len(s) THEN s[i] ELSE e[i - Len(s)]
  BY ConcatProperties
<1>2. In(s \o e) \subseteq In(s) \cup In(e)
  <2>1. ASSUME NEW i \in 1 .. Len(s) + Len(e), i > Len(s)
        PROVE  i - Len(s) \in 1 .. Len(e)
    BY <1>1, <2>1
  <2> QED
    BY <1>1, <2>1 DEF In
<1>3. In(s) \subseteq In(s \o e)
  <2>1. ASSUME NEW i \in 1 .. Len(s)
        PROVE  i \in 1 .. Len(s) + Len(e) /\ (s \o e)[i] = s[i]
    BY <1>1
  <2> QED
    BY <1>1, <2>1 DEF In
<1>4. In(e) \subseteq In(s \o e)
  <2>1. ASSUME NEW i \in 1 .. Len(e)
        PROVE  i + Len(s) \in 1 .. Len(s) + Len(e) /\ (s \o e)[i + Len(s)] = e[i]
    BY <1>1
  <2> QED
    BY <1>1, <2>1 DEF In
<1> QED
  BY <1>1, <1>2, <1>3, <1>4

(* Appending one message, turn or delivery. *)
LEMMA Appended ==
  ASSUME NEW S, NEW s \in Seq(S), NEW x \in S
  PROVE  /\ Append(s, x) \in Seq(S) /\ In(Append(s, x)) = In(s) \cup {x}
         /\ Len(Append(s, x)) = Len(s) + 1
         /\ \A i \in 1 .. Len(s) : Append(s, x)[i] = s[i]
         /\ Append(s, x)[Len(s) + 1] = x
<1>1. /\ Append(s, x) \in Seq(S) /\ Len(Append(s, x)) = Len(s) + 1 /\ Len(s) \in Nat
      /\ \A i \in 1 .. Len(s) : Append(s, x)[i] = s[i]
      /\ Append(s, x)[Len(s) + 1] = x
  BY AppendProperties
<1>2. \A i \in 1 .. Len(s) + 1 : i \in 1 .. Len(s) \/ i = Len(s) + 1
  BY <1>1
<1>3. \A i \in 1 .. Len(s) : i \in 1 .. Len(s) + 1
  BY <1>1
<1>4. Len(s) + 1 \in 1 .. Len(s) + 1
  BY <1>1
<1> QED
  BY <1>1, <1>2, <1>3, <1>4 DEF In

(* One message alone. *)
LEMMA Alone ==
  ASSUME NEW S, NEW x \in S
  PROVE  <<x>> \in Seq(S) /\ In(<<x>>) = {x} /\ Len(<<x>>) = 1
<1>1. <<x>> \in Seq(S) /\ Len(<<x>>) = 1 /\ <<x>>[1] = x
  OBVIOUS
<1>2. 1 .. 1 = {1}
  OBVIOUS
<1> QED
  BY <1>1, <1>2 DEF In

(* The rest of a queue. *)
LEMMA Headed ==
  ASSUME NEW S, NEW s \in Seq(S), s # <<>>
  PROVE  /\ Tail(s) \in Seq(S) /\ Len(Tail(s)) = Len(s) - 1 /\ Len(s) \in Nat \ {0}
         /\ Head(s) \in S /\ Head(s) = s[1] /\ Head(s) \in In(s)
         /\ \A i \in 1 .. Len(Tail(s)) : Tail(s)[i] = s[i + 1] /\ i + 1 \in 1 .. Len(s)
         /\ In(Tail(s)) \subseteq In(s)
<1>1. /\ Tail(s) \in Seq(S) /\ Len(Tail(s)) = Len(s) - 1 /\ Head(s) \in S /\ Head(s) = s[1]
      /\ Len(s) \in Nat /\ Len(s) # 0
      /\ \A i \in 1 .. Len(Tail(s)) : Tail(s)[i] = s[i + 1]
  BY HeadTailProperties, EmptySeq
<1>2. \A i \in 1 .. Len(Tail(s)) : i + 1 \in 1 .. Len(s)
  BY <1>1
<1>3. 1 \in 1 .. Len(s)
  BY <1>1
<1> QED
  BY <1>1, <1>2, <1>3 DEF In

(* The function that Without is defined by, up to N. *)
Step(g, s, gone, n) ==
    IF n = 0 THEN <<>> ELSE IF n \in gone THEN g[n - 1] ELSE Append(g[n - 1], s[n])
IsKept(g, s, gone, N) == g = [n \in 0 .. N |-> Step(g, s, gone, n)]

(* It exists: a shorter one is continued by one step. *)
LEMMA KeptExists ==
  ASSUME NEW s, NEW gone, NEW L \in Nat
  PROVE  \E g : IsKept(g, s, gone, L)
<1> DEFINE I == {N \in Nat : ~ \E g : IsKept(g, s, gone, N)}
<1> SUFFICES ASSUME I # {} PROVE FALSE
  OBVIOUS
<1>1. PICK N \in I : \A y \in I : N <= y
  <2> I \in SUBSET Nat
    OBVIOUS
  <2> HIDE DEF I
  <2> QED
    BY Least
<1>2. N \in Nat /\ ~ \E g : IsKept(g, s, gone, N)
  BY <1>1
<1>3. CASE N = 0
  <2> DEFINE g == [n \in 0 .. 0 |-> <<>>]
  <2>1. IsKept(g, s, gone, 0)
    BY DEF IsKept, Step
  <2> QED
    BY <1>2, <1>3, <2>1
<1>4. CASE N # 0
  <2>1. N - 1 \in Nat /\ N - 1 \notin I
    BY <1>1, <1>2, <1>4
  <2>2. PICK g : IsKept(g, s, gone, N - 1)
    BY <2>1
  <2> DEFINE h == [n \in 0 .. N |-> IF n = N THEN Step(g, s, gone, N) ELSE g[n]]
  <2>3. \A n \in 0 .. N - 1 : g[n] = Step(g, s, gone, n)
    BY <2>2 DEF IsKept
  <2>4. \A n \in 0 .. N - 1 : n \in 0 .. N /\ n # N
    BY <1>2
  <2>5. \A n \in 0 .. N - 1 : h[n] = g[n]
    BY <2>4
  <2>6. \A n \in 0 .. N : n # 0 => n - 1 \in 0 .. N - 1
    BY <1>2
  <2>7. \A n \in 0 .. N : Step(g, s, gone, n) = Step(h, s, gone, n)
    <3> HIDE DEF h
    <3> QED
      BY <2>5, <2>6 DEF Step
  <2>8. \A n \in 0 .. N : n = N \/ n \in 0 .. N - 1
    BY <1>2
  <2>9. \A n \in 0 .. N : h[n] = Step(h, s, gone, n)
    <3>1. h[N] = Step(g, s, gone, N)
      BY <1>2
    <3> HIDE DEF h
    <3> QED
      BY <2>3, <2>5, <2>7, <2>8, <3>1
  <2>10. h = [n \in 0 .. N |-> h[n]]
    OBVIOUS
  <2>11. IsKept(h, s, gone, N)
    <3> HIDE DEF h
    <3> QED
      BY <2>9, <2>10 DEF IsKept
  <2> QED
    BY <1>2, <2>11
<1> QED
  BY <1>3, <1>4

(* Without keeps exactly the other positions. *)
LEMMA Remaining ==
  ASSUME NEW S, NEW s \in Seq(S), NEW gone
  PROVE  /\ Without(s, gone) \in Seq(S)
         /\ In(Without(s, gone)) = {s[i] : i \in (1 .. Len(s)) \ gone}
<1> DEFINE L == Len(s)
           kept == CHOOSE g : IsKept(g, s, gone, L)
<1>1. L \in Nat
  BY LenProperties
<1>2. IsKept(kept, s, gone, L)
  <2> HIDE DEF L
  <2> QED
    BY <1>1, KeptExists
<1>3. Without(s, gone) = kept[L]
  BY DEF Without, IsKept, Step
<1> HIDE DEF kept
<1>4. \A n \in 0 .. L : kept[n] = Step(kept, s, gone, n)
  BY <1>2 DEF IsKept
<1> DEFINE Right(n) == /\ kept[n] \in Seq(S)
                       /\ In(kept[n]) = {s[i] : i \in (1 .. n) \ gone}
           I == {n \in 0 .. L : ~Right(n)}
<1>5. I = {}
  <2> SUFFICES ASSUME I # {} PROVE FALSE
    OBVIOUS
  <2>1. PICK n \in I : \A y \in I : n <= y
    <3>1. I \in SUBSET Nat
      BY <1>1
    <3> HIDE DEF I
    <3> QED
      BY <3>1, Least
  <2>2. n \in 0 .. L /\ ~Right(n) /\ n \in Nat
    BY <2>1, <1>1
  <2>3. CASE n = 0
    <3>1. kept[0] = <<>> /\ (1 .. 0) \ gone = {}
      BY <2>2, <2>3, <1>4 DEF Step
    <3>2. <<>> \in Seq(S) /\ In(<<>>) = {}
      BY DEF In
    <3> QED
      BY <2>2, <2>3, <3>1, <3>2
  <2>4. CASE n # 0
    <3>1. n - 1 \in 0 .. L /\ n \in 1 .. L /\ n - 1 \in Nat
      BY <2>2, <2>4, <1>1
    <3>2. Right(n - 1)
      <4>1. n - 1 \notin I
        <5>1. ~(n <= n - 1)
          BY <2>2
        <5> HIDE DEF I
        <5> QED
          BY <2>1, <5>1
      <4> QED
        BY <3>1, <4>1
    <3>3. 1 .. n = (1 .. n - 1) \cup {n}
      BY <2>2, <2>4
    <3>4. CASE n \in gone
      <4>1. kept[n] = kept[n - 1]
        BY <2>2, <2>4, <3>4, <1>4 DEF Step
      <4>2. (1 .. n) \ gone = (1 .. n - 1) \ gone
        BY <3>3, <3>4
      <4> QED
        BY <2>2, <3>2, <4>1, <4>2
    <3>5. CASE n \notin gone
      <4>1. kept[n] = Append(kept[n - 1], s[n])
        BY <2>2, <2>4, <3>5, <1>4 DEF Step
      <4>2. (1 .. n) \ gone = ((1 .. n - 1) \ gone) \cup {n}
        BY <3>3, <3>5
      <4>3. s[n] \in S
        BY <3>1, ElementOfSeq
      <4>4. kept[n] \in Seq(S) /\ In(kept[n]) = In(kept[n - 1]) \cup {s[n]}
        BY <3>2, <4>1, <4>3, Appended
      <4>5. {s[i] : i \in (1 .. n) \ gone} = {s[i] : i \in (1 .. n - 1) \ gone} \cup {s[n]}
        BY <4>2
      <4> QED
        BY <2>2, <3>2, <4>4, <4>5
    <3> QED
      BY <3>4, <3>5
  <2> QED
    BY <2>3, <2>4
<1>6. Right(L)
  BY <1>1, <1>5, SMTT(30)
<1> QED
  BY <1>3, <1>6
-------------------------------------------------------------------------------
(***************************************************************************)
(* Messages and calls.                                                     *)
(***************************************************************************)
(* The messages are messages. *)
LEMMA MessageTypes ==
  /\ \A r \in Requests : From[r] \in Tabs /\ Op(r) \in Message
  /\ \A r \in Requests, kind \in Answers \cup {"declined"} : Reply(kind, r) \in Message
  /\ \A t \in Tabs, kind \in {"leader", "released"} : Notice(kind, t) \in Message
BY ServedRequestsAssumption DEF Message, Op, Reply, Notice

(* Posting adds messages to one tab's mail, if anything. *)
LEMMA PostedAllFacts ==
  ASSUME NEW boxes \in [Tabs -> Seq(Message)], NEW to \in Tabs, NEW kind, NEW ms \in Seq(Message)
  PROVE  /\ PostedAll(boxes, to, kind, ms) \in [Tabs -> Seq(Message)]
         /\ \A t \in Tabs : In(PostedAll(boxes, to, kind, ms)[t])
                              \subseteq In(boxes[t]) \cup (IF t = to THEN In(ms) ELSE {})
<1>1. CASE ~Listens(to, kind)
  BY <1>1 DEF PostedAll
<1>2. CASE Listens(to, kind)
  <2>1. PostedAll(boxes, to, kind, ms) = [boxes EXCEPT ![to] = boxes[to] \o ms]
    BY <1>2 DEF PostedAll
  <2>2. boxes[to] \o ms \in Seq(Message) /\ In(boxes[to] \o ms) = In(boxes[to]) \cup In(ms)
    BY Concatenated
  <2>3. /\ [boxes EXCEPT ![to] = boxes[to] \o ms] \in [Tabs -> Seq(Message)]
        /\ \A t \in Tabs : [boxes EXCEPT ![to] = boxes[to] \o ms][t]
                             = IF t = to THEN boxes[to] \o ms ELSE boxes[t]
    BY <2>2
  <2> QED
    BY <2>1, <2>2, <2>3
<1> QED
  BY <1>1, <1>2

(* Posting one message. *)
LEMMA PostedFacts ==
  ASSUME NEW boxes \in [Tabs -> Seq(Message)], NEW to \in Tabs, NEW m \in Message
  PROVE  /\ Posted(boxes, to, m) \in [Tabs -> Seq(Message)]
         /\ \A t \in Tabs : In(Posted(boxes, to, m)[t])
                              \subseteq In(boxes[t]) \cup (IF t = to THEN {m} ELSE {})
<1>1. <<m>> \in Seq(Message) /\ In(<<m>>) = {m}
  BY Alone
<1> QED
  BY <1>1, PostedAllFacts DEF Posted

(* A broadcast reaches other tabs only. *)
LEMMA BroadcastFacts ==
  ASSUME NEW boxes \in [Tabs -> Seq(Message)], NEW from \in Tabs, NEW m \in Message
  PROVE  /\ Broadcast(boxes, from, m) \in [Tabs -> Seq(Message)]
         /\ \A t \in Tabs : In(Broadcast(boxes, from, m)[t])
                              \subseteq In(boxes[t]) \cup (IF t # from THEN {m} ELSE {})
         /\ Broadcast(boxes, from, m)[from] = boxes[from]
<1>1. \A t \in Tabs : Append(boxes[t], m) \in Seq(Message) /\ In(Append(boxes[t], m)) = In(boxes[t]) \cup {m}
  BY Appended
<1> QED
  BY <1>1 DEF Broadcast

(* Hearing the first message leaves the rest. *)
LEMMA HeardFacts ==
  ASSUME NEW t \in Tabs, inbox \in [Tabs -> Seq(Message)], inbox[t] # <<>>
  PROVE  /\ Heard(t) \in [Tabs -> Seq(Message)]
         /\ \A u \in Tabs : In(Heard(t)[u]) \subseteq In(inbox[u])
         /\ Head(inbox[t]) \in Message /\ Head(inbox[t]) \in In(inbox[t])
<1>1. /\ Tail(inbox[t]) \in Seq(Message) /\ In(Tail(inbox[t])) \subseteq In(inbox[t])
      /\ Head(inbox[t]) \in Message /\ Head(inbox[t]) \in In(inbox[t])
  BY Headed
<1>2. Heard(t) = [inbox EXCEPT ![t] = Tail(inbox[t])]
  BY DEF Heard
<1> QED
  BY <1>1, <1>2

(* One call goes on. *)
LEMMA BecomeFacts ==
  ASSUME call \in [Requests -> Call], NEW r \in Requests, NEW c \in Call, Become(r, c)
  PROVE  /\ call' \in [Requests -> Call]
         /\ \A q \in Requests : call'[q] = IF q = r THEN c ELSE call[q]
BY DEF Become

(* What a call may become. *)
LEMMA CallTypes ==
  ASSUME NEW c \in Call
  PROVE  /\ c.pc \in {"new", "loop", "pending", "local", "told"} /\ c.sentAt \in 0 .. MaxNow
         /\ c.sentRemotely \in BOOLEAN /\ c.told \in Answers \cup {"none"}
         /\ c.sentTo \in Tabs \cup {Nobody} /\ c.timeouts \in 0 .. MaxTimeouts
         /\ \A pc \in {"new", "loop", "pending", "local", "told"} : [c EXCEPT !.pc = pc] \in Call
         /\ \A at \in 0 .. MaxNow : [c EXCEPT !.pc = "loop", !.sentAt = at] \in Call
         /\ \A t \in Tabs \cup {Nobody} : /\ [c EXCEPT !.sentTo = t] \in Call
                                          /\ [c EXCEPT !.pc = "pending", !.sentTo = t, !.sentRemotely = TRUE] \in Call
         /\ [c EXCEPT !.sentRemotely = TRUE] \in Call
         /\ \A answer \in Answers : /\ Told(c, answer) \in Call
                                    /\ Told([c EXCEPT !.sentRemotely = TRUE], answer) \in Call
BY ZenonT(30) DEF Call, Told, Answers, Outcomes

(* The parts of the state that the proofs go through again and again. *)
LEMMA Parts ==
  ASSUME TypeOK
  PROVE  /\ \A t \in Tabs : /\ In(inbox[t]) \subseteq Message /\ In(serving[t]) \subseteq Delivery
                            /\ In(queue[t]) \subseteq Turn
                            /\ leading[t] \in 0 .. MaxTerms
         /\ \A i \in 1 .. Len(terms) : /\ Ledger(i) \in Seq(Entry) /\ In(Ledger(i)) \subseteq Entry
                                       /\ terms[i].coverage \in Nat
         /\ Len(terms) \in Nat
         /\ \A e \in Entries : e \in Entry /\ e.key \in Requests /\ e.sentAt \in Nat
         /\ \A r \in Requests : call[r] \in Call /\ call[r].sentAt \in Nat /\ executed[r] \in Nat
         /\ MaxTerms \in Nat /\ MaxNow \in Nat
<1>1. \A t \in Tabs : inbox[t] \in Seq(Message) /\ serving[t] \in Seq(Delivery) /\ queue[t] \in Seq(Turn)
  BY DEF TypeOK
<1>2. \A t \in Tabs : /\ In(inbox[t]) \subseteq Message /\ In(serving[t]) \subseteq Delivery
                      /\ In(queue[t]) \subseteq Turn
  BY <1>1, Held
<1>3. MaxTerms \in Nat /\ MaxNow \in Nat
  BY ServedRequestsAssumption
<1>4. \A i \in 1 .. Len(terms) : terms[i] \in [open : BOOLEAN, ledger : Seq(Entry), coverage : 0 .. MaxNow + 1]
  BY ElementOfSeq DEF TypeOK
<1>5. \A i \in 1 .. Len(terms) : Ledger(i) \in Seq(Entry) /\ terms[i].coverage \in 0 .. MaxNow + 1
  BY <1>4 DEF Ledger
<1>6. \A i \in 1 .. Len(terms) : In(Ledger(i)) \subseteq Entry
  BY <1>5, Held
<1>7. \A e \in Entries : e \in Entry
  BY <1>6 DEF Entries, Ledger
<1>8. \A e \in Entry : e.key \in Requests /\ e.sentAt \in Nat
  BY <1>3 DEF Entry
<1>9. \A r \in Requests : call[r] \in Call /\ executed[r] \in Nat
  BY DEF TypeOK
<1>10. \A c \in Call : c.sentAt \in Nat
  BY <1>3 DEF Call
<1>11. Len(terms) \in Nat /\ \A t \in Tabs : leading[t] \in 0 .. MaxTerms
  BY LenProperties DEF TypeOK
<1> QED
  BY <1>2, <1>3, <1>5, <1>6, <1>7, <1>8, <1>9, <1>10, <1>11

(***************************************************************************)
(* Requesting.  What a call may become while nothing is run: it remembers  *)
(* that it was sent, keeps its time of sending and its turn here, and what *)
(* it was told is final, and true if it is "ok".                           *)
(***************************************************************************)
Moves(r) ==
    /\ call[r].sentRemotely => call'[r].sentRemotely
    /\ call[r].pc # "new" => call'[r].sentAt = call[r].sentAt
    /\ call[r].pc = "told" => call'[r] = call[r]
    /\ call[r].pc = "local" => call'[r].pc = "local"
    /\ call'[r].pc = "new" => call'[r] = call[r]
    /\ call'[r].pc = "pending" => call'[r].sentRemotely
    /\ call'[r].told # "none" => call'[r].pc = "told"
    /\ call'[r].told = "ok" => executed[r] = 1

(* A message that was there, or a true one of a call that is not over. *)
Arrives(t, m) ==
    \/ m \in In(inbox[t])
    \/ /\ GoodMessage(t, m, call', executed)
       /\ m.kind = "op" => call'[m.request].pc # "told"

(* Steps of requesters, and messages of anybody, keep the invariant. *)
LEMMA CallsMove ==
  ASSUME Inv, TypeOK',
         UNCHANGED <<mode, holder, terms, leading, serverVars, executed>>,
         \A r \in Requests : Moves(r),
         \A t \in Tabs : \A m \in In(inbox'[t]) : Arrives(t, m),
         \A t \in Tabs : mode[t] = "up" /\ leading[t] = 0 => known'[t] # t
  PROVE  Inv'
<1> USE DEF serverVars
<1>1. Leads'
  BY DEF Inv, Leads
<1>2. Calls'
  BY DEF Inv, Calls, Moves
<1>3. Mail'
  <2> SUFFICES ASSUME NEW t \in Tabs, NEW m \in In(inbox'[t])
               PROVE  GoodMessage(t, m, call', executed)
    BY DEF Mail
  <2>1. CASE m \in In(inbox[t])
    <3>1. GoodMessage(t, m, call, executed)
      BY <2>1 DEF Inv, Mail
    <3> QED
      BY <3>1 DEF GoodMessage, Moves
  <2> QED
    BY <2>1 DEF Arrives
<1>4. Work'
  <2> SUFFICES ASSUME NEW t \in Tabs
               PROVE  /\ \A d \in In(serving[t]) : GoodDelivery(t, d, call', Len(terms))
                      /\ \A x \in In(queue[t]) :
                            GoodTurn(t, x, In(serving[t]), call', executed, Len(terms))
                      /\ Distinct(queue[t])
    BY DEF Work
  <2>1. /\ \A d \in In(serving[t]) : GoodDelivery(t, d, call, Len(terms))
        /\ \A x \in In(queue[t]) : GoodTurn(t, x, In(serving[t]), call, executed, Len(terms))
        /\ Distinct(queue[t])
    BY DEF Inv, Work
  <2>2. \A d \in In(serving[t]) : d.request \in Requests
    BY Parts DEF Inv, Delivery
  <2>3. \A d \in In(serving[t]) : GoodDelivery(t, d, call', Len(terms))
    BY <2>1, <2>2 DEF GoodDelivery, Moves
  <2>4. \A x \in In(queue[t]) : GoodTurn(t, x, In(serving[t]), call', executed, Len(terms))
    BY <2>1 DEF GoodTurn, Moves
  <2> QED
    BY <2>1, <2>3, <2>4
<1>5. Once'
  <2> SUFFICES ASSUME NEW r \in Requests
               PROVE  /\ executed[r] <= 1
                      /\ executed[r] = 1 =>
                            /\ call'[r].sentRemotely \/ call'[r].told = "ok"
                            /\ \/ terms # <<>> /\ AnswersFor(Len(terms), r)'
                               \/ /\ call'[r].pc = "told"
                                  /\ \A t \in Tabs : leading[t] # 0 => ~Reaches(t, r)'
                      /\ \A t \in Tabs : \A x \in In(queue[t]) :
                            /\ leading[t] # 0 /\ x.term = leading[t] /\ ~x.applied
                            /\ x.kind # "shutdown" /\ x.request = r
                            => executed[r] = 0
    BY DEF Once
  <2>1. /\ executed[r] <= 1
        /\ executed[r] = 1 =>
              /\ call[r].sentRemotely \/ call[r].told = "ok"
              /\ \/ terms # <<>> /\ AnswersFor(Len(terms), r)
                 \/ call[r].pc = "told" /\ \A t \in Tabs : leading[t] # 0 => ~Reaches(t, r)
        /\ \A t \in Tabs : \A x \in In(queue[t]) :
              /\ leading[t] # 0 /\ x.term = leading[t] /\ ~x.applied
              /\ x.kind # "shutdown" /\ x.request = r
              => executed[r] = 0
    BY DEF Inv, Once
  <2>2. ASSUME executed[r] = 1 PROVE call[r].pc # "new"
    BY <2>1, <2>2 DEF Inv, Calls
  <2>3. ASSUME executed[r] = 1, AnswersFor(Len(terms), r) PROVE AnswersFor(Len(terms), r)'
    BY <2>2, <2>3 DEF AnswersFor, Logged, Ledger, Moves
  <2>4. ASSUME executed[r] = 1 PROVE call'[r].sentRemotely \/ call'[r].told = "ok"
    BY <2>1, <2>4 DEF Moves, Inv, Calls
  <2>5. ASSUME call[r].pc = "told", NEW t \in Tabs, ~Reaches(t, r) PROVE ~Reaches(t, r)'
    <3>1. call'[r].pc = "told"
      BY <2>5 DEF Moves
    <3>2. \A m \in In(inbox'[t]) : m.kind = "op" /\ m.request = r => m \in In(inbox[t])
      BY <3>1 DEF Arrives
    <3> QED
      BY <2>5, <3>2 DEF Reaches
  <2>6. call[r].pc = "told" => call'[r].pc = "told"
    BY DEF Moves
  <2> QED
    BY <2>1, <2>3, <2>4, <2>5, <2>6
<1>6. Truth'
  <2>1. \A e \in Entries : e.key \in Requests
    BY Parts DEF Inv
  <2>2. \A e \in Entries : executed[e.key] = 1 /\ e.sentAt = call[e.key].sentAt
    BY DEF Inv, Truth
  <2>3. \A r \in Requests : executed[r] = 1 => call[r].pc # "new"
    BY DEF Inv, Once, Calls
  <2>4. \A e \in Entries : e.sentAt = call'[e.key].sentAt
    BY <2>1, <2>2, <2>3 DEF Moves
  <2>5. Entries' = Entries
    BY DEF Entries
  <2>6. \A t \in Tabs, r \in Requests : remembered[t][r] = "ok" => executed[r] = 1
    BY DEF Inv, Truth
  <2> QED
    BY <2>2, <2>4, <2>5, <2>6 DEF Truth, Moves
<1> QED
  BY <1>1, <1>2, <1>3, <1>4, <1>5, <1>6 DEF Inv

(* A call that stays as it is moves as it may. *)
LEMMA Stays ==
  ASSUME Inv, NEW r \in Requests, call'[r] = call[r]
  PROVE  Moves(r)
BY DEF Inv, Calls, Truth, Moves

(* CallsMove with the types of what changes. *)
LEMMA Requested ==
  ASSUME Inv,
         UNCHANGED <<mode, holder, terms, leading, serverVars, executed>>,
         now' \in 0 .. MaxNow, leaving' \subseteq Tabs,
         known' \in [Tabs -> Tabs \cup {Nobody}], graceful' \in [Tabs -> SUBSET (Tabs \cup {Nobody})],
         inbox' \in [Tabs -> Seq(Message)], call' \in [Requests -> Call],
         \A r \in Requests : call'[r] = call[r] \/ Moves(r),
         \A t \in Tabs : \A m \in In(inbox'[t]) : Arrives(t, m),
         \A t \in Tabs : known'[t] = known[t] \/ (mode[t] = "up" /\ leading[t] = 0 => known'[t] # t)
  PROVE  Inv'
<1>1. TypeOK'
  BY DEF Inv, TypeOK, serverVars
<1>2. \A r \in Requests : Moves(r)
  BY Stays
<1>3. \A t \in Tabs : mode[t] = "up" /\ leading[t] = 0 => known'[t] # t
  BY DEF Inv, Leads
<1> QED
  BY <1>1, <1>2, <1>3, CallsMove

(* The same when only one call changes and no mail is posted. *)
LEMMA OneMoves ==
  ASSUME Inv,
         UNCHANGED <<now, tabVars, graceful, serverVars, executed>>,
         NEW r \in Requests, NEW c \in Call, Become(r, c), Moves(r),
         \/ UNCHANGED known
         \/ \E t \in Tabs : known' = [known EXCEPT ![t] = Nobody],
         \/ UNCHANGED inbox
         \/ \E t \in Tabs : inbox[t] # <<>> /\ inbox' = Heard(t)
  PROVE  Inv'
<1>1. TypeOK
  BY DEF Inv
<1>2. inbox' \in [Tabs -> Seq(Message)] /\ \A t \in Tabs : In(inbox'[t]) \subseteq In(inbox[t])
  <2>1. inbox \in [Tabs -> Seq(Message)]
    BY <1>1 DEF TypeOK
  <2> QED
    BY <2>1, HeardFacts
<1>3. \A t \in Tabs : \A m \in In(inbox'[t]) : Arrives(t, m)
  BY <1>2 DEF Arrives
<1>4. call' \in [Requests -> Call] /\ \A q \in Requests : call'[q] = call[q] \/ Moves(q)
  BY <1>1, BecomeFacts DEF TypeOK
<1>5. /\ known' \in [Tabs -> Tabs \cup {Nobody}]
      /\ \A t \in Tabs : known'[t] = known[t] \/ (mode[t] = "up" /\ leading[t] = 0 => known'[t] # t)
  <2>1. known \in [Tabs -> Tabs \cup {Nobody}] /\ Nobody \notin Tabs
    BY <1>1, ServedRequestsAssumption DEF TypeOK
  <2>2. ASSUME NEW u \in Tabs, known' = [known EXCEPT ![u] = Nobody]
        PROVE  /\ known' \in [Tabs -> Tabs \cup {Nobody}]
               /\ \A t \in Tabs : known'[t] = known[t] \/ known'[t] # t
    BY <2>1, <2>2
  <2> QED
    BY <2>1, <2>2
<1>6. /\ UNCHANGED <<mode, holder, terms, leading, serverVars, executed>>
      /\ now' \in 0 .. MaxNow /\ leaving' \subseteq Tabs
      /\ graceful' \in [Tabs -> SUBSET (Tabs \cup {Nobody})]
  BY <1>1 DEF TypeOK, tabVars
<1> QED
  BY <1>2, <1>3, <1>4, <1>5, <1>6, Requested

(* A call of the dispatch loop that starts, is sent, waits, or ends without an outcome. *)
LEMMA CallsInv ==
  ASSUME Inv, NEW r \in Requests, Start(r) \/ FindClosed(r) \/ Timeout(r) \/ GiveUp(r)
  PROVE  Inv'
<1>1. call[r] \in Call /\ now \in 0 .. MaxNow /\ From[r] \in Tabs /\ MaxTimeouts \in Nat
      /\ call \in [Requests -> Call]
  BY ServedRequestsAssumption DEF Inv, TypeOK
<1>2. CASE Start(r)
  <2> DEFINE c == [call[r] EXCEPT !.pc = "loop", !.sentAt = now]
  <2>1. c \in Call /\ Become(r, c)
    BY <1>1, <1>2, CallTypes DEF Start
  <2>2. call'[r] = c
    BY <1>1, <2>1, BecomeFacts
  <2>3. call[r].pc = "new" /\ call[r].told = "none"
    BY <1>2 DEF Start, Inv, Calls
  <2>4. Moves(r)
    BY <1>1, <2>2, <2>3 DEF Moves, Call
  <2> HIDE DEF c
  <2> QED
    BY <1>2, <2>1, <2>4, OneMoves DEF Start
<1>3. CASE FindClosed(r)
  <2> DEFINE c == Told(call[r], "closed")
  <2>1. c \in Call /\ Become(r, c)
    BY <1>1, <1>3, CallTypes DEF FindClosed, Answers
  <2>2. call'[r] = c
    BY <1>1, <2>1, BecomeFacts
  <2>3. Moves(r)
    BY <1>1, <1>3, <2>2 DEF FindClosed, InLoop, Moves, Call, Told
  <2> HIDE DEF c
  <2> QED
    BY <1>3, <2>1, <2>3, OneMoves DEF FindClosed
<1>4. CASE Timeout(r)
  <2> DEFINE c == [call[r] EXCEPT !.pc = "loop", !.mayHaveRun = TRUE, !.timeouts = @ + 1]
  <2>1. call[r].timeouts + 1 \in 0 .. MaxTimeouts
    BY <1>1, <1>4 DEF Timeout, Call
  <2>2. c \in Call /\ Become(r, c)
    BY <1>1, <1>4, <2>1 DEF Timeout, Call
  <2>3. call'[r] = c
    BY <1>1, <2>2, BecomeFacts
  <2>4. call[r].told = "none"
    BY <1>4 DEF Timeout, Pending, Inv, Calls
  <2>5. Moves(r)
    BY <1>1, <1>4, <2>3, <2>4 DEF Timeout, Pending, Moves, Call
  <2> HIDE DEF c
  <2> QED
    BY <1>1, <1>4, <2>2, <2>5, OneMoves DEF Timeout
<1>5. CASE GiveUp(r)
  <2> DEFINE c == Told(call[r], IF call[r].mayHaveRun THEN "uncertain" ELSE "coordination")
  <2>1. c \in Call /\ Become(r, c)
    BY <1>1, <1>5, CallTypes DEF GiveUp, Answers, Outcomes
  <2>2. call'[r] = c
    BY <1>1, <2>1, BecomeFacts
  <2>3. Moves(r)
    BY <1>1, <1>5, <2>2 DEF GiveUp, InLoop, Moves, Call, Told
  <2> HIDE DEF c
  <2> QED
    BY <1>5, <2>1, <2>3, OneMoves DEF GiveUp
<1> QED
  BY <1>2, <1>3, <1>4, <1>5

(* A request is sent: to a leader that is another tab, or nowhere. *)
LEMMA RpcInv ==
  ASSUME Inv, NEW r \in Requests, Rpc(r)
  PROVE  Inv'
<1> DEFINE t == From[r]
           refused == Told([call[r] EXCEPT !.sentRemotely = TRUE], "coordination")
           sent == [call[r] EXCEPT !.pc = "pending", !.sentTo = known[t], !.sentRemotely = TRUE]
<1>1. /\ TypeOK /\ call[r] \in Call /\ t \in Tabs /\ known[t] \in Tabs \cup {Nobody}
      /\ call \in [Requests -> Call] /\ inbox \in [Tabs -> Seq(Message)]
  BY ServedRequestsAssumption DEF Inv, TypeOK
<1>2. refused \in Call /\ sent \in Call
  BY <1>1, CallTypes DEF Answers
<1>3. /\ call[r].pc = "loop" /\ mode[t] = "up" /\ leading[t] = 0 /\ call[r].told = "none"
  BY DEF Rpc, InLoop, Inv, Calls
<1>4. CASE Become(r, refused) /\ UNCHANGED inbox
  <2>1. call'[r] = refused
    BY <1>1, <1>2, <1>4, BecomeFacts
  <2>2. Moves(r)
    BY <1>1, <1>3, <2>1 DEF Moves, Call, Told
  <2> HIDE DEF refused
  <2> QED
    BY <1>2, <1>4, <2>2, OneMoves DEF Rpc
<1>5. CASE /\ Become(r, sent)
           /\ inbox' = IF known[t] = Nobody THEN inbox ELSE Posted(inbox, known[t], Op(r))
  <2>1. call' \in [Requests -> Call] /\ \A q \in Requests : call'[q] = IF q = r THEN sent ELSE call[q]
    BY <1>1, <1>2, <1>5, BecomeFacts
  <2>2. Moves(r) /\ call'[r].pc = "pending" /\ call'[r].sentRemotely
    BY <1>1, <1>3, <2>1, ZenonT(30) DEF Moves, Call
  <2>3. known[t] # t
    BY <1>1, <1>3 DEF Inv, Leads
  <2>4. GoodMessage(known[t], Op(r), call', executed)
    BY <2>2, <2>3 DEF GoodMessage, Op
  <2>5. /\ inbox' \in [Tabs -> Seq(Message)]
        /\ \A u \in Tabs : \A m \in In(inbox'[u]) :
              m \in In(inbox[u]) \/ (u = known[t] /\ m = Op(r))
    <3>1. CASE known[t] = Nobody
      BY <1>1, <1>5, <3>1
    <3>2. CASE known[t] # Nobody
      <4>1. known[t] \in Tabs /\ Op(r) \in Message /\ inbox' = Posted(inbox, known[t], Op(r))
        BY <1>1, <1>5, <3>2, MessageTypes
      <4> QED
        BY <1>1, <4>1, PostedFacts
    <3> QED
      BY <3>1, <3>2
  <2>6. \A u \in Tabs : \A m \in In(inbox'[u]) : Arrives(u, m)
    <3>1. Op(r).request = r
      BY DEF Op
    <3> QED
      BY <2>2, <2>4, <2>5, <3>1 DEF Arrives
  <2>7. /\ UNCHANGED <<mode, holder, terms, leading, serverVars, executed, now, leaving, known, graceful>>
    BY DEF Rpc, tabVars
  <2>8. \A q \in Requests : call'[q] = call[q] \/ Moves(q)
    BY <2>1, <2>2
  <2>9. /\ now' \in 0 .. MaxNow /\ leaving' \subseteq Tabs
        /\ known' \in [Tabs -> Tabs \cup {Nobody}] /\ graceful' \in [Tabs -> SUBSET (Tabs \cup {Nobody})]
    BY <1>1, <2>7 DEF TypeOK
  <2> HIDE DEF sent
  <2> QED
    BY <2>1, <2>5, <2>6, <2>7, <2>8, <2>9, Requested
<1> QED
  BY <1>4, <1>5 DEF Rpc

(* Messages that only tell of leaders, and the clock. *)
LEMMA NoticesInv ==
  ASSUME Inv, Tick \/ \E t \in Tabs : Announce(t) \/ Goodbye(t)
  PROVE  Inv'
<1>1. /\ TypeOK /\ inbox \in [Tabs -> Seq(Message)] /\ MaxNow \in Nat /\ now \in 0 .. MaxNow
      /\ leaving \subseteq Tabs /\ known \in [Tabs -> Tabs \cup {Nobody}]
      /\ graceful \in [Tabs -> SUBSET (Tabs \cup {Nobody})] /\ call \in [Requests -> Call]
  BY ServedRequestsAssumption DEF Inv, TypeOK
<1>2. UNCHANGED <<mode, holder, terms, leading, serverVars, executed, known, graceful, call>>
  BY DEF Tick, Announce, Goodbye, tabVars
<1>3. now' \in 0 .. MaxNow
  BY <1>1 DEF Tick, Announce, Goodbye
<1>4. leaving' \subseteq Tabs
  BY <1>1 DEF Tick, Announce, Goodbye, tabVars
<1>5. /\ inbox' \in [Tabs -> Seq(Message)]
      /\ \A u \in Tabs : \A m \in In(inbox'[u]) : Arrives(u, m)
  <2>1. CASE Tick
    BY <1>1, <2>1 DEF Tick, Arrives
  <2>2. ASSUME NEW t \in Tabs, Announce(t)
        PROVE  /\ inbox' \in [Tabs -> Seq(Message)]
               /\ \A u \in Tabs : \A m \in In(inbox'[u]) : Arrives(u, m)
    <3>1. PICK to \in Tabs \ {t} : inbox' = Posted(inbox, to, Notice("leader", t))
      BY <2>2 DEF Announce
    <3>2. Notice("leader", t) \in Message
      BY MessageTypes
    <3>3. \A u \in Tabs \ {t} : GoodMessage(u, Notice("leader", t), call', executed)
      BY DEF GoodMessage, Notice
    <3>4. Notice("leader", t).kind # "op"
      BY DEF Notice
    <3> QED
      <4>1. /\ inbox' \in [Tabs -> Seq(Message)]
            /\ \A u \in Tabs : \A m \in In(inbox'[u]) :
                  m \in In(inbox[u]) \/ (u # t /\ m = Notice("leader", t))
        BY <1>1, <3>1, <3>2, PostedFacts
      <4> QED
        BY <3>3, <3>4, <4>1 DEF Arrives
  <2>3. ASSUME NEW t \in Tabs, Goodbye(t)
        PROVE  /\ inbox' \in [Tabs -> Seq(Message)]
               /\ \A u \in Tabs : \A m \in In(inbox'[u]) : Arrives(u, m)
    <3>1. inbox' = Broadcast(inbox, t, Notice("released", t))
      BY <2>3 DEF Goodbye
    <3>2. Notice("released", t) \in Message
      BY MessageTypes
    <3>3. \A u \in Tabs \ {t} : GoodMessage(u, Notice("released", t), call', executed)
      BY DEF GoodMessage, Notice
    <3>4. Notice("released", t).kind # "op"
      BY DEF Notice
    <3> QED
      <4>1. /\ inbox' \in [Tabs -> Seq(Message)]
            /\ \A u \in Tabs : \A m \in In(inbox'[u]) :
                  m \in In(inbox[u]) \/ (u # t /\ m = Notice("released", t))
        <5>1. /\ inbox' \in [Tabs -> Seq(Message)]
              /\ \A u \in Tabs : In(inbox'[u])
                     \subseteq In(inbox[u]) \cup (IF u # t THEN {Notice("released", t)} ELSE {})
          BY <1>1, <3>1, <3>2, BroadcastFacts
        <5> QED
          BY <5>1
      <4> QED
        BY <3>3, <3>4, <4>1 DEF Arrives
  <2> QED
    BY <2>1, <2>2, <2>3
<1> QED
  BY <1>1, <1>2, <1>3, <1>4, <1>5, Requested

(* An answer ends a pending call; "ok" comes only of a request that ran. *)
LEMMA ReceiveAnswerInv ==
  ASSUME Inv, NEW t \in Tabs, ReceiveAnswer(t)
  PROVE  Inv'
<1>1. TypeOK /\ call \in [Requests -> Call] /\ inbox \in [Tabs -> Seq(Message)]
  BY DEF Inv, TypeOK
<1>2. PICK answer \in Outcomes \cup {"coordination"} :
        /\ Hears(t, answer)
        /\ call' = IF Pending(Head(inbox[t]).request)
                   THEN [call EXCEPT ![Head(inbox[t]).request] = Told(@, answer)] ELSE call
        /\ inbox' = Heard(t)
        /\ UNCHANGED <<now, tabVars, known, graceful, serverVars, executed>>
  BY DEF ReceiveAnswer
<1> DEFINE m == Head(inbox[t])
           r == m.request
<1>3. inbox[t] # <<>> /\ m.kind = answer
  BY <1>2 DEF Hears
<1>4. /\ Heard(t) \in [Tabs -> Seq(Message)] /\ m \in In(inbox[t])
      /\ \A u \in Tabs : In(Heard(t)[u]) \subseteq In(inbox[u])
  BY <1>1, <1>3, HeardFacts
<1>5. \A u \in Tabs : \A x \in In(inbox'[u]) : Arrives(u, x)
  BY <1>2, <1>4 DEF Arrives
<1>6. call' \in [Requests -> Call] /\ \A q \in Requests : call'[q] = call[q] \/ Moves(q)
  <2>1. ASSUME NEW q \in Requests, q = r, Pending(q)
        PROVE  Told(call[q], answer) \in Call /\ (call'[q] = Told(call[q], answer) => Moves(q))
    <3>1. call[q] \in Call /\ call[q].pc = "pending" /\ call[q].told = "none"
      BY <1>1, <2>1 DEF Pending, Inv, Calls
    <3>2. Told(call[q], answer) \in Call
      BY <3>1, CallTypes DEF Answers
    <3>3. answer = "ok" => executed[q] = 1
      BY <1>3, <1>4, <2>1 DEF Inv, Mail, GoodMessage
    <3> QED
      BY <3>1, <3>2, <3>3 DEF Told, Moves, Call
  <2>2. CASE Pending(r) /\ r \in Requests
    <3>1. call' = [call EXCEPT ![r] = Told(call[r], answer)]
      BY <1>2, <2>2
    <3> HIDE DEF r
    <3> QED
      BY <1>1, <2>1, <2>2, <3>1
  <2>3. CASE Pending(r) /\ r \notin Requests
    <3>1. call' = call
      BY <1>1, <1>2, <2>3
    <3> QED
      BY <1>1, <3>1
  <2>4. CASE ~Pending(r)
    BY <1>1, <1>2, <2>4
  <2> QED
    BY <2>2, <2>3, <2>4
<1>7. /\ UNCHANGED <<mode, holder, terms, leading, serverVars, executed, known, graceful>>
      /\ now' \in 0 .. MaxNow /\ leaving' \subseteq Tabs
      /\ known' \in [Tabs -> Tabs \cup {Nobody}] /\ graceful' \in [Tabs -> SUBSET (Tabs \cup {Nobody})]
  BY <1>1, <1>2 DEF TypeOK, tabVars
<1> QED
  BY <1>2, <1>4, <1>5, <1>6, <1>7, Requested

(* A decline sends a pending call back to its loop, which forgets the leader. *)
LEMMA ReceiveDeclineInv ==
  ASSUME Inv, NEW t \in Tabs, ReceiveDecline(t)
  PROVE  Inv'
<1> DEFINE r == Head(inbox[t]).request
<1>1. /\ TypeOK /\ call \in [Requests -> Call] /\ inbox \in [Tabs -> Seq(Message)]
      /\ known \in [Tabs -> Tabs \cup {Nobody}] /\ graceful \in [Tabs -> SUBSET (Tabs \cup {Nobody})]
      /\ Nobody \notin Tabs
  BY ServedRequestsAssumption DEF Inv, TypeOK
<1>2. /\ inbox[t] # <<>> /\ inbox' = Heard(t)
      /\ UNCHANGED <<now, tabVars, graceful, serverVars, executed>>
  BY DEF ReceiveDecline, Hears
<1>3. CASE Pending(r) /\ r \in Requests
  <2> DEFINE c == [call[r] EXCEPT !.pc = "loop"]
  <2>1. call[r] \in Call /\ call[r].pc = "pending" /\ call[r].told = "none"
    BY <1>1, <1>3 DEF Pending, Inv, Calls
  <2>2. c \in Call
    BY <2>1, CallTypes
  <2>3. Become(r, c) /\ known' = [known EXCEPT ![t] = Nobody]
    BY <1>3 DEF ReceiveDecline
  <2>4. call'[r] = c
    BY <1>1, <1>3, <2>2, <2>3, BecomeFacts
  <2>5. Moves(r)
    BY <2>1, <2>4 DEF Moves, Call
  <2> HIDE DEF c, r
  <2> QED
    BY <1>2, <1>3, <2>2, <2>3, <2>5, OneMoves
<1>4. CASE ~(Pending(r) /\ r \in Requests)
  <2>1. call' = call
    BY <1>1, <1>4 DEF ReceiveDecline, Become
  <2>2. /\ known' \in [Tabs -> Tabs \cup {Nobody}]
        /\ \A u \in Tabs : known'[u] = known[u] \/ known'[u] # u
    <3>1. known' = known \/ known' = [known EXCEPT ![t] = Nobody]
      BY DEF ReceiveDecline
    <3> QED
      BY <1>1, <3>1, ZenonT(30)
  <2>3. inbox' \in [Tabs -> Seq(Message)] /\ \A u \in Tabs : In(inbox'[u]) \subseteq In(inbox[u])
    BY <1>1, <1>2, HeardFacts
  <2>4. \A u \in Tabs : \A x \in In(inbox'[u]) : Arrives(u, x)
    BY <2>3 DEF Arrives
  <2>5. /\ UNCHANGED <<mode, holder, terms, leading, serverVars, executed>>
        /\ now' \in 0 .. MaxNow /\ leaving' \subseteq Tabs
        /\ graceful' \in [Tabs -> SUBSET (Tabs \cup {Nobody})]
    BY <1>1, <1>2 DEF TypeOK, tabVars
  <2> QED
    BY <1>1, <2>1, <2>2, <2>3, <2>4, <2>5, Requested
<1> QED
  BY <1>3, <1>4

(* A leader is announced, and what is pending is sent to it: another tab. *)
LEMMA ReceiveLeaderInv ==
  ASSUME Inv, NEW t \in Tabs, ReceiveLeader(t)
  PROVE  Inv'
<1> DEFINE leader == Head(inbox[t]).tab
<1>1. /\ TypeOK /\ call \in [Requests -> Call] /\ inbox \in [Tabs -> Seq(Message)]
      /\ known \in [Tabs -> Tabs \cup {Nobody}] /\ graceful \in [Tabs -> SUBSET (Tabs \cup {Nobody})]
  BY DEF Inv, TypeOK
<1>2. inbox[t] # <<>> /\ Head(inbox[t]).kind = "leader"
  BY DEF ReceiveLeader, Hears
<1>3. /\ Heard(t) \in [Tabs -> Seq(Message)] /\ Head(inbox[t]) \in In(inbox[t])
      /\ \A u \in Tabs : In(Heard(t)[u]) \subseteq In(inbox[u])
  BY <1>1, <1>2, HeardFacts
<1>4. leader \in Tabs \ {t}
  BY <1>2, <1>3 DEF Inv, Mail, GoodMessage
<1> DEFINE S == Resent(t, leader)
<1>5. /\ known' = [known EXCEPT ![t] = leader]
      /\ graceful' = [graceful EXCEPT ![t] = graceful[t] \ {leader}]
      /\ call' = [q \in Requests |-> IF q \in S THEN [call[q] EXCEPT !.sentTo = leader] ELSE call[q]]
      /\ UNCHANGED <<now, tabVars, serverVars, executed>>
  BY DEF ReceiveLeader
<1>6. PICK order \in Orders(S) :
         inbox' = PostedAll(Heard(t), leader, "op", [i \in DOMAIN order |-> Op(order[i])])
  BY DEF ReceiveLeader
<1>7. S \subseteq Requests /\ \A q \in S : From[q] = t /\ Pending(q)
  BY DEF Resent
<1> HIDE DEF leader, S
<1>8. /\ call' \in [Requests -> Call]
      /\ \A q \in Requests : call'[q] = call[q] \/ Moves(q)
      /\ \A q \in S : call'[q].pc = "pending" /\ call'[q].sentRemotely
  <2>1. \A q \in S : call[q] \in Call /\ call[q].pc = "pending" /\ call[q].told = "none" /\ call[q].sentRemotely
    BY <1>1, <1>7 DEF Pending, Inv, Calls
  <2>2. \A q \in S : [call[q] EXCEPT !.sentTo = leader] \in Call
    BY <1>4, <2>1, CallTypes
  <2>3. \A q \in S : call'[q] = [call[q] EXCEPT !.sentTo = leader]
    BY <1>5, <1>7
  <2>4. \A q \in Requests : call[q] \in Call
    BY <1>1
  <2>5. call' \in [Requests -> Call]
    BY <1>5, <2>2, <2>4
  <2>6. \A q \in S : Moves(q) /\ call'[q].pc = "pending" /\ call'[q].sentRemotely
    <3> SUFFICES ASSUME NEW q \in S
                 PROVE  Moves(q) /\ call'[q].pc = "pending" /\ call'[q].sentRemotely
      OBVIOUS
    <3>1. call[q] \in Call /\ call[q].pc = "pending" /\ call[q].sentRemotely /\ call[q].told = "none"
      BY <2>1
    <3>2. call'[q] = [call[q] EXCEPT !.sentTo = leader]
      BY <2>3
    <3> QED
      BY <3>1, <3>2 DEF Moves, Call
  <2>7. \A q \in Requests : q \in S \/ call'[q] = call[q]
    BY <1>5
  <2> QED
    BY <2>5, <2>6, <2>7
<1>9. /\ inbox' \in [Tabs -> Seq(Message)]
      /\ \A u \in Tabs : \A m \in In(inbox'[u]) :
            m \in In(inbox[u]) \/ (u = leader /\ \E q \in S : m = Op(q))
  <2> DEFINE ms == [i \in DOMAIN order |-> Op(order[i])]
  <2>1. ms \in Seq(Message) /\ \A m \in In(ms) : \E q \in S : m = Op(q)
    <3>1. IsFiniteSet(S)
      BY <1>7, FS_Subset, ServedRequestsAssumption
    <3>2. Cardinality(S) \in Nat
      BY <3>1, FS_CardinalityType
    <3>3. order \in [1 .. Cardinality(S) -> S]
      BY DEF Orders
    <3>4. \A q \in S : Op(q) \in Message
      BY <1>7, MessageTypes
    <3>5. ms = [i \in 1 .. Cardinality(S) |-> Op(order[i])]
      BY <3>3
    <3>6. ms \in Seq(Message)
      BY <3>2, <3>3, <3>4, <3>5
    <3>7. Len(ms) = Cardinality(S)
      BY <3>2, <3>5, <3>6, LenProperties
    <3>8. \A i \in 1 .. Len(ms) : ms[i] = Op(order[i]) /\ order[i] \in S
      BY <3>3, <3>5, <3>7
    <3> HIDE DEF ms
    <3> QED
      BY <3>6, <3>8 DEF In
  <2>2. inbox' = PostedAll(Heard(t), leader, "op", ms)
    BY <1>6
  <2> HIDE DEF ms
  <2>3. /\ inbox' \in [Tabs -> Seq(Message)]
        /\ \A u \in Tabs : In(inbox'[u]) \subseteq In(Heard(t)[u]) \cup (IF u = leader THEN In(ms) ELSE {})
    BY <1>3, <1>4, <2>1, <2>2, PostedAllFacts
  <2> QED
    BY <1>3, <2>1, <2>3
<1>10. \A u \in Tabs : \A m \in In(inbox'[u]) : Arrives(u, m)
  <2>1. ASSUME NEW q \in S
        PROVE  GoodMessage(leader, Op(q), call', executed) /\ call'[Op(q).request].pc # "told"
    BY <1>4, <1>7, <1>8 DEF GoodMessage, Op
  <2> QED
    BY <1>9, <2>1 DEF Arrives
<1>11. /\ UNCHANGED <<mode, holder, terms, leading, serverVars, executed>>
       /\ now' \in 0 .. MaxNow /\ leaving' \subseteq Tabs
  BY <1>1, <1>5 DEF TypeOK, tabVars
<1>12. /\ known' \in [Tabs -> Tabs \cup {Nobody}] /\ graceful' \in [Tabs -> SUBSET (Tabs \cup {Nobody})]
       /\ \A u \in Tabs : known'[u] = known[u] \/ known'[u] # u
  BY <1>1, <1>4, <1>5
<1> QED
  BY <1>8, <1>9, <1>10, <1>11, <1>12, Requested

(* A leader that said goodbye is no longer known, and still answers what it has. *)
LEMMA ReceiveReleasedInv ==
  ASSUME Inv, NEW t \in Tabs, ReceiveReleased(t)
  PROVE  Inv'
<1> DEFINE leader == Head(inbox[t]).tab
<1>1. /\ TypeOK /\ call \in [Requests -> Call] /\ inbox \in [Tabs -> Seq(Message)]
      /\ known \in [Tabs -> Tabs \cup {Nobody}] /\ graceful \in [Tabs -> SUBSET (Tabs \cup {Nobody})]
      /\ Nobody \notin Tabs
  BY ServedRequestsAssumption DEF Inv, TypeOK
<1>2. /\ inbox[t] # <<>> /\ inbox' = Heard(t)
      /\ UNCHANGED <<now, tabVars, serverVars, call, executed>>
  BY DEF ReceiveReleased, Hears
<1>3. inbox' \in [Tabs -> Seq(Message)] /\ \A u \in Tabs : In(inbox'[u]) \subseteq In(inbox[u])
  BY <1>1, <1>2, HeardFacts
<1>4. leader \in Tabs \cup {Nobody}
  BY <1>1, <1>2, HeardFacts DEF Message
<1>5. /\ known' = [known EXCEPT ![t] = IF known[t] = leader THEN Nobody ELSE known[t]]
      /\ graceful' = [graceful EXCEPT ![t] = graceful[t] \cup {leader}]
  BY DEF ReceiveReleased
<1> HIDE DEF leader
<1>6. /\ known' \in [Tabs -> Tabs \cup {Nobody}] /\ graceful' \in [Tabs -> SUBSET (Tabs \cup {Nobody})]
      /\ \A u \in Tabs : known'[u] = known[u] \/ known'[u] # u
  BY <1>1, <1>4, <1>5
<1>7. \A u \in Tabs : \A m \in In(inbox'[u]) : Arrives(u, m)
  BY <1>3 DEF Arrives
<1>8. /\ UNCHANGED <<mode, holder, terms, leading, serverVars, executed>>
      /\ now' \in 0 .. MaxNow /\ leaving' \subseteq Tabs
  BY <1>1, <1>2 DEF TypeOK, tabVars
<1> QED
  BY <1>1, <1>2, <1>3, <1>6, <1>7, <1>8, Requested

(***************************************************************************)
(* Serving and leading.  What a call may become when its tab closes or     *)
(* dies, which is also what it stays when others act.                      *)
(***************************************************************************)
Ends(r) ==
    /\ call[r].sentRemotely => call'[r].sentRemotely
    /\ call'[r].sentAt = call[r].sentAt
    /\ call[r].pc = "told" => call'[r].pc = "told"
    /\ call[r].told = "ok" => call'[r].told = "ok"
    /\ call'[r].told = "ok" => call[r].told = "ok"

(* Steps that run nothing keep the invariant, if the log still answers for what it *)
(* answered for and no leader can reach what was over before.                      *)
LEMMA Acts ==
  ASSUME Inv, TypeOK', Leads', Calls',
         UNCHANGED executed, Len(terms') = Len(terms),
         \A t \in Tabs : leading'[t] # 0 => leading'[t] = leading[t],
         \A r \in Requests : Ends(r),
         \A r \in Requests : terms # <<>> /\ executed[r] = 1 /\ AnswersFor(Len(terms), r)
                             => AnswersFor(Len(terms), r)',
         \A e \in Entries' : executed[e.key] = 1 /\ e.sentAt = call'[e.key].sentAt,
         \A t \in Tabs : \A m \in In(inbox'[t]) :
             m \in In(inbox[t]) \/ (m.kind # "op" /\ GoodMessage(t, m, call', executed)),
         \A t \in Tabs : \A d \in In(serving'[t]) : GoodDelivery(t, d, call', Len(terms)),
         \A t \in Tabs : \A x \in In(queue'[t]) :
             /\ GoodTurn(t, x, In(serving'[t]), call', executed, Len(terms))
             /\ x \in In(queue[t]) \/ x.kind = "shutdown" \/ executed[x.request] = 0,
         \A t \in Tabs : Distinct(queue'[t]),
         \A t \in Tabs, r \in Requests :
             leading'[t] # 0 /\ call[r].pc = "told" /\ Reaches(t, r)' => Reaches(t, r),
         \A t \in Tabs, r \in Requests : remembered'[t][r] = "ok" => executed[r] = 1
  PROVE  Inv'
<1>1. Mail'
  <2> SUFFICES ASSUME NEW t \in Tabs, NEW m \in In(inbox'[t])
               PROVE  GoodMessage(t, m, call', executed)
    BY DEF Mail
  <2>1. CASE m \in In(inbox[t])
    <3>1. GoodMessage(t, m, call, executed)
      BY <2>1 DEF Inv, Mail
    <3> QED
      BY <3>1 DEF GoodMessage, Ends
  <2> QED
    BY <2>1
<1>2. Work'
  BY DEF Work
<1>3. Once'
  <2> SUFFICES ASSUME NEW r \in Requests
               PROVE  /\ executed[r] <= 1
                      /\ executed[r] = 1 =>
                            /\ call'[r].sentRemotely \/ call'[r].told = "ok"
                            /\ \/ terms' # <<>> /\ AnswersFor(Len(terms), r)'
                               \/ /\ call'[r].pc = "told"
                                  /\ \A t \in Tabs : leading'[t] # 0 => ~Reaches(t, r)'
                      /\ \A t \in Tabs : \A x \in In(queue'[t]) :
                            /\ leading'[t] # 0 /\ x.term = leading'[t] /\ ~x.applied
                            /\ x.kind # "shutdown" /\ x.request = r
                            => executed[r] = 0
    BY DEF Once
  <2>1. /\ executed[r] <= 1
        /\ executed[r] = 1 =>
              /\ call[r].sentRemotely \/ call[r].told = "ok"
              /\ \/ terms # <<>> /\ AnswersFor(Len(terms), r)
                 \/ call[r].pc = "told" /\ \A t \in Tabs : leading[t] # 0 => ~Reaches(t, r)
        /\ \A t \in Tabs : \A x \in In(queue[t]) :
              /\ leading[t] # 0 /\ x.term = leading[t] /\ ~x.applied
              /\ x.kind # "shutdown" /\ x.request = r
              => executed[r] = 0
    BY DEF Inv, Once
  <2>2. terms' # <<>> <=> terms # <<>>
    <3>1. \E S : terms \in Seq(S)
      BY DEF Inv, TypeOK
    <3>2. \E S : terms' \in Seq(S)
      BY DEF TypeOK
    <3> QED
      BY <3>1, <3>2, EmptySeq
  <2> QED
    BY <2>1, <2>2 DEF Ends
<1>4. Truth'
  BY DEF Truth, Inv, Ends
<1> QED
  BY <1>1, <1>2, <1>3, <1>4 DEF Inv

(* A step of one tab's server: what it keeps of its deliveries and turns, and what it adds. *)
LEMMA Serves1 ==
  ASSUME Inv, TypeOK', NEW t \in Tabs,
         UNCHANGED <<mode, holder, leading, known, call, executed>>, Len(terms') = Len(terms),
         \A r \in Requests : terms # <<>> /\ executed[r] = 1 /\ AnswersFor(Len(terms), r)
                             => AnswersFor(Len(terms), r)',
         \A e \in Entries' : executed[e.key] = 1 /\ e.sentAt = call[e.key].sentAt,
         \A u \in Tabs : \A m \in In(inbox'[u]) :
             m \in In(inbox[u]) \/ (m.kind # "op" /\ GoodMessage(u, m, call, executed)),
         \A u \in Tabs \ {t} : serving'[u] = serving[u] /\ queue'[u] = queue[u],
         \A d \in In(serving'[t]) : d \in In(serving[t]) \/ GoodDelivery(t, d, call, Len(terms)),
         \A x \in In(queue'[t]) :
             \/ /\ x \in In(queue[t])
                /\ x.kind = "serve" => \E d \in In(serving'[t]) : d.request = x.request /\ d.phase = "run"
             \/ /\ GoodTurn(t, x, In(serving'[t]), call, executed, Len(terms))
                /\ x.kind # "shutdown" /\ executed[x.request] = 0,
         Distinct(queue'[t]),
         \A d \in In(serving'[t]) :
             leading[t] # 0 /\ (d.phase = "lock" \/ (d.phase = "check" /\ d.term = leading[t]))
             => Reaches(t, d.request),
         \A u \in Tabs, r \in Requests : remembered'[u][r] = "ok" => executed[r] = 1
  PROVE  Inv'
<1>1. Leads'
  <2>1. terms' # <<>> <=> terms # <<>>
    <3>1. \E S : terms \in Seq(S)
      BY DEF Inv, TypeOK
    <3>2. \E S : terms' \in Seq(S)
      BY DEF TypeOK
    <3> QED
      BY <3>1, <3>2, EmptySeq
  <2>2. \A u \in Tabs : \A x \in In(queue'[u]) : x.kind = "shutdown" => x \in In(queue[u])
    OBVIOUS
  <2> QED
    BY <2>1, <2>2 DEF Inv, Leads
<1>2. Calls' /\ \A r \in Requests : Ends(r)
  BY DEF Inv, Calls, Ends
<1>3. \A u \in Tabs : \A d \in In(serving'[u]) : GoodDelivery(u, d, call', Len(terms))
  BY DEF Inv, Work
<1>4. \A u \in Tabs : \A x \in In(queue'[u]) :
             /\ GoodTurn(u, x, In(serving'[u]), call', executed, Len(terms))
             /\ x \in In(queue[u]) \/ x.kind = "shutdown" \/ executed[x.request] = 0
  <2> SUFFICES ASSUME NEW u \in Tabs, NEW x \in In(queue'[u])
               PROVE  /\ GoodTurn(u, x, In(serving'[u]), call, executed, Len(terms))
                      /\ x \in In(queue[u]) \/ x.kind = "shutdown" \/ executed[x.request] = 0
    OBVIOUS
  <2>1. x \in In(queue[u]) => GoodTurn(u, x, In(serving[u]), call, executed, Len(terms))
    BY DEF Inv, Work
  <2>2. CASE u # t
    BY <2>1, <2>2
  <2>3. CASE u = t
    BY <2>1, <2>3 DEF GoodTurn
  <2> QED
    BY <2>2, <2>3
<1>5. \A u \in Tabs : Distinct(queue'[u])
  BY DEF Inv, Work
<1>6. \A u \in Tabs, r \in Requests :
          leading'[u] # 0 /\ call[r].pc = "told" /\ Reaches(u, r)' => Reaches(u, r)
  <2> SUFFICES ASSUME NEW u \in Tabs, NEW r \in Requests, leading[u] # 0, Reaches(u, r)'
               PROVE  Reaches(u, r)
    OBVIOUS
  <2>1. CASE \E m \in In(inbox'[u]) : m.kind = "op" /\ m.request = r
    BY <2>1 DEF Reaches
  <2>2. ASSUME NEW d \in In(serving'[u]), d.request = r,
               d.phase = "lock" \/ (d.phase = "check" /\ d.term = leading[u])
        PROVE  Reaches(u, r)
    <3>1. CASE u = t
      BY <2>2, <3>1
    <3>2. CASE u # t
      BY <2>2, <3>2 DEF Reaches
    <3> QED
      BY <3>1, <3>2
  <2> QED
    BY <2>1, <2>2 DEF Reaches
<1> QED
  BY <1>1, <1>2, <1>3, <1>4, <1>5, <1>6, Acts

(* A sequence with one element replaced. *)
LEMMA Replaced ==
  ASSUME NEW S, NEW s \in Seq(S), NEW i \in 1 .. Len(s), NEW x \in S
  PROVE  /\ [s EXCEPT ![i] = x] \in Seq(S)
         /\ Len([s EXCEPT ![i] = x]) = Len(s)
         /\ \A j \in 1 .. Len(s) : [s EXCEPT ![i] = x][j] = IF j = i THEN x ELSE s[j]
         /\ In([s EXCEPT ![i] = x]) \subseteq In(s) \cup {x}
         /\ x \in In([s EXCEPT ![i] = x])
         /\ \A y \in In(s) : y = s[i] \/ y \in In([s EXCEPT ![i] = x])
<1> DEFINE e == [s EXCEPT ![i] = x]
<1>1. /\ e \in Seq(S) /\ Len(e) = Len(s)
      /\ \A j \in 1 .. Len(s) : e[j] = IF j = i THEN x ELSE s[j]
  BY ExceptSeq
<1> HIDE DEF e
<1>2. In(e) \subseteq In(s) \cup {x} /\ x \in In(e) /\ \A y \in In(s) : y = s[i] \/ y \in In(e)
  BY <1>1 DEF In
<1> QED
  BY <1>1, <1>2 DEF e

(* A sequence without one element. *)
LEMMA Dropped ==
  ASSUME NEW S, NEW s \in Seq(S), NEW i \in 1 .. Len(s)
  PROVE  /\ Without(s, {i}) \in Seq(S) /\ In(Without(s, {i})) \subseteq In(s)
         /\ \A y \in In(s) : y = s[i] \/ y \in In(Without(s, {i}))
<1>1. Without(s, {i}) \in Seq(S) /\ In(Without(s, {i})) = {s[j] : j \in (1 .. Len(s)) \ {i}}
  BY Remaining
<1> QED
  BY <1>1 DEF In

(* A server's answer is true of what was executed. *)
LEMMA Replied ==
  ASSUME TypeOK, NEW r \in Requests, NEW kind \in Answers \cup {"declined"},
         kind = "ok" => executed[r] = 1,
         NEW boxes \in [Tabs -> Seq(Message)],
         \A u \in Tabs : In(boxes[u]) \subseteq In(inbox[u]),
         inbox' = Posted(boxes, From[r], Reply(kind, r))
  PROVE  /\ inbox' \in [Tabs -> Seq(Message)]
         /\ \A u \in Tabs : \A m \in In(inbox'[u]) :
               m \in In(inbox[u]) \/ (m.kind # "op" /\ GoodMessage(u, m, call, executed))
<1>1. From[r] \in Tabs /\ Reply(kind, r) \in Message
  BY MessageTypes
<1>2. /\ inbox' \in [Tabs -> Seq(Message)]
      /\ \A u \in Tabs : In(inbox'[u]) \subseteq In(boxes[u]) \cup (IF u = From[r] THEN {Reply(kind, r)} ELSE {})
  <2>1. /\ Posted(boxes, From[r], Reply(kind, r)) \in [Tabs -> Seq(Message)]
        /\ \A u \in Tabs : In(Posted(boxes, From[r], Reply(kind, r))[u])
              \subseteq In(boxes[u]) \cup (IF u = From[r] THEN {Reply(kind, r)} ELSE {})
    BY <1>1, PostedFacts, ZenonT(30)
  <2> QED
    BY <2>1
<1>3. \A u \in Tabs : Reply(kind, r).kind # "op" /\ GoodMessage(u, Reply(kind, r), call, executed)
  BY DEF Reply, GoodMessage, Answers, Outcomes
<1> QED
  BY <1>2, <1>3

(* An operation arrives: it is declined, refused or becomes a delivery. *)
LEMMA ReceiveOpInv ==
  ASSUME Inv, NEW t \in Tabs, ReceiveOp(t)
  PROVE  Inv'
<1> DEFINE m == Head(inbox[t])
           r == m.request
<1>1. /\ TypeOK /\ inbox \in [Tabs -> Seq(Message)] /\ serving \in [Tabs -> Seq(Delivery)]
      /\ leading \in [Tabs -> 0 .. MaxTerms] /\ MaxTerms \in Nat
  BY ServedRequestsAssumption DEF Inv, TypeOK
<1>2. inbox[t] # <<>> /\ m.kind = "op" /\ UNCHANGED <<now, tabVars, known, graceful, remembered, queue, call, executed>>
  BY DEF ReceiveOp, Hears
<1>3. /\ Heard(t) \in [Tabs -> Seq(Message)] /\ m \in In(inbox[t])
      /\ \A u \in Tabs : In(Heard(t)[u]) \subseteq In(inbox[u])
  BY <1>1, <1>2, HeardFacts
<1>4. r \in Requests /\ From[r] # t /\ call[r].sentRemotely
  BY <1>2, <1>3 DEF Inv, Mail, GoodMessage
<1>5. UNCHANGED <<mode, holder, leading, known, call, executed, terms, leaving, now, graceful, remembered, queue>>
  BY <1>2 DEF tabVars
<1>6. /\ \A q \in Requests : AnswersFor(Len(terms), q) => AnswersFor(Len(terms), q)'
      /\ \A e \in Entries' : executed[e.key] = 1 /\ e.sentAt = call[e.key].sentAt
      /\ \A u \in Tabs, q \in Requests : remembered'[u][q] = "ok" => executed[q] = 1
      /\ Distinct(queue'[t])
      /\ \A x \in In(queue[t]) : x.kind = "serve" => \E d \in In(serving[t]) : d.request = x.request /\ d.phase = "run"
  BY <1>5 DEF AnswersFor, Logged, Ledger, Entries, Inv, Truth, Work, GoodTurn
<1>7. CASE /\ \E kind \in {"declined", "coordination"} : inbox' = Posted(Heard(t), From[r], Reply(kind, r))
           /\ UNCHANGED serving
  <2>1. PICK kind \in {"declined", "coordination"} : inbox' = Posted(Heard(t), From[r], Reply(kind, r))
    BY <1>7
  <2>2. kind \in Answers \cup {"declined"} /\ kind # "ok"
    BY DEF Answers
  <2>3. /\ inbox' \in [Tabs -> Seq(Message)]
        /\ \A u \in Tabs : \A x \in In(inbox'[u]) :
              x \in In(inbox[u]) \/ (x.kind # "op" /\ GoodMessage(u, x, call, executed))
    <3> HIDE DEF r
    <3> QED
      BY <1>1, <1>3, <1>4, <2>1, <2>2, Replied
  <2>4. TypeOK'
    BY <1>1, <1>5, <1>7, <2>3 DEF TypeOK
  <2>5. \A d \in In(serving'[t]) :
             leading[t] # 0 /\ (d.phase = "lock" \/ (d.phase = "check" /\ d.term = leading[t]))
             => Reaches(t, d.request)
    BY <1>7 DEF Reaches
  <2> QED
    BY <1>5, <1>6, <1>7, <2>3, <2>4, <2>5, Serves1
<1>8. CASE /\ leading[t] # 0 /\ inbox' = Heard(t)
           /\ serving' = [serving EXCEPT ![t] = Append(serving[t],
                  IF r \in InFlight(t) \/ remembered[t][r] # "none"
                  THEN [request |-> r, phase |-> "check", term |-> leading[t]]
                  ELSE [request |-> r, phase |-> "lock", term |-> 0])]
  <2>1. PICK d : /\ serving' = [serving EXCEPT ![t] = Append(serving[t], d)]
                 /\ d \in { [request |-> r, phase |-> "check", term |-> leading[t]],
                            [request |-> r, phase |-> "lock", term |-> 0] }
    BY <1>8
  <2>2. d \in Delivery
    BY <1>1, <1>4, <2>1 DEF Delivery
  <2>3. leading[t] = Len(terms)
    BY <1>8 DEF Inv, Leads
  <2>4. GoodDelivery(t, d, call, Len(terms)) /\ d.request = r
    BY <1>4, <1>8, <2>1, <2>3, <1>1 DEF GoodDelivery
  <2>5. Append(serving[t], d) \in Seq(Delivery) /\ In(Append(serving[t], d)) = In(serving[t]) \cup {d}
    BY <1>1, <2>2, Appended
  <2>6. /\ serving' \in [Tabs -> Seq(Delivery)] /\ In(serving'[t]) = In(serving[t]) \cup {d}
        /\ \A u \in Tabs \ {t} : serving'[u] = serving[u]
    BY <1>1, <2>1, <2>5
  <2>7. TypeOK'
    BY <1>1, <1>3, <1>5, <1>8, <2>6 DEF TypeOK
  <2>8. Reaches(t, r)
    BY <1>2, <1>3 DEF Reaches
  <2>9. \A x \in In(serving'[t]) :
             leading[t] # 0 /\ (x.phase = "lock" \/ (x.phase = "check" /\ x.term = leading[t]))
             => Reaches(t, x.request)
    <3>1. \A x \in In(serving[t]) :
             (x.phase = "lock" \/ (x.phase = "check" /\ x.term = leading[t])) => Reaches(t, x.request)
      BY DEF Reaches
    <3> HIDE DEF r
    <3> QED
      BY <2>4, <2>6, <2>8, <3>1
  <2>10. \A u \in Tabs : \A x \in In(inbox'[u]) : x \in In(inbox[u])
    BY <1>3, <1>8
  <2>11. \A x \in In(queue'[t]) :
             /\ x \in In(queue[t])
             /\ x.kind = "serve" => \E y \in In(serving'[t]) : y.request = x.request /\ y.phase = "run"
    BY <1>5, <1>6, <2>6
  <2> QED
    BY <1>5, <1>6, <2>4, <2>6, <2>7, <2>9, <2>10, <2>11, Serves1
<1> QED
  BY <1>7, <1>8 DEF ReceiveOp

(* One delivery of a tab is dropped; what runs is kept. *)
LEMMA DeliveryDropped ==
  ASSUME TypeOK, NEW t \in Tabs, NEW i \in 1 .. Len(serving[t]), serving[t][i].phase # "run",
         serving' = [serving EXCEPT ![t] = Without(serving[t], {i})]
  PROVE  /\ serving' \in [Tabs -> Seq(Delivery)]
         /\ \A u \in Tabs \ {t} : serving'[u] = serving[u]
         /\ \A d \in In(serving[t]) : d.phase = "run" => d \in In(serving'[t])
         /\ In(serving'[t]) \subseteq In(serving[t])
<1>1. serving \in [Tabs -> Seq(Delivery)] /\ serving[t] \in Seq(Delivery)
  BY DEF TypeOK
<1>2. /\ Without(serving[t], {i}) \in Seq(Delivery) /\ In(Without(serving[t], {i})) \subseteq In(serving[t])
      /\ \A y \in In(serving[t]) : y = serving[t][i] \/ y \in In(Without(serving[t], {i}))
  BY <1>1, Dropped
<1>3. /\ serving'[t] = Without(serving[t], {i})
      /\ serving' \in [Tabs -> Seq(Delivery)] /\ \A u \in Tabs \ {t} : serving'[u] = serving[u]
  BY <1>1, <1>2
<1> QED
  BY <1>2, <1>3

(* One delivery of a tab goes on to another phase; what runs is kept. *)
LEMMA DeliveryReplaced ==
  ASSUME TypeOK, NEW t \in Tabs, NEW i \in 1 .. Len(serving[t]), serving[t][i].phase # "run",
         NEW d \in Delivery, serving' = [serving EXCEPT ![t] = [serving[t] EXCEPT ![i] = d]]
  PROVE  /\ serving' \in [Tabs -> Seq(Delivery)]
         /\ \A u \in Tabs \ {t} : serving'[u] = serving[u]
         /\ \A y \in In(serving[t]) : y.phase = "run" => y \in In(serving'[t])
         /\ In(serving'[t]) \subseteq In(serving[t]) \cup {d} /\ d \in In(serving'[t])
<1> DEFINE e == [serving[t] EXCEPT ![i] = d]
<1>1. serving \in [Tabs -> Seq(Delivery)] /\ serving[t] \in Seq(Delivery)
  BY DEF TypeOK
<1>2. /\ e \in Seq(Delivery) /\ In(e) \subseteq In(serving[t]) \cup {d} /\ d \in In(e)
      /\ \A y \in In(serving[t]) : y = serving[t][i] \/ y \in In(e)
  BY <1>1, Replaced
<1>3. serving' = [serving EXCEPT ![t] = e]
  OBVIOUS
<1> HIDE DEF e
<1>4. /\ serving'[t] = e
      /\ serving' \in [Tabs -> Seq(Delivery)] /\ \A u \in Tabs \ {t} : serving'[u] = serving[u]
  BY <1>1, <1>2, <1>3
<1> QED
  BY <1>2, <1>4

(* What stays when a step touches neither the log nor the memory nor the turns. *)
LEMMA LogStays ==
  ASSUME Inv, NEW t \in Tabs, UNCHANGED <<terms, call, executed, queue>>
  PROVE  /\ Len(terms') = Len(terms)
         /\ \A q \in Requests : AnswersFor(Len(terms), q) => AnswersFor(Len(terms), q)'
         /\ \A e \in Entries' : executed[e.key] = 1 /\ e.sentAt = call[e.key].sentAt
         /\ Distinct(queue'[t])
         /\ \A x \in In(queue'[t]) :
               /\ x \in In(queue[t])
               /\ x.kind = "serve" => \E d \in In(serving[t]) : d.request = x.request /\ d.phase = "run"
BY DEF AnswersFor, Logged, Ledger, Entries, Inv, Truth, Work, GoodTurn

(* The lock chain brings a delivery to its check, in the present leadership. *)
LEMMA TakeLockInv ==
  ASSUME Inv, NEW t \in Tabs, TakeLock(t)
  PROVE  Inv'
<1>1. PICK i \in 1 .. Len(serving[t]) :
        /\ serving[t][i].phase = "lock"
        /\ serving' = [serving EXCEPT ![t] =
              IF leading[t] = 0 THEN Without(serving[t], {i})
              ELSE [serving[t] EXCEPT ![i].phase = "check", ![i].term = leading[t]]]
        /\ UNCHANGED <<now, tabVars, known, graceful, inbox, remembered, queue, call, executed>>
  BY DEF TakeLock
<1> DEFINE d == [serving[t][i] EXCEPT !.phase = "check", !.term = leading[t]]
<1>2. /\ TypeOK /\ serving[t] \in Seq(Delivery) /\ serving[t][i] \in Delivery /\ leading[t] \in 0 .. MaxTerms
      /\ serving[t][i] \in In(serving[t])
  BY ElementOfSeq DEF Inv, TypeOK, In
<1>3. d \in Delivery /\ d.request = serving[t][i].request /\ d.phase = "check" /\ d.term = leading[t]
  BY <1>2 DEF Delivery
<1>4. [serving[t] EXCEPT ![i].phase = "check", ![i].term = leading[t]] = [serving[t] EXCEPT ![i] = d]
  BY <1>2
<1>5. leading[t] # 0 => GoodDelivery(t, d, call, Len(terms))
  <2>1. GoodDelivery(t, serving[t][i], call, Len(terms)) /\ (leading[t] # 0 => leading[t] = Len(terms))
    BY <1>2 DEF Inv, Work, Leads
  <2> QED
    BY <1>2, <1>3, <2>1 DEF GoodDelivery
<1>6. Reaches(t, serving[t][i].request) /\ d.request = serving[t][i].request
  BY <1>1, <1>2, <1>3 DEF Reaches
<1> HIDE DEF d
<1>7. /\ serving' \in [Tabs -> Seq(Delivery)]
      /\ \A u \in Tabs \ {t} : serving'[u] = serving[u]
      /\ \A y \in In(serving[t]) : y.phase = "run" => y \in In(serving'[t])
      /\ In(serving'[t]) \subseteq In(serving[t]) \cup (IF leading[t] # 0 THEN {d} ELSE {})
  <2>1. serving[t][i].phase # "run"
    BY <1>1
  <2>2. CASE leading[t] = 0
    <3>1. serving' = [serving EXCEPT ![t] = Without(serving[t], {i})]
      BY <1>1, <2>2
    <3> QED
      BY <1>2, <2>1, <3>1, DeliveryDropped
  <2>3. CASE leading[t] # 0
    <3>1. serving' = [serving EXCEPT ![t] = [serving[t] EXCEPT ![i] = d]]
      BY <1>1, <1>4, <2>3
    <3> QED
      BY <1>2, <1>3, <2>1, <2>3, <3>1, DeliveryReplaced
  <2> QED
    BY <2>2, <2>3
<1>8. UNCHANGED <<mode, holder, leading, known, call, executed, terms, queue, remembered, inbox, now, leaving, graceful>>
  BY <1>1 DEF tabVars
<1>9. TypeOK'
  BY <1>2, <1>7, <1>8 DEF TypeOK
<1>10. \A y \in In(serving'[t]) :
             leading[t] # 0 /\ (y.phase = "lock" \/ (y.phase = "check" /\ y.term = leading[t]))
             => Reaches(t, y.request)
  <2>1. \A y \in In(serving[t]) :
             (y.phase = "lock" \/ (y.phase = "check" /\ y.term = leading[t])) => Reaches(t, y.request)
    BY DEF Reaches
  <2> QED
    BY <1>6, <1>7, <2>1
<1>11. \A y \in In(serving'[t]) : y \in In(serving[t]) \/ GoodDelivery(t, y, call, Len(terms))
  BY <1>5, <1>7
<1>12. /\ \A q \in Requests : AnswersFor(Len(terms), q) => AnswersFor(Len(terms), q)'
       /\ \A e \in Entries' : executed[e.key] = 1 /\ e.sentAt = call[e.key].sentAt
       /\ Distinct(queue'[t]) /\ Len(terms') = Len(terms)
       /\ \A x \in In(queue'[t]) :
               /\ x \in In(queue[t])
               /\ x.kind = "serve" => \E y \in In(serving'[t]) : y.request = x.request /\ y.phase = "run"
  BY <1>7, <1>8, LogStays
<1>13. \A u \in Tabs, q \in Requests : remembered'[u][q] = "ok" => executed[q] = 1
  BY <1>8 DEF Inv, Truth
<1> QED
  BY <1>7, <1>8, <1>9, <1>10, <1>11, <1>12, <1>13, Serves1

(* A delivery has the parts of one. *)
LEMMA DeliveryAt ==
  ASSUME TypeOK, NEW t \in Tabs, NEW i \in 1 .. Len(serving[t])
  PROVE  /\ serving[t] \in Seq(Delivery) /\ serving[t][i] \in Delivery
         /\ serving[t][i] \in In(serving[t]) /\ serving[t][i].request \in Requests
<1>1. serving[t] \in Seq(Delivery)
  BY DEF TypeOK
<1>2. serving[t][i] \in Delivery
  BY <1>1, ElementOfSeq
<1>3. \A d \in Delivery : d.request \in Requests
  BY DEF Delivery
<1> QED
  BY <1>1, <1>2, <1>3 DEF In

(* A delivery that waits is answered truly and is done. *)
LEMMA AnswerOneInv ==
  ASSUME Inv, NEW t \in Tabs, NEW i \in 1 .. Len(serving[t]), serving[t][i].phase # "run",
         NEW kind \in Answers \cup {"declined"},
         kind = "ok" => executed[serving[t][i].request] = 1,
         AnswerOne(t, i, kind),
         UNCHANGED <<now, tabVars, known, graceful, queue, call, executed>>,
         remembered' \in [Tabs -> [Requests -> Outcomes \cup {"none"}]],
         \A u \in Tabs, q \in Requests : remembered'[u][q] = "ok" => executed[q] = 1
  PROVE  Inv'
<1> DEFINE r == serving[t][i].request
<1>1. TypeOK /\ inbox \in [Tabs -> Seq(Message)] /\ serving[t] \in Seq(Delivery)
  BY DEF Inv, TypeOK
<1>2. r \in Requests
  BY <1>1, DeliveryAt
<1>3. inbox' = Posted(inbox, From[r], Reply(kind, r)) /\ serving' = [serving EXCEPT ![t] = Without(serving[t], {i})]
  BY DEF AnswerOne
<1>4. /\ inbox' \in [Tabs -> Seq(Message)]
      /\ \A u \in Tabs : \A m \in In(inbox'[u]) :
            m \in In(inbox[u]) \/ (m.kind # "op" /\ GoodMessage(u, m, call, executed))
  <2>1. executed[r] = 1 \/ kind # "ok"
    OBVIOUS
  <2> HIDE DEF r
  <2> QED
    BY <1>1, <1>2, <1>3, <2>1, Replied
<1>5. /\ serving' \in [Tabs -> Seq(Delivery)]
      /\ \A u \in Tabs \ {t} : serving'[u] = serving[u]
      /\ \A y \in In(serving[t]) : y.phase = "run" => y \in In(serving'[t])
      /\ In(serving'[t]) \subseteq In(serving[t])
  BY <1>1, <1>3, DeliveryDropped
<1>6. UNCHANGED <<mode, holder, leading, known, call, executed, terms, queue, now, leaving, graceful>>
  BY DEF tabVars
<1>7. TypeOK'
  BY <1>1, <1>4, <1>5, <1>6 DEF TypeOK
<1>8. \A y \in In(serving'[t]) :
             leading[t] # 0 /\ (y.phase = "lock" \/ (y.phase = "check" /\ y.term = leading[t]))
             => Reaches(t, y.request)
  BY <1>5 DEF Reaches
<1>9. /\ \A q \in Requests : AnswersFor(Len(terms), q) => AnswersFor(Len(terms), q)'
      /\ \A e \in Entries' : executed[e.key] = 1 /\ e.sentAt = call[e.key].sentAt
      /\ Distinct(queue'[t]) /\ Len(terms') = Len(terms)
      /\ \A x \in In(queue'[t]) :
               /\ x \in In(queue[t])
               /\ x.kind = "serve" => \E y \in In(serving'[t]) : y.request = x.request /\ y.phase = "run"
  BY <1>5, <1>6, LogStays
<1> QED
  BY <1>4, <1>5, <1>6, <1>7, <1>8, <1>9, Serves1

(* What the log has for settled or uncertain was executed. *)
LEMMA LoggedRan ==
  ASSUME Inv, NEW n \in 1 .. Len(terms), NEW r \in Requests, Logged(n, r)
  PROVE  executed[r] = 1
<1>1. PICK j \in 1 .. Len(Ledger(n)) : Ledger(n)[j].key = r
  BY DEF Logged
<1>2. Ledger(n)[j] \in Entries
  BY DEF Entries, In, Ledger
<1> QED
  BY <1>1, <1>2 DEF Inv, Truth

(* Turns stay distinct when one of a new kind or of a new request is appended, and when *)
(* the first one ends.                                                                   *)
LEMMA DistinctAppend ==
  ASSUME NEW q \in Seq(Turn), NEW y \in Turn, Distinct(q),
         \A x \in In(q) : ~(x.kind = y.kind /\ x.request = y.request)
  PROVE  Distinct(Append(q, y))
<1>1. /\ Len(Append(q, y)) = Len(q) + 1 /\ Len(q) \in Nat
      /\ \A i \in 1 .. Len(q) : Append(q, y)[i] = q[i]
      /\ Append(q, y)[Len(q) + 1] = y
  BY Appended, LenProperties
<1>2. \A i \in 1 .. Len(q) + 1 : i \in 1 .. Len(q) \/ i = Len(q) + 1
  BY <1>1
<1>3. \A i \in 1 .. Len(q) : q[i] \in In(q)
  BY DEF In
<1> QED
  BY <1>1, <1>2, <1>3 DEF Distinct

(* The rest of a tab's turns, none of which is for what the first one was for. *)
LEMMA DistinctTail ==
  ASSUME NEW q \in Seq(Turn), q # <<>>, Distinct(q)
  PROVE  /\ Distinct(Tail(q))
         /\ \A x \in In(Tail(q)) : ~(x.kind = Head(q).kind /\ x.request = Head(q).request)
<1>1. /\ Len(Tail(q)) = Len(q) - 1 /\ Len(q) \in Nat \ {0} /\ Head(q) = q[1]
      /\ \A i \in 1 .. Len(Tail(q)) : Tail(q)[i] = q[i + 1] /\ i + 1 \in 1 .. Len(q)
  BY Headed
<1>2. Distinct(Tail(q))
  <2> SUFFICES ASSUME NEW i \in 1 .. Len(Tail(q)), NEW j \in 1 .. Len(Tail(q)),
                      Tail(q)[i].kind = Tail(q)[j].kind, Tail(q)[i].request = Tail(q)[j].request
               PROVE  i = j
    BY DEF Distinct
  <2>1. i + 1 = j + 1
    BY <1>1 DEF Distinct
  <2> QED
    BY <2>1, <1>1
<1>3. ASSUME NEW i \in 1 .. Len(Tail(q)),
             Tail(q)[i].kind = Head(q).kind, Tail(q)[i].request = Head(q).request
      PROVE  FALSE
  <2>1. 1 \in 1 .. Len(q) /\ i + 1 # 1
    BY <1>1
  <2> QED
    BY <1>1, <1>3, <2>1 DEF Distinct
<1> QED
  BY <1>2, <1>3 DEF In

(* The check of a delivery: it is answered from memory or from the log, waits for the one *)
(* that runs, or takes a turn, and then the request did not run before.                   *)
LEMMA CheckInv ==
  ASSUME Inv, NEW t \in Tabs, Check(t)
  PROVE  Inv'
<1>1. PICK i \in 1 .. Len(serving[t]) :
        LET r == serving[t][i].request
            term == serving[t][i].term IN
        /\ serving[t][i].phase = "check"
        /\ \/ /\ remembered[t][r] # "none" /\ AnswerOne(t, i, remembered[t][r])
              /\ UNCHANGED <<remembered, queue>>
           \/ /\ remembered[t][r] = "none" /\ r \in InFlight(t)
              /\ serving' = [serving EXCEPT ![t][i].phase = "attached"]
              /\ UNCHANGED <<inbox, remembered, queue>>
           \/ /\ Logged(term, r)
              /\ AnswerOne(t, i, IF Settled(term, r) THEN "ok" ELSE "uncertain")
              /\ remembered' = IF Settled(term, r) THEN [remembered EXCEPT ![t][r] = "ok"] ELSE remembered
              /\ UNCHANGED queue
           \/ /\ \E kind \in {"uncertain", "coordination", "declined"} : AnswerOne(t, i, kind)
              /\ UNCHANGED <<remembered, queue>>
           \/ /\ r \notin InFlight(t) /\ ~Logged(term, r) /\ ~(call[r].sentAt < terms[term].coverage)
              /\ leading[t] = term
              /\ serving' = [serving EXCEPT ![t][i].phase = "run"]
              /\ queue' = [queue EXCEPT ![t] = Append(@, [kind |-> "serve", request |-> r,
                                                          term |-> term, applied |-> FALSE])]
              /\ UNCHANGED <<inbox, remembered>>
  BY DEF Check
<1> DEFINE d == serving[t][i]
           r == d.request
           term == d.term
<1>2. /\ TypeOK /\ serving[t] \in Seq(Delivery) /\ d \in Delivery /\ r \in Requests
      /\ d \in In(serving[t]) /\ d.phase = "check"
      /\ remembered \in [Tabs -> [Requests -> Outcomes \cup {"none"}]]
      /\ leading[t] \in 0 .. MaxTerms /\ term \in 0 .. MaxTerms /\ Len(terms) \in Nat /\ MaxTerms \in Nat
  <2>1. TypeOK
    BY DEF Inv
  <2>2. /\ remembered \in [Tabs -> [Requests -> Outcomes \cup {"none"}]] /\ leading[t] \in 0 .. MaxTerms
        /\ Len(terms) \in Nat /\ MaxTerms \in Nat
    BY <2>1, Parts DEF TypeOK
  <2>3. \A x \in Delivery : x.term \in 0 .. MaxTerms
    BY DEF Delivery
  <2> QED
    BY <1>1, <2>1, <2>2, <2>3, DeliveryAt
<1>3. /\ From[r] # t /\ call[r].sentRemotely /\ term \in 1 .. Len(terms)
      /\ leading[t] # 0 => leading[t] = Len(terms) /\ mode[t] = "up"
  <2>1. GoodDelivery(t, d, call, Len(terms)) /\ (leading[t] # 0 => leading[t] = Len(terms) /\ mode[t] = "up")
    BY <1>2 DEF Inv, Work, Leads
  <2> QED
    BY <1>2, <2>1 DEF GoodDelivery
<1>4. UNCHANGED <<now, tabVars, known, graceful, call, executed>>
  BY DEF Check
<1>5. \A u \in Tabs, q \in Requests : remembered[u][q] = "ok" => executed[q] = 1
  BY DEF Inv, Truth
<1>6. CASE /\ remembered[t][r] # "none" /\ AnswerOne(t, i, remembered[t][r])
           /\ UNCHANGED <<remembered, queue>>
  <2>1. remembered[t][r] \in Answers \cup {"declined"}
    BY <1>2, <1>6 DEF Answers
  <2>2. d.phase # "run"
    BY <1>2
  <2> QED
    BY <1>2, <1>4, <1>5, <1>6, <2>1, <2>2, AnswerOneInv
<1>7. CASE /\ Logged(term, r)
           /\ AnswerOne(t, i, IF Settled(term, r) THEN "ok" ELSE "uncertain")
           /\ remembered' = IF Settled(term, r) THEN [remembered EXCEPT ![t][r] = "ok"] ELSE remembered
           /\ UNCHANGED queue
  <2>1. executed[r] = 1
    BY <1>2, <1>3, <1>7, LoggedRan
  <2>2. d.phase # "run" /\ {"ok", "uncertain"} \subseteq Answers \cup {"declined"}
    BY <1>2 DEF Answers, Outcomes
  <2>3. remembered' \in [Tabs -> [Requests -> Outcomes \cup {"none"}]]
    <3>1. [remembered EXCEPT ![t][r] = "ok"] \in [Tabs -> [Requests -> Outcomes \cup {"none"}]]
      BY <1>2 DEF Outcomes
    <3> QED
      BY <1>2, <1>7, <3>1
  <2>4. \A u \in Tabs, q \in Requests : remembered'[u][q] = "ok" => executed[q] = 1
    <3> DEFINE rr == r
    <3>1. \A u \in Tabs, q \in Requests :
             [remembered EXCEPT ![t][rr] = "ok"][u][q] = IF u = t /\ q = rr THEN "ok" ELSE remembered[u][q]
      <4> HIDE DEF rr
      <4> QED
        BY <1>2
    <3> QED
      BY <1>5, <1>7, <2>1, <3>1
  <2> QED
    BY <1>2, <1>4, <1>7, <2>1, <2>2, <2>3, <2>4, AnswerOneInv
<1>8. CASE /\ \E kind \in {"uncertain", "coordination", "declined"} : AnswerOne(t, i, kind)
           /\ UNCHANGED <<remembered, queue>>
  <2>1. PICK kind \in {"uncertain", "coordination", "declined"} : AnswerOne(t, i, kind)
    BY <1>8
  <2>2. d.phase # "run" /\ kind \in Answers \cup {"declined"} /\ kind # "ok"
    BY <1>2 DEF Answers, Outcomes
  <2> QED
    BY <1>2, <1>4, <1>5, <1>8, <2>1, <2>2, AnswerOneInv
<1>9. CASE /\ serving' = [serving EXCEPT ![t][i].phase = "attached"]
           /\ UNCHANGED <<inbox, remembered, queue>>
  <2> DEFINE e == [d EXCEPT !.phase = "attached"]
  <2>1. e \in Delivery /\ e.request = r /\ e.term = term /\ e.phase = "attached"
    BY <1>2 DEF Delivery
  <2>2. serving' = [serving EXCEPT ![t] = [serving[t] EXCEPT ![i] = e]] /\ d.phase # "run"
    BY <1>2, <1>9
  <2>3. GoodDelivery(t, e, call, Len(terms))
    BY <1>2, <1>3, <2>1 DEF GoodDelivery
  <2> HIDE DEF e
  <2>4. /\ serving' \in [Tabs -> Seq(Delivery)]
        /\ \A u \in Tabs \ {t} : serving'[u] = serving[u]
        /\ \A y \in In(serving[t]) : y.phase = "run" => y \in In(serving'[t])
        /\ In(serving'[t]) \subseteq In(serving[t]) \cup {e}
    BY <1>2, <2>1, <2>2, DeliveryReplaced
  <2>5. UNCHANGED <<mode, holder, leading, known, call, executed, terms, queue, inbox, remembered, now, leaving, graceful>>
    BY <1>4, <1>9 DEF tabVars
  <2>6. TypeOK'
    BY <1>2, <2>4, <2>5 DEF TypeOK
  <2>7. \A y \in In(serving'[t]) :
             leading[t] # 0 /\ (y.phase = "lock" \/ (y.phase = "check" /\ y.term = leading[t]))
             => Reaches(t, y.request)
    BY <2>1, <2>4 DEF Reaches
  <2>8. /\ \A q \in Requests : AnswersFor(Len(terms), q) => AnswersFor(Len(terms), q)'
        /\ \A x \in Entries' : executed[x.key] = 1 /\ x.sentAt = call[x.key].sentAt
        /\ Distinct(queue'[t]) /\ Len(terms') = Len(terms)
        /\ \A x \in In(queue'[t]) :
               /\ x \in In(queue[t])
               /\ x.kind = "serve" => \E y \in In(serving'[t]) : y.request = x.request /\ y.phase = "run"
    BY <2>4, <2>5, LogStays
  <2> QED
    BY <1>5, <2>3, <2>4, <2>5, <2>6, <2>7, <2>8, Serves1
<1>10. CASE /\ r \notin InFlight(t) /\ ~Logged(term, r) /\ ~(call[r].sentAt < terms[term].coverage)
            /\ leading[t] = term
            /\ serving' = [serving EXCEPT ![t][i].phase = "run"]
            /\ queue' = [queue EXCEPT ![t] = Append(@, [kind |-> "serve", request |-> r,
                                                        term |-> term, applied |-> FALSE])]
            /\ UNCHANGED <<inbox, remembered>>
  <2> DEFINE e == [d EXCEPT !.phase = "run"]
             y == [kind |-> "serve", request |-> r, term |-> term, applied |-> FALSE]
  <2>1. e \in Delivery /\ e.request = r /\ e.term = term /\ e.phase = "run"
    BY <1>2 DEF Delivery
  <2>2. serving' = [serving EXCEPT ![t] = [serving[t] EXCEPT ![i] = e]] /\ d.phase # "run"
    BY <1>2, <1>10
  <2>3. GoodDelivery(t, e, call, Len(terms))
    BY <1>2, <1>3, <2>1 DEF GoodDelivery
  <2>4. /\ y \in Turn /\ y.kind = "serve" /\ y.request = r /\ y.term = term /\ ~y.applied
    BY <1>2, <1>3 DEF Turn
  <2>5. queue' = [queue EXCEPT ![t] = Append(queue[t], y)]
    BY <1>10
  <2> HIDE DEF e, y
  <2>6. /\ serving' \in [Tabs -> Seq(Delivery)]
        /\ \A u \in Tabs \ {t} : serving'[u] = serving[u]
        /\ \A z \in In(serving[t]) : z.phase = "run" => z \in In(serving'[t])
        /\ In(serving'[t]) \subseteq In(serving[t]) \cup {e} /\ e \in In(serving'[t])
    BY <1>2, <2>1, <2>2, DeliveryReplaced
  <2>7. term = Len(terms) /\ mode[t] = "up" /\ leading[t] # 0
    BY <1>2, <1>3, <1>10
  <2>8. executed[r] = 0
    <3>1. ~AnswersFor(Len(terms), r)
      BY <1>10, <2>7 DEF AnswersFor
    <3>2. Reaches(t, r)
      BY <1>2, <1>10 DEF Reaches
    <3>3. executed[r] # 1 /\ executed[r] <= 1 /\ executed[r] \in Nat
      BY <1>2, <2>7, <3>1, <3>2, Parts DEF Inv, Once
    <3> QED
      BY <3>3
  <2>9. queue[t] \in Seq(Turn)
    BY <1>2 DEF TypeOK
  <2>10. /\ queue' \in [Tabs -> Seq(Turn)] /\ queue'[t] = Append(queue[t], y)
         /\ \A u \in Tabs \ {t} : queue'[u] = queue[u]
         /\ In(queue'[t]) = In(queue[t]) \cup {y}
    <3>1. Append(queue[t], y) \in Seq(Turn) /\ In(Append(queue[t], y)) = In(queue[t]) \cup {y}
      BY <2>4, <2>9, Appended
    <3> QED
      BY <1>2, <2>5, <3>1 DEF TypeOK
  <2>11. /\ Distinct(queue[t])
         /\ \A x \in In(queue[t]) : /\ x \in Turn
                                    /\ GoodTurn(t, x, In(serving[t]), call, executed, Len(terms))
    BY <1>2, Parts DEF Inv, Work
  <2>12. \A x \in In(queue[t]) : ~(x.kind = y.kind /\ x.request = y.request)
    <3> SUFFICES ASSUME NEW x \in In(queue[t]), x.kind = "serve", x.request = r PROVE FALSE
      BY <2>4
    <3>1. PICK z \in In(serving[t]) : z.request = r /\ z.phase = "run"
      BY <2>11 DEF GoodTurn
    <3>2. r \in InFlight(t)
      BY <1>2, <2>7, <3>1 DEF InFlight, In
    <3> QED
      BY <1>10, <3>2
  <2>13. Distinct(queue'[t])
    BY <2>4, <2>9, <2>10, <2>11, <2>12, DistinctAppend
  <2>14. UNCHANGED <<mode, holder, leading, known, call, executed, terms, inbox, remembered, now, leaving, graceful>>
    BY <1>4, <1>10 DEF tabVars
  <2>15. TypeOK'
    BY <1>2, <2>6, <2>10, <2>14 DEF TypeOK
  <2>16. \A z \in In(serving'[t]) :
             leading[t] # 0 /\ (z.phase = "lock" \/ (z.phase = "check" /\ z.term = leading[t]))
             => Reaches(t, z.request)
    BY <2>1, <2>6 DEF Reaches
  <2>17. GoodTurn(t, y, In(serving'[t]), call, executed, Len(terms))
    BY <1>2, <1>3, <2>1, <2>4, <2>6 DEF GoodTurn
  <2>18. /\ \A q \in Requests : AnswersFor(Len(terms), q) => AnswersFor(Len(terms), q)'
         /\ \A x \in Entries' : executed[x.key] = 1 /\ x.sentAt = call[x.key].sentAt
    BY <2>14 DEF AnswersFor, Logged, Ledger, Entries, Inv, Truth
  <2>19. \A x \in In(queue'[t]) :
             \/ /\ x \in In(queue[t])
                /\ x.kind = "serve" => \E z \in In(serving'[t]) : z.request = x.request /\ z.phase = "run"
             \/ /\ GoodTurn(t, x, In(serving'[t]), call, executed, Len(terms))
                /\ x.kind # "shutdown" /\ executed[x.request] = 0
    BY <2>4, <2>6, <2>8, <2>10, <2>11, <2>17 DEF GoodTurn
  <2> QED
    BY <1>5, <2>3, <2>6, <2>10, <2>13, <2>14, <2>15, <2>16, <2>18, <2>19, Serves1
<1> QED
  BY <1>1, <1>6, <1>7, <1>8, <1>9, <1>10

(* The first turn of a tab. *)
LEMMA HeadTurn ==
  ASSUME Inv, NEW t \in Tabs, queue[t] # <<>>
  PROVE  /\ queue \in [Tabs -> Seq(Turn)] /\ queue[t] \in Seq(Turn)
         /\ Head(queue[t]) \in Turn /\ Head(queue[t]) \in In(queue[t]) /\ Head(queue[t]) = queue[t][1]
         /\ Head(queue[t]).term \in 1 .. Len(terms)
         /\ GoodTurn(t, Head(queue[t]), In(serving[t]), call, executed, Len(terms))
         /\ Head(queue[t]).kind # "shutdown" =>
               Head(queue[t]).request \in Requests /\ executed[Head(queue[t]).request] \in Nat
         /\ Tail(queue[t]) \in Seq(Turn) /\ In(Tail(queue[t])) \subseteq In(queue[t])
         /\ Distinct(Tail(queue[t]))
         /\ \A x \in In(Tail(queue[t])) :
               ~(x.kind = Head(queue[t]).kind /\ x.request = Head(queue[t]).request)
<1>1. queue \in [Tabs -> Seq(Turn)] /\ queue[t] \in Seq(Turn) /\ TypeOK
  BY DEF Inv, TypeOK
<1>2. /\ Head(queue[t]) \in Turn /\ Head(queue[t]) \in In(queue[t]) /\ Head(queue[t]) = queue[t][1]
      /\ Tail(queue[t]) \in Seq(Turn) /\ In(Tail(queue[t])) \subseteq In(queue[t])
  BY <1>1, Headed
<1>3. GoodTurn(t, Head(queue[t]), In(serving[t]), call, executed, Len(terms)) /\ Distinct(queue[t])
  BY <1>2 DEF Inv, Work
<1>4. Head(queue[t]).term \in 1 .. Len(terms)
  <2>1. \A x \in Turn : x.term \in 1 .. MaxTerms
    BY DEF Turn
  <2>2. Len(terms) \in Nat /\ MaxTerms \in Nat
    BY <1>1, Parts
  <2> QED
    BY <1>2, <1>3, <2>1, <2>2 DEF GoodTurn
<1>5. Head(queue[t]).kind # "shutdown" =>
               Head(queue[t]).request \in Requests /\ executed[Head(queue[t]).request] \in Nat
  BY <1>1, <1>3, Parts DEF GoodTurn
<1> QED
  BY <1>1, <1>2, <1>3, <1>4, <1>5, DistinctTail

(* A turn that serves ends together with the deliveries it answers. *)
LEMMA TurnEnds ==
  ASSUME Inv, NEW t \in Tabs, queue[t] # <<>>, Head(queue[t]).kind = "serve",
         queue' = [queue EXCEPT ![t] = Tail(queue[t])],
         serving' = [serving EXCEPT ![t] = Without(serving[t], AnsweredWith(t, Head(queue[t]).request))]
  PROVE  /\ serving' \in [Tabs -> Seq(Delivery)] /\ queue' \in [Tabs -> Seq(Turn)]
         /\ \A u \in Tabs \ {t} : serving'[u] = serving[u] /\ queue'[u] = queue[u]
         /\ In(serving'[t]) \subseteq In(serving[t])
         /\ \A x \in In(queue'[t]) :
               /\ x \in In(queue[t])
               /\ x.kind = "serve" => \E d \in In(serving'[t]) : d.request = x.request /\ d.phase = "run"
         /\ Distinct(queue'[t])
<1> DEFINE r == Head(queue[t]).request
<1>1. serving \in [Tabs -> Seq(Delivery)] /\ serving[t] \in Seq(Delivery) /\ queue \in [Tabs -> Seq(Turn)]
  BY DEF Inv, TypeOK
<1>2. /\ Without(serving[t], AnsweredWith(t, r)) \in Seq(Delivery)
      /\ In(Without(serving[t], AnsweredWith(t, r)))
            = {serving[t][i] : i \in (1 .. Len(serving[t])) \ AnsweredWith(t, r)}
  <2> HIDE DEF r
  <2> QED
    BY <1>1, Remaining
<1>3. /\ serving'[t] = Without(serving[t], AnsweredWith(t, r)) /\ queue'[t] = Tail(queue[t])
      /\ serving' \in [Tabs -> Seq(Delivery)] /\ \A u \in Tabs \ {t} : serving'[u] = serving[u]
  BY <1>1, <1>2
<1>4. queue' \in [Tabs -> Seq(Turn)] /\ \A u \in Tabs \ {t} : queue'[u] = queue[u]
  BY <1>1, HeadTurn
<1>5. In(serving'[t]) \subseteq In(serving[t])
  <2>1. \A i \in (1 .. Len(serving[t])) \ AnsweredWith(t, r) : serving[t][i] \in In(serving[t])
    BY DEF In
  <2> QED
    BY <1>2, <1>3, <2>1
<1>6. \A d \in In(serving[t]) : d.request # r => d \in In(serving'[t])
  <2> SUFFICES ASSUME NEW i \in 1 .. Len(serving[t]), serving[t][i].request # r
               PROVE  serving[t][i] \in In(serving'[t])
    BY DEF In
  <2>1. i \notin AnsweredWith(t, r)
    BY DEF AnsweredWith
  <2> QED
    BY <1>2, <1>3, <2>1
<1>7. ASSUME NEW x \in In(queue'[t])
      PROVE  /\ x \in In(queue[t])
             /\ x.kind = "serve" => \E d \in In(serving'[t]) : d.request = x.request /\ d.phase = "run"
  <2>1. x \in In(queue[t]) /\ (x.kind = "serve" => x.request # r)
    BY <1>3, HeadTurn
  <2>2. GoodTurn(t, x, In(serving[t]), call, executed, Len(terms))
    BY <2>1 DEF Inv, Work
  <2> QED
    BY <1>6, <2>1, <2>2 DEF GoodTurn
<1>8. Distinct(queue'[t])
  BY <1>3, HeadTurn
<1> QED
  BY <1>3, <1>4, <1>5, <1>7, <1>8

(* A leader that is no leader any more declines a turn. *)
LEMMA DeclineTurnInv ==
  ASSUME Inv, NEW t \in Tabs, DeclineTurn(t)
  PROVE  Inv'
<1> DEFINE r == Head(queue[t]).request
<1>1. /\ queue[t] # <<>> /\ Head(queue[t]).kind = "serve"
      /\ queue' = [queue EXCEPT ![t] = Tail(queue[t])]
      /\ serving' = [serving EXCEPT ![t] = Without(serving[t], AnsweredWith(t, r))]
      /\ inbox' = Posted(inbox, From[r], Reply("declined", r))
      /\ UNCHANGED <<now, tabVars, known, graceful, remembered, call, executed>>
  BY DEF DeclineTurn, Serves
<1>2. /\ serving' \in [Tabs -> Seq(Delivery)] /\ queue' \in [Tabs -> Seq(Turn)]
      /\ \A u \in Tabs \ {t} : serving'[u] = serving[u] /\ queue'[u] = queue[u]
      /\ In(serving'[t]) \subseteq In(serving[t])
      /\ \A x \in In(queue'[t]) :
            /\ x \in In(queue[t])
            /\ x.kind = "serve" => \E d \in In(serving'[t]) : d.request = x.request /\ d.phase = "run"
      /\ Distinct(queue'[t])
  BY <1>1, TurnEnds
<1>3. r \in Requests /\ TypeOK /\ inbox \in [Tabs -> Seq(Message)]
  BY <1>1, HeadTurn DEF Inv, TypeOK
<1>4. /\ inbox' \in [Tabs -> Seq(Message)]
      /\ \A u \in Tabs : \A m \in In(inbox'[u]) :
            m \in In(inbox[u]) \/ (m.kind # "op" /\ GoodMessage(u, m, call, executed))
  <2> HIDE DEF r
  <2> QED
    BY <1>1, <1>3, Replied
<1>5. UNCHANGED <<mode, holder, leading, known, call, executed, terms, remembered, now, leaving, graceful>>
  BY <1>1 DEF tabVars
<1>6. TypeOK'
  BY <1>2, <1>3, <1>4, <1>5 DEF TypeOK
<1>7. /\ \A q \in Requests : AnswersFor(Len(terms), q) => AnswersFor(Len(terms), q)'
      /\ \A x \in Entries' : executed[x.key] = 1 /\ x.sentAt = call[x.key].sentAt
      /\ \A u \in Tabs, q \in Requests : remembered'[u][q] = "ok" => executed[q] = 1
  BY <1>5 DEF AnswersFor, Logged, Ledger, Entries, Inv, Truth
<1>8. \A z \in In(serving'[t]) :
             leading[t] # 0 /\ (z.phase = "lock" \/ (z.phase = "check" /\ z.term = leading[t]))
             => Reaches(t, z.request)
  BY <1>2 DEF Reaches
<1> QED
  BY <1>2, <1>4, <1>5, <1>6, <1>7, <1>8, Serves1

(* A turn ends with an outcome: "ok" only of what ran, and the log answers as before. *)
LEMMA FinishInv ==
  ASSUME Inv, NEW t \in Tabs, queue[t] # <<>>, Head(queue[t]).kind = "serve", NEW outcome \in Outcomes,
         Finish(t, outcome), outcome = "ok" => executed[Head(queue[t]).request] = 1,
         UNCHANGED <<now, mode, holder, leading, leaving, known, graceful, call, executed>>,
         terms' \in Seq([open : BOOLEAN, ledger : Seq(Entry), coverage : 0 .. MaxNow + 1]),
         Len(terms') = Len(terms),
         \A q \in Requests : terms # <<>> /\ executed[q] = 1 /\ AnswersFor(Len(terms), q)
                             => AnswersFor(Len(terms), q)',
         \A x \in Entries' : executed[x.key] = 1 /\ x.sentAt = call[x.key].sentAt
  PROVE  Inv'
<1> DEFINE r == Head(queue[t]).request
           n == Cardinality(AnsweredWith(t, r))
           ms == [i \in 1 .. n |-> Reply(outcome, r)]
<1>1. /\ queue' = [queue EXCEPT ![t] = Tail(queue[t])]
      /\ serving' = [serving EXCEPT ![t] = Without(serving[t], AnsweredWith(t, r))]
      /\ inbox' = PostedAll(inbox, From[r], outcome, ms)
  BY DEF Finish
<1>2. /\ serving' \in [Tabs -> Seq(Delivery)] /\ queue' \in [Tabs -> Seq(Turn)]
      /\ \A u \in Tabs \ {t} : serving'[u] = serving[u] /\ queue'[u] = queue[u]
      /\ In(serving'[t]) \subseteq In(serving[t])
      /\ \A x \in In(queue'[t]) :
            /\ x \in In(queue[t])
            /\ x.kind = "serve" => \E d \in In(serving'[t]) : d.request = x.request /\ d.phase = "run"
      /\ Distinct(queue'[t])
  BY <1>1, TurnEnds
<1>3. /\ r \in Requests /\ From[r] \in Tabs /\ TypeOK /\ inbox \in [Tabs -> Seq(Message)]
      /\ remembered \in [Tabs -> [Requests -> Outcomes \cup {"none"}]]
  BY HeadTurn, MessageTypes DEF Inv, TypeOK
<1>4. ms \in Seq(Message) /\ \A m \in In(ms) : m = Reply(outcome, r)
  <2>1. n \in Nat
    <3>1. serving[t] \in Seq(Delivery)
      BY <1>3 DEF TypeOK
    <3>2. Len(serving[t]) \in Nat /\ AnsweredWith(t, r) \subseteq 1 .. Len(serving[t])
      BY <3>1, LenProperties DEF AnsweredWith
    <3>3. IsFiniteSet(AnsweredWith(t, r))
      <4>1. IsFiniteSet(1 .. Len(serving[t]))
        BY <3>2, FS_Interval
      <4> HIDE DEF r
      <4> QED
        BY <3>2, <4>1, FS_Subset
    <3> QED
      BY <3>3, FS_CardinalityType
  <2>2. Reply(outcome, r) \in Message
    BY <1>3, MessageTypes DEF Answers
  <2> HIDE DEF n, r
  <2>3. ms \in Seq(Message) /\ Len(ms) = n /\ \A i \in 1 .. n : ms[i] = Reply(outcome, r)
    BY <2>1, <2>2
  <2> HIDE DEF ms
  <2> QED
    BY <2>3 DEF In
<1>5. /\ inbox' \in [Tabs -> Seq(Message)]
      /\ \A u \in Tabs : \A m \in In(inbox'[u]) :
            m \in In(inbox[u]) \/ (m.kind # "op" /\ GoodMessage(u, m, call, executed))
  <2>1. \A u \in Tabs : Reply(outcome, r).kind # "op" /\ GoodMessage(u, Reply(outcome, r), call, executed)
    BY <1>3 DEF Reply, GoodMessage, Outcomes
  <2> HIDE DEF ms, r
  <2>2. /\ inbox' \in [Tabs -> Seq(Message)]
        /\ \A u \in Tabs : In(inbox'[u]) \subseteq In(inbox[u]) \cup (IF u = From[r] THEN In(ms) ELSE {})
    BY <1>1, <1>3, <1>4, PostedAllFacts
  <2> QED
    BY <1>4, <2>1, <2>2
<1>6. /\ remembered' \in [Tabs -> [Requests -> Outcomes \cup {"none"}]]
      /\ \A u \in Tabs, q \in Requests : remembered'[u][q] = "ok" => executed[q] = 1
  <2>1. \A u \in Tabs, q \in Requests : remembered[u][q] = "ok" => executed[q] = 1
    BY DEF Inv, Truth
  <2>2. CASE UNCHANGED remembered
    BY <1>3, <2>1, <2>2
  <2>3. ASSUME NEW forgotten \in SUBSET Requests,
               remembered' = [remembered EXCEPT ![t] = [q \in Requests |->
                   IF q \in forgotten THEN "none" ELSE IF q = r THEN outcome ELSE remembered[t][q]]]
        PROVE  /\ remembered' \in [Tabs -> [Requests -> Outcomes \cup {"none"}]]
               /\ \A u \in Tabs, q \in Requests : remembered'[u][q] = "ok" => executed[q] = 1
    <3> HIDE DEF r
    <3>1. remembered' \in [Tabs -> [Requests -> Outcomes \cup {"none"}]]
      BY <1>3, <2>3
    <3>2. \A u \in Tabs, q \in Requests :
             remembered'[u][q] \in {"none", remembered[u][q]} \/ (q = r /\ remembered'[u][q] = outcome)
      BY <1>3, <2>3
    <3>3. outcome = "ok" => executed[r] = 1
      BY DEF r
    <3> QED
      BY <2>1, <3>1, <3>2, <3>3
  <2> QED
    BY <2>2, <2>3 DEF Finish
<1>7. TypeOK'
  BY <1>2, <1>3, <1>5, <1>6 DEF TypeOK
<1>8. \A z \in In(serving'[t]) :
             leading[t] # 0 /\ (z.phase = "lock" \/ (z.phase = "check" /\ z.term = leading[t]))
             => Reaches(t, z.request)
  BY <1>2 DEF Reaches
<1> HIDE DEF r, n, ms
<1> QED
  BY <1>2, <1>5, <1>6, <1>7, <1>8, Serves1

(***************************************************************************)
(* The log.                                                                *)
(***************************************************************************)
Log == [open : BOOLEAN, ledger : Seq(Entry), coverage : 0 .. MaxNow + 1]

(* A log that covers what it no longer lists answers for as much as before. *)
LEMMA LogMoves ==
  ASSUME Inv, NEW n \in 1 .. Len(terms), NEW log \in Log, terms' = [terms EXCEPT ![n] = log],
         \A q \in Requests : call'[q].sentAt = call[q].sentAt, terms[n].coverage <= log.coverage,
         \A e \in In(Ledger(n)) : (\E x \in In(log.ledger) : x.key = e.key) \/ e.sentAt < log.coverage
  PROVE  /\ terms' \in Seq(Log) /\ Len(terms') = Len(terms) /\ terms'[n] = log
         /\ \A q \in Requests : AnswersFor(Len(terms), q) => AnswersFor(Len(terms), q)'
         /\ \A e \in Entries' : e \in Entries \/ e \in In(log.ledger)
<1>1. TypeOK /\ terms \in Seq(Log)
  BY DEF Inv, TypeOK, Log
<1>2. /\ terms' \in Seq(Log) /\ Len(terms') = Len(terms)
      /\ \A i \in 1 .. Len(terms) : terms'[i] = IF i = n THEN log ELSE terms[i]
  BY <1>1, Replaced
<1>3. MaxNow \in Nat /\ log.coverage \in Nat /\ terms[n].coverage \in Nat /\ Len(terms) \in Nat
  <2>1. \A l \in Log : l.coverage \in 0 .. MaxNow + 1
    BY DEF Log
  <2> QED
    BY <1>1, <2>1, Parts
<1>4. ASSUME NEW q \in Requests, AnswersFor(Len(terms), q)
      PROVE  AnswersFor(Len(terms), q)'
  <2> DEFINE N == Len(terms)
  <2>2. N \in 1 .. N
    BY <1>3
  <2>3. CASE N # n
    <3>1. terms'[N] = terms[N]
      BY <1>2, <2>2, <2>3
    <3> QED
      BY <1>2, <1>4, <3>1 DEF AnswersFor, Logged, Ledger
  <2>4. CASE N = n
    <3>1. terms'[N] = log
      BY <1>2, <2>4
    <3>2. CASE call[q].sentAt < terms[N].coverage
      <4>1. call[q].sentAt \in Nat
        BY <1>1, Parts
      <4>2. call[q].sentAt < log.coverage
        BY <1>3, <2>4, <3>2, <4>1
      <4> QED
        BY <1>2, <3>1, <4>2 DEF AnswersFor
    <3>3. CASE Logged(N, q)
      <4>1. PICK e \in In(Ledger(n)) : e.key = q
        BY <2>4, <3>3 DEF Logged, In
      <4>2. e \in Entries
        BY <4>1 DEF Entries, Ledger
      <4>3. e.sentAt = call[q].sentAt
        BY <4>1, <4>2 DEF Inv, Truth
      <4>4. CASE \E x \in In(log.ledger) : x.key = e.key
        <5>1. PICK j \in 1 .. Len(log.ledger) : log.ledger[j].key = q
          BY <4>1, <4>4 DEF In
        <5>2. Ledger(N)' = log.ledger /\ Len(terms)' = N
          BY <1>2, <3>1 DEF Ledger
        <5>3. Logged(Len(terms), q)'
          BY <5>1, <5>2 DEF Logged
        <5> QED
          BY <5>3 DEF AnswersFor
      <4>5. CASE e.sentAt < log.coverage
        BY <1>2, <3>1, <4>3, <4>5 DEF AnswersFor
      <4> QED
        BY <4>1, <4>4, <4>5
    <3> QED
      BY <1>4, <3>2, <3>3 DEF AnswersFor
  <2> QED
    BY <2>3, <2>4
<1>5. \A e \in Entries' : e \in Entries \/ e \in In(log.ledger)
  BY <1>2 DEF Entries
<1> QED
  BY <1>2, <1>4, <1>5

(* A log that nobody touches. *)
LEMMA LogKept ==
  ASSUME Inv, UNCHANGED <<terms, call, executed>>
  PROVE  /\ terms' \in Seq(Log) /\ Len(terms') = Len(terms)
         /\ \A q \in Requests : AnswersFor(Len(terms), q) => AnswersFor(Len(terms), q)'
         /\ \A e \in Entries' : executed[e.key] = 1 /\ e.sentAt = call[e.key].sentAt
<1>1. terms' \in Seq(Log)
  BY DEF Inv, TypeOK, Log
<1>2. \A q \in Requests : AnswersFor(Len(terms), q) => AnswersFor(Len(terms), q)'
  BY DEF AnswersFor, Logged, Ledger
<1>3. Entries' = Entries
  BY DEF Entries
<1> QED
  BY <1>1, <1>2, <1>3 DEF Inv, Truth

(* Settling what was served changes no identity and no time of sending. *)
LEMMA Settles ==
  ASSUME Inv, NEW n \in 1 .. Len(terms), NEW r \in Requests, NEW state \in {"settled", "withheld", "unsettled"},
         terms' = SettleServed(n, r, state), UNCHANGED <<call, executed>>
  PROVE  /\ terms' \in Seq(Log) /\ Len(terms') = Len(terms)
         /\ \A q \in Requests : AnswersFor(Len(terms), q) => AnswersFor(Len(terms), q)'
         /\ \A e \in Entries' : executed[e.key] = 1 /\ e.sentAt = call[e.key].sentAt
<1> DEFINE old == terms[n].ledger
           new == [i \in DOMAIN old |-> IF old[i].key = r THEN [old[i] EXCEPT !.state = state] ELSE old[i]]
           log == [terms[n] EXCEPT !.ledger = new]
<1>1. TypeOK /\ old \in Seq(Entry) /\ terms[n] \in Log
  BY ElementOfSeq, Parts DEF Inv, TypeOK, Log, Ledger
<1>2. terms' = [terms EXCEPT ![n] = log]
  BY DEF SettleServed
<1>3. /\ new \in Seq(Entry) /\ Len(new) = Len(old)
      /\ \A i \in 1 .. Len(old) : new[i].key = old[i].key /\ new[i].sentAt = old[i].sentAt
  <2>1. DOMAIN old = 1 .. Len(old) /\ Len(old) \in Nat
    BY <1>1, LenProperties
  <2>2. \A i \in 1 .. Len(old) : old[i] \in Entry
    BY <1>1, ElementOfSeq
  <2>3. \A e \in Entry : /\ [e EXCEPT !.state = state] \in Entry
                         /\ [e EXCEPT !.state = state].key = e.key /\ [e EXCEPT !.state = state].sentAt = e.sentAt
    BY DEF Entry
  <2> HIDE DEF old
  <2>4. new \in [1 .. Len(old) -> Entry]
    BY <2>1, <2>2, <2>3
  <2>5. \A i \in 1 .. Len(old) : new[i].key = old[i].key /\ new[i].sentAt = old[i].sentAt
    BY <2>1, <2>2, <2>3
  <2> HIDE DEF new
  <2>6. new \in Seq(Entry) /\ Len(new) = Len(old)
    BY <2>1, <2>4
  <2> QED
    BY <2>5, <2>6
<1> HIDE DEF new
<1>4. log \in Log /\ log.ledger = new /\ log.coverage = terms[n].coverage
  BY <1>1, <1>3 DEF Log
<1>5. /\ \A e \in In(old) : \E x \in In(new) : x.key = e.key
      /\ \A x \in In(new) : \E e \in In(old) : x.key = e.key /\ x.sentAt = e.sentAt
  BY <1>3, SMTT(30) DEF In
<1>6. terms[n].coverage <= log.coverage
  BY <1>1, <1>4, Parts
<1>7. \A e \in In(Ledger(n)) : \E x \in In(log.ledger) : x.key = e.key
  BY <1>4, <1>5 DEF Ledger
<1>8. In(old) \subseteq Entries
  BY DEF Entries
<1> HIDE DEF log, old
<1>9. /\ terms' \in Seq(Log) /\ Len(terms') = Len(terms)
      /\ \A q \in Requests : AnswersFor(Len(terms), q) => AnswersFor(Len(terms), q)'
      /\ \A e \in Entries' : e \in Entries \/ e \in In(log.ledger)
  BY <1>2, <1>4, <1>6, <1>7, LogMoves, ZenonT(30)
<1>10. \A e \in Entries : executed[e.key] = 1 /\ e.sentAt = call[e.key].sentAt
  BY DEF Inv, Truth
<1>11. \A e \in Entries' : \E x \in Entries : x.key = e.key /\ x.sentAt = e.sentAt
  BY <1>4, <1>5, <1>8, <1>9
<1> QED
  BY <1>9, <1>10, <1>11

(* A mutation that ran returns, or its acknowledgement fails. *)
LEMMA CompleteInv ==
  ASSUME Inv, NEW t \in Tabs, Complete(t)
  PROVE  Inv'
<1> DEFINE r == Head(queue[t]).request
           term == Head(queue[t]).term
<1>1. /\ queue[t] # <<>> /\ Head(queue[t]).kind = "serve" /\ Head(queue[t]).applied
      /\ UNCHANGED <<now, mode, holder, leading, leaving, known, graceful, call, executed>>
  BY DEF Complete, Serves
<1>2. r \in Requests /\ executed[r] = 1 /\ term \in 1 .. Len(terms)
  BY <1>1, HeadTurn DEF GoodTurn
<1>3. CASE /\ \E state \in {"settled", "withheld", "unsettled"} : terms' = SettleServed(term, r, state)
           /\ Finish(t, "ok")
  <2>1. /\ terms' \in Seq(Log) /\ Len(terms') = Len(terms)
        /\ \A q \in Requests : AnswersFor(Len(terms), q) => AnswersFor(Len(terms), q)'
        /\ \A e \in Entries' : executed[e.key] = 1 /\ e.sentAt = call[e.key].sentAt
    <3> HIDE DEF term, r
    <3> QED
      BY <1>1, <1>2, <1>3, Settles
  <2>2. "ok" \in Outcomes
    BY DEF Outcomes
  <2> QED
    BY <1>1, <1>2, <1>3, <2>1, <2>2, FinishInv DEF Log
<1>4. CASE Finish(t, "uncertain") /\ UNCHANGED terms
  <2>1. /\ terms' \in Seq(Log) /\ Len(terms') = Len(terms)
        /\ \A q \in Requests : AnswersFor(Len(terms), q) => AnswersFor(Len(terms), q)'
        /\ \A e \in Entries' : executed[e.key] = 1 /\ e.sentAt = call[e.key].sentAt
    BY <1>1, <1>4, LogKept
  <2>2. "uncertain" \in Outcomes /\ "uncertain" # "ok"
    BY DEF Outcomes
  <2> QED
    BY <1>1, <1>4, <2>1, <2>2, FinishInv DEF Log
<1> QED
  BY <1>3, <1>4 DEF Complete

(* A mutation that is refused. *)
LEMMA RefuseInv ==
  ASSUME Inv, NEW t \in Tabs, Refuse(t)
  PROVE  Inv'
<1>1. /\ queue[t] # <<>> /\ Head(queue[t]).kind = "serve" /\ Finish(t, "refused")
      /\ UNCHANGED <<now, tabVars, known, graceful, call, executed>>
  BY DEF Refuse, Serves
<1>2. UNCHANGED <<now, mode, holder, leading, leaving, known, graceful, call, executed, terms>>
  BY <1>1 DEF tabVars
<1>3. /\ terms' \in Seq(Log) /\ Len(terms') = Len(terms)
      /\ \A q \in Requests : AnswersFor(Len(terms), q) => AnswersFor(Len(terms), q)'
      /\ \A e \in Entries' : executed[e.key] = 1 /\ e.sentAt = call[e.key].sentAt
  BY <1>2, LogKept
<1>4. "refused" \in Outcomes /\ "refused" # "ok"
  BY DEF Outcomes
<1> QED
  BY <1>1, <1>2, <1>3, <1>4, FinishInv DEF Log

(* Evicting the oldest entries moves coverage past their times of sending. *)
LEMMA TrimmedFacts ==
  ASSUME NEW log \in Log, NEW evicted \in 0 .. Len(log.ledger)
  PROVE  /\ Trimmed(log, evicted) \in Log
         /\ log.coverage <= Trimmed(log, evicted).coverage
         /\ In(Trimmed(log, evicted).ledger) \subseteq In(log.ledger)
         /\ \A e \in In(log.ledger) : \/ e \in In(Trimmed(log, evicted).ledger)
                                      \/ e.sentAt < Trimmed(log, evicted).coverage
<1> DEFINE L == log.ledger
           C == {log.coverage} \cup {L[i].sentAt + 1 : i \in 1 .. evicted}
           M == SubSeq(L, evicted + 1, Len(L))
<1>1. L \in Seq(Entry) /\ log.coverage \in 0 .. MaxNow + 1 /\ MaxNow \in Nat /\ Len(L) \in Nat
  BY ServedRequestsAssumption DEF Log
<1>2. \A i \in 1 .. Len(L) : L[i] \in Entry /\ L[i].sentAt \in 0 .. MaxNow
  <2>1. \A i \in 1 .. Len(L) : L[i] \in Entry
    BY <1>1, ElementOfSeq
  <2> QED
    BY <2>1 DEF Entry
<1>3. C \in SUBSET (0 .. MaxNow + 1) /\ C # {}
  <2>1. \A i \in 1 .. evicted : i \in 1 .. Len(L)
    BY <1>1
  <2>2. \A i \in 1 .. evicted : L[i].sentAt + 1 \in 0 .. MaxNow + 1
    BY <1>1, <1>2, <2>1
  <2> QED
    BY <1>1, <2>2
<1>4. Max(C) \in 0 .. MaxNow + 1 /\ \A y \in C : y <= Max(C)
  <2> HIDE DEF C
  <2>1. MaxNow + 1 \in Nat
    BY <1>1
  <2>2. Max(C) \in C /\ \A y \in C : y <= Max(C)
    BY <1>3, <2>1, Greatest
  <2> QED
    BY <1>3, <2>2
<1>5. /\ M \in Seq(Entry) /\ Len(M) = Len(L) - evicted
      /\ \A i \in 1 .. Len(M) : M[i] = L[evicted + i]
  <2>1. evicted \in 0 .. Len(L)
    OBVIOUS
  <2> HIDE DEF L
  <2>2. evicted + 1 \in 1 .. Len(L) + 1 /\ Len(L) \in evicted .. Len(L)
    BY <1>1, <2>1
  <2>3. /\ M \in Seq(Entry) /\ Len(M) = (IF evicted + 1 <= Len(L) THEN Len(L) - (evicted + 1) + 1 ELSE 0)
        /\ \A i \in 1 .. Len(L) - (evicted + 1) + 1 : M[i] = L[evicted + 1 + i - 1]
    BY <1>1, <2>1, <2>2, SubSeqProperties
  <2> HIDE DEF M
  <2> QED
    BY <1>1, <2>1, <2>3
<1>6. Trimmed(log, evicted) = [log EXCEPT !.ledger = M, !.coverage = Max(C)]
  BY DEF Trimmed
<1> HIDE DEF M
<1>7. Trimmed(log, evicted) \in Log /\ Trimmed(log, evicted).ledger = M /\ Trimmed(log, evicted).coverage = Max(C)
  <2> HIDE DEF C
  <2> QED
    BY <1>4, <1>5, <1>6 DEF Log
<1>8. In(M) \subseteq In(L)
  <2>1. \A i \in 1 .. Len(M) : evicted + i \in 1 .. Len(L)
    BY <1>1, <1>5
  <2> QED
    BY <1>5, <2>1 DEF In
<1>9. ASSUME NEW i \in 1 .. Len(L)
      PROVE  L[i] \in In(M) \/ L[i].sentAt < Max(C)
  <2>1. CASE i <= evicted
    <3>1. L[i].sentAt + 1 \in C
      BY <1>1, <2>1
    <3> HIDE DEF C
    <3>2. L[i].sentAt + 1 <= Max(C)
      BY <1>4, <3>1
    <3> QED
      BY <1>1, <1>2, <1>4, <3>2
  <2>2. CASE ~(i <= evicted)
    <3>1. i - evicted \in 1 .. Len(M) /\ evicted + (i - evicted) = i
      BY <1>1, <1>5, <2>2
    <3> QED
      BY <1>5, <3>1 DEF In
  <2> QED
    BY <2>1, <2>2
<1>10. log.coverage <= Max(C)
  BY <1>4
<1> HIDE DEF C
<1> QED
  BY <1>7, <1>8, <1>9, <1>10 DEF In

(* Other requests are served: entries are evicted and outcomes forgotten. *)
LEMMA ServeOthersInv ==
  ASSUME Inv, NEW t \in Tabs, ServeOthers(t)
  PROVE  Inv'
<1> DEFINE n == leading[t]
<1>1. /\ TypeOK /\ n # 0 /\ n \in Nat /\ Len(terms) \in Nat /\ n = Len(terms)
      /\ remembered \in [Tabs -> [Requests -> Outcomes \cup {"none"}]]
  BY Parts DEF ServeOthers, Inv, Leads, TypeOK
<1>2. n \in 1 .. Len(terms)
  BY <1>1
<1>3. terms[n] \in Log
  BY <1>1, <1>2, ElementOfSeq DEF TypeOK, Log
<1>4. PICK evicted \in 0 .. Len(terms[n].ledger) : terms' = [terms EXCEPT ![n] = Trimmed(terms[n], evicted)]
  BY DEF ServeOthers, Ledger
<1>5. UNCHANGED <<now, mode, holder, leading, leaving, known, graceful, inbox, serving, queue, call, executed>>
  BY DEF ServeOthers
<1>6. /\ Trimmed(terms[n], evicted) \in Log
      /\ terms[n].coverage <= Trimmed(terms[n], evicted).coverage
      /\ In(Trimmed(terms[n], evicted).ledger) \subseteq In(terms[n].ledger)
      /\ \A e \in In(terms[n].ledger) : \/ e \in In(Trimmed(terms[n], evicted).ledger)
                                        \/ e.sentAt < Trimmed(terms[n], evicted).coverage
  BY <1>3, <1>4, TrimmedFacts
<1> HIDE DEF n
<1>7. /\ terms' \in Seq(Log) /\ Len(terms') = Len(terms)
      /\ \A q \in Requests : AnswersFor(Len(terms), q) => AnswersFor(Len(terms), q)'
      /\ \A e \in Entries' : e \in Entries \/ e \in In(Trimmed(terms[n], evicted).ledger)
  BY <1>2, <1>4, <1>5, <1>6, LogMoves DEF Ledger
<1>8. \A e \in Entries' : e \in Entries
  <2>1. In(terms[n].ledger) \subseteq Entries
    BY <1>2 DEF Entries
  <2> QED
    BY <1>6, <1>7, <2>1
<1>9. \A e \in Entries' : executed[e.key] = 1 /\ e.sentAt = call[e.key].sentAt
  BY <1>8 DEF Inv, Truth
<1>10. /\ remembered' \in [Tabs -> [Requests -> Outcomes \cup {"none"}]]
       /\ \A u \in Tabs, q \in Requests : remembered'[u][q] = "ok" => executed[q] = 1
  <2>1. \A u \in Tabs, q \in Requests : remembered[u][q] = "ok" => executed[q] = 1
    BY DEF Inv, Truth
  <2>2. PICK forgotten \in SUBSET Requests :
           remembered' = [remembered EXCEPT ![t] = [q \in Requests |->
                                               IF q \in forgotten THEN "none" ELSE remembered[t][q]]]
    BY DEF ServeOthers
  <2>3. \A u \in Tabs, q \in Requests : remembered'[u][q] \in {"none", remembered[u][q]}
    BY <1>1, <2>2
  <2> QED
    BY <1>1, <2>1, <2>2, <2>3
<1>11. TypeOK'
  BY <1>1, <1>5, <1>7, <1>10 DEF TypeOK, Log
<1>12. /\ Distinct(queue'[t])
       /\ \A x \in In(queue'[t]) :
            /\ x \in In(queue[t])
            /\ x.kind = "serve" => \E d \in In(serving'[t]) : d.request = x.request /\ d.phase = "run"
  BY <1>5 DEF Inv, Work, GoodTurn
<1>13. \A z \in In(serving'[t]) :
             leading[t] # 0 /\ (z.phase = "lock" \/ (z.phase = "check" /\ z.term = leading[t]))
             => Reaches(t, z.request)
  BY <1>5 DEF Reaches
<1> QED
  BY <1>5, <1>7, <1>9, <1>10, <1>11, <1>12, <1>13, Serves1

(* Recording a request lists it, keeps every other entry and evicts nothing. *)
LEMMA RecordedFacts ==
  ASSUME TypeOK, NEW log \in Log, NEW r \in Requests
  PROVE  /\ Recorded(log, r) \in Log
         /\ Recorded(log, r).coverage = log.coverage
         /\ \E x \in In(Recorded(log, r).ledger) : x.key = r
         /\ \A x \in In(Recorded(log, r).ledger) :
               x \in In(log.ledger) \/ (x.key = r /\ x.sentAt = call[r].sentAt)
         /\ \A e \in In(log.ledger) : \E x \in In(Recorded(log, r).ledger) : x.key = e.key
<1> DEFINE L == log.ledger
           K == Without(L, {i \in 1 .. Len(L) : L[i].key = r})
           y == [key |-> r, sentAt |-> call[r].sentAt, state |-> "unsettled"]
<1>1. L \in Seq(Entry) /\ log.coverage \in 0 .. MaxNow + 1
  BY DEF Log
<1>2. y \in Entry /\ y.key = r /\ y.sentAt = call[r].sentAt
  <2>1. call[r] \in Call
    BY DEF TypeOK
  <2>2. call[r].sentAt \in 0 .. MaxNow
    BY <2>1, CallTypes
  <2> QED
    BY <2>2 DEF Entry
<1>3. /\ K \in Seq(Entry)
      /\ In(K) = {L[j] : j \in (1 .. Len(L)) \ {i \in 1 .. Len(L) : L[i].key = r}}
  <2> HIDE DEF L
  <2> QED
    BY <1>1, Remaining
<1>4. In(K) \subseteq In(L) /\ \A e \in In(L) : e.key = r \/ e \in In(K)
  <2>1. \A j \in 1 .. Len(L) : L[j] \in In(L)
    BY DEF In
  <2>2. In(K) \subseteq In(L)
    BY <1>3, <2>1
  <2>3. ASSUME NEW j \in 1 .. Len(L), L[j].key # r
        PROVE  L[j] \in In(K)
    BY <1>3, <2>3
  <2>4. In(L) = {L[j] : j \in 1 .. Len(L)}
    BY DEF In
  <2> HIDE DEF L, K
  <2> QED
    BY <2>2, <2>3, <2>4
<1>5. Recorded(log, r) = [log EXCEPT !.ledger = Append(K, y)]
  BY DEF Recorded
<1> HIDE DEF K, y
<1>6. Append(K, y) \in Seq(Entry) /\ In(Append(K, y)) = In(K) \cup {y}
  BY <1>2, <1>3, Appended
<1>7. /\ Recorded(log, r) \in Log /\ Recorded(log, r).ledger = Append(K, y)
      /\ Recorded(log, r).coverage = log.coverage
  BY <1>1, <1>5, <1>6 DEF Log
<1>8. \A x \in In(K) \cup {y} : x \in In(L) \/ (x.key = r /\ x.sentAt = call[r].sentAt)
  BY <1>2, <1>4
<1>9. \A e \in In(L) : \E x \in In(K) \cup {y} : x.key = e.key
  <2> SUFFICES ASSUME NEW e \in In(L) PROVE \E x \in In(K) \cup {y} : x.key = e.key
    OBVIOUS
  <2>1. CASE e.key = r
    BY <1>2, <2>1
  <2>2. CASE e \in In(K)
    BY <2>2
  <2> QED
    BY <1>4, <2>1, <2>2
<1> QED
  BY <1>2, <1>6, <1>7, <1>8, <1>9

(* A mutation of another tab runs: it did not before, and from now on the log answers for it. *)
LEMMA ApplyInv ==
  ASSUME Inv, NEW t \in Tabs, Apply(t)
  PROVE  Inv'
<1> DEFINE h == Head(queue[t])
           r == h.request
           n == h.term
           log == Recorded(terms[n], r)
<1>1. /\ queue[t] # <<>> /\ h.kind = "serve" /\ ~h.applied /\ leading[t] = n
      /\ terms' = [terms EXCEPT ![n] = log]
      /\ executed' = [executed EXCEPT ![r] = executed[r] + 1]
      /\ UNCHANGED <<now, mode, holder, leading, leaving, known, graceful, inbox, serving, remembered, call>>
  BY DEF Apply, Serves, Valid
<1>2. /\ r \in Requests /\ n \in 1 .. Len(terms) /\ h \in In(queue[t]) /\ h = queue[t][1] /\ h \in Turn
      /\ queue \in [Tabs -> Seq(Turn)] /\ queue[t] \in Seq(Turn)
      /\ From[r] # t /\ call[r].sentRemotely
      /\ \E d \in In(serving[t]) : d.request = r /\ d.phase = "run"
  BY <1>1, HeadTurn DEF GoodTurn
<1>3. /\ TypeOK /\ executed \in [Requests -> Nat] /\ Len(terms) \in Nat /\ terms[n] \in Log
      /\ MaxTerms \in Nat
  <2>1. TypeOK
    BY DEF Inv
  <2>2. terms[n] \in Log
    BY <1>2, <2>1, ElementOfSeq DEF TypeOK, Log
  <2> QED
    BY <2>1, <2>2, Parts DEF TypeOK
<1>4. leading[t] # 0 /\ n = Len(terms) /\ holder = t /\ \A u \in Tabs : leading[u] # 0 => u = t
  BY <1>1, <1>2 DEF Inv, Leads
<1>5. executed[r] = 0
  BY <1>1, <1>2, <1>4 DEF Inv, Once
<1>6. /\ executed' \in [Requests -> Nat] /\ executed'[r] = 1
      /\ \A q \in Requests \ {r} : executed'[q] = executed[q]
  <2> HIDE DEF r
  <2> QED
    BY <1>1, <1>2, <1>3, <1>5
<1>7. /\ log \in Log /\ log.coverage = terms[n].coverage
      /\ \E x \in In(log.ledger) : x.key = r
      /\ \A x \in In(log.ledger) :
            x \in In(terms[n].ledger) \/ (x.key = r /\ x.sentAt = call[r].sentAt)
      /\ \A e \in In(terms[n].ledger) : \E x \in In(log.ledger) : x.key = e.key
  <2>1. TypeOK /\ terms[n] \in Log /\ r \in Requests
    BY <1>2, <1>3
  <2> HIDE DEF r, n
  <2> QED
    BY <2>1, RecordedFacts, Zenon
<1> HIDE DEF log
<1>8. /\ terms' \in Seq(Log) /\ Len(terms') = Len(terms) /\ terms'[n] = log
      /\ \A q \in Requests : AnswersFor(Len(terms), q) => AnswersFor(Len(terms), q)'
      /\ \A e \in Entries' : e \in Entries \/ e \in In(log.ledger)
  <2>1. terms[n].coverage <= log.coverage
    BY <1>2, <1>3, <1>7, Parts
  <2>2. \A e \in In(Ledger(n)) : (\E x \in In(log.ledger) : x.key = e.key) \/ e.sentAt < log.coverage
    BY <1>7 DEF Ledger
  <2>3. /\ n \in 1 .. Len(terms) /\ log \in Log /\ terms' = [terms EXCEPT ![n] = log]
        /\ UNCHANGED call
    BY <1>1, <1>2, <1>7
  <2> HIDE DEF r, n
  <2> QED
    BY <2>1, <2>2, <2>3, LogMoves
<1>9. ASSUME NEW q \in Requests, q = r PROVE AnswersFor(Len(terms), q)'
  <2>1. PICK j \in 1 .. Len(log.ledger) : log.ledger[j].key = q
    BY <1>7, <1>9 DEF In
  <2>2. Ledger(Len(terms))' = log.ledger
    BY <1>4, <1>8 DEF Ledger
  <2>3. Logged(Len(terms), q)'
    BY <2>1, <2>2 DEF Logged
  <2> QED
    BY <2>3 DEF AnswersFor
<1> DEFINE y == [h EXCEPT !.applied = TRUE]
<1>10. y \in Turn /\ y.kind = "serve" /\ y.request = r /\ y.term = n /\ y.applied
  BY <1>1, <1>2 DEF Turn
<1>11. queue' = [queue EXCEPT ![t] = [queue[t] EXCEPT ![1] = y]]
  BY <1>2 DEF Apply
<1> HIDE DEF y
<1>12. 1 \in 1 .. Len(queue[t]) /\ Len(queue[t]) \in Nat
  BY <1>1, <1>2, Headed
<1>13. /\ queue' \in [Tabs -> Seq(Turn)] /\ Len(queue'[t]) = Len(queue[t])
       /\ \A j \in 1 .. Len(queue[t]) : queue'[t][j] = IF j = 1 THEN y ELSE queue[t][j]
       /\ \A u \in Tabs \ {t} : queue'[u] = queue[u]
  <2>1. /\ [queue[t] EXCEPT ![1] = y] \in Seq(Turn) /\ Len([queue[t] EXCEPT ![1] = y]) = Len(queue[t])
        /\ \A j \in 1 .. Len(queue[t]) : [queue[t] EXCEPT ![1] = y][j] = IF j = 1 THEN y ELSE queue[t][j]
    BY <1>2, <1>10, <1>12, Replaced
  <2>2. queue'[t] = [queue[t] EXCEPT ![1] = y] /\ \A u \in Tabs \ {t} : queue'[u] = queue[u]
    BY <1>2, <1>11
  <2>3. queue' \in [Tabs -> Seq(Turn)]
    BY <1>2, <1>11, <2>1
  <2> QED
    BY <2>1, <2>2, <2>3
<1>14. Distinct(queue[t])
  BY DEF Inv, Work
<1>15. Distinct(queue'[t])
  <2>1. \A j \in 1 .. Len(queue[t]) :
           queue'[t][j].kind = queue[t][j].kind /\ queue'[t][j].request = queue[t][j].request
    BY <1>1, <1>2, <1>10, <1>13
  <2> QED
    BY <1>13, <1>14, <2>1 DEF Distinct
<1>16. \A x \in In(queue'[t]) :
          x = y \/ (x \in In(queue[t]) /\ ~(x.kind = "serve" /\ x.request = r))
  <2> SUFFICES ASSUME NEW j \in 1 .. Len(queue[t]), j # 1
               PROVE  queue[t][j] \in In(queue[t]) /\ ~(queue[t][j].kind = "serve" /\ queue[t][j].request = r)
    BY <1>13 DEF In
  <2> QED
    BY <1>1, <1>2, <1>12, <1>14 DEF In, Distinct
<1>17. TypeOK'
  BY <1>1, <1>3, <1>6, <1>8, <1>13 DEF TypeOK, Log
<1> HIDE DEF r, n, h
<1>18. \A q \in Requests : executed'[q] = executed[q] \/ q = r
  BY <1>6
<1>19. Leads'
  <2>1. terms # <<>> /\ terms' # <<>>
    <3>1. Len(terms') # 0 /\ Len(terms) # 0
      BY <1>2, <1>8
    <3> QED
      BY <3>1
  <2>2. \A u \in Tabs : \A x \in In(queue'[u]) : x.kind = "shutdown" => x \in In(queue[u])
    BY <1>10, <1>13, <1>16
  <2> QED
    BY <1>1, <1>8, <2>1, <2>2 DEF Inv, Leads
<1>20. Calls'
  BY <1>1 DEF Inv, Calls
<1>21. Mail'
  <2> SUFFICES ASSUME NEW u \in Tabs, NEW m \in In(inbox[u])
               PROVE  GoodMessage(u, m, call, executed')
    BY <1>1 DEF Mail
  <2>1. GoodMessage(u, m, call, executed)
    BY DEF Inv, Mail
  <2> QED
    BY <1>6, <1>18, <2>1 DEF GoodMessage
<1>22. Work'
  <2> SUFFICES ASSUME NEW u \in Tabs
               PROVE  /\ \A d \in In(serving[u]) : GoodDelivery(u, d, call, Len(terms))
                      /\ \A x \in In(queue'[u]) : GoodTurn(u, x, In(serving[u]), call, executed', Len(terms))
                      /\ Distinct(queue'[u])
    BY <1>1, <1>8 DEF Work
  <2>1. /\ \A d \in In(serving[u]) : GoodDelivery(u, d, call, Len(terms))
        /\ \A x \in In(queue[u]) : GoodTurn(u, x, In(serving[u]), call, executed, Len(terms))
        /\ Distinct(queue[u])
    BY DEF Inv, Work
  <2>2. ASSUME NEW x \in In(queue[u]) PROVE GoodTurn(u, x, In(serving[u]), call, executed', Len(terms))
    <3>1. GoodTurn(u, x, In(serving[u]), call, executed, Len(terms))
      BY <2>1
    <3> QED
      BY <1>6, <1>18, <3>1 DEF GoodTurn
  <2>3. GoodTurn(t, y, In(serving[t]), call, executed', Len(terms))
    <3>1. n <= Len(terms)
      BY <1>2, <1>3
    <3> QED
      BY <1>2, <1>6, <1>10, <3>1 DEF GoodTurn
  <2>4. CASE u = t
    BY <1>15, <1>16, <2>1, <2>2, <2>3, <2>4
  <2>5. CASE u # t
    BY <1>13, <2>1, <2>2, <2>5
  <2> QED
    BY <2>4, <2>5
<1>23. Once'
  <2> SUFFICES ASSUME NEW q \in Requests
               PROVE  /\ executed'[q] <= 1
                      /\ executed'[q] = 1 =>
                            /\ call[q].sentRemotely \/ call[q].told = "ok"
                            /\ \/ terms' # <<>> /\ AnswersFor(Len(terms), q)'
                               \/ /\ call[q].pc = "told"
                                  /\ \A u \in Tabs : leading[u] # 0 => ~Reaches(u, q)'
                      /\ \A u \in Tabs : \A x \in In(queue'[u]) :
                            /\ leading[u] # 0 /\ x.term = leading[u] /\ ~x.applied
                            /\ x.kind # "shutdown" /\ x.request = q
                            => executed'[q] = 0
    BY <1>1 DEF Once
  <2>1. terms' # <<>>
    <3>1. Len(terms') # 0
      BY <1>2, <1>8
    <3> QED
      BY <3>1
  <2>2. CASE q = r
    <3>1. AnswersFor(Len(terms), q)'
      BY <1>9, <2>2
    <3>2. ASSUME NEW u \in Tabs, NEW x \in In(queue'[u]),
                 leading[u] # 0, ~x.applied, x.kind # "shutdown", x.request = q
          PROVE  FALSE
      <4>1. u = t /\ x # y
        BY <1>4, <1>10, <3>2
      <4>2. x \in In(queue[t]) /\ x.kind # "serve"
        BY <1>16, <2>2, <3>2, <4>1
      <4>3. x \in Turn /\ GoodTurn(t, x, In(serving[t]), call, executed, Len(terms))
        BY <1>3, <4>2, Parts DEF Inv, Work
      <4>4. x.kind = "local"
        BY <3>2, <4>2, <4>3 DEF Turn
      <4> QED
        BY <1>2, <2>2, <3>2, <4>3, <4>4 DEF GoodTurn
    <3> QED
      BY <1>2, <1>6, <2>1, <2>2, <3>1, <3>2
  <2>3. CASE q # r
    <3>1. executed'[q] = executed[q]
      BY <1>18, <2>3
    <3>2. /\ executed[q] <= 1
          /\ executed[q] = 1 =>
                /\ call[q].sentRemotely \/ call[q].told = "ok"
                /\ \/ terms # <<>> /\ AnswersFor(Len(terms), q)
                   \/ call[q].pc = "told" /\ \A u \in Tabs : leading[u] # 0 => ~Reaches(u, q)
          /\ \A u \in Tabs : \A x \in In(queue[u]) :
                /\ leading[u] # 0 /\ x.term = leading[u] /\ ~x.applied
                /\ x.kind # "shutdown" /\ x.request = q
                => executed[q] = 0
      BY DEF Inv, Once
    <3>3. \A u \in Tabs : Reaches(u, q)' <=> Reaches(u, q)
      BY <1>1 DEF Reaches
    <3>4. AnswersFor(Len(terms), q) => AnswersFor(Len(terms), q)'
      BY <1>8
    <3>5. \A u \in Tabs : \A x \in In(queue'[u]) : x.request = q => x \in In(queue[u])
      BY <1>10, <1>13, <1>16, <2>3
    <3> QED
      BY <2>1, <3>1, <3>2, <3>3, <3>4, <3>5
  <2> QED
    BY <2>2, <2>3
<1>24. Truth'
  <2>1. \A e \in Entries : executed[e.key] = 1 /\ e.sentAt = call[e.key].sentAt /\ e.key \in Requests
    BY <1>3, Parts DEF Inv, Truth
  <2>2. In(terms[n].ledger) \subseteq Entries
    BY <1>2 DEF Entries
  <2>3. \A e \in Entries' : executed'[e.key] = 1 /\ e.sentAt = call[e.key].sentAt
    BY <1>6, <1>7, <1>8, <1>18, <2>1, <2>2
  <2>4. /\ \A u \in Tabs, q \in Requests : remembered[u][q] = "ok" => executed[q] = 1
        /\ \A q \in Requests : call[q].told = "ok" => executed[q] = 1
    BY DEF Inv, Truth
  <2> QED
    BY <1>1, <1>6, <1>18, <2>3, <2>4 DEF Truth
<1> QED
  BY <1>17, <1>19, <1>20, <1>21, <1>22, <1>23, <1>24 DEF Inv

(* A tab runs its own mutation: it did not run before, and no leader will look at it again. *)
LEMMA RunLocallyInv ==
  ASSUME Inv, NEW t \in Tabs, RunLocally(t)
  PROVE  Inv'
<1> DEFINE h == Head(queue[t])
           r == h.request
<1>1. /\ queue[t] # <<>> /\ h.kind = "local"
      /\ queue' = [queue EXCEPT ![t] = Tail(queue[t])]
      /\ UNCHANGED <<now, tabVars, known, graceful, inbox, serving, remembered>>
      /\ \/ ~Valid(t) /\ Become(r, [call[r] EXCEPT !.pc = "loop"]) /\ UNCHANGED executed
         \/ Valid(t) /\ Become(r, Told(call[r], "refused")) /\ UNCHANGED executed
         \/ Valid(t) /\ Become(r, Told(call[r], "ok")) /\ executed' = [executed EXCEPT ![r] = executed[r] + 1]
  BY DEF RunLocally
<1>2. /\ r \in Requests /\ h.term \in 1 .. Len(terms) /\ h \in In(queue[t])
      /\ queue \in [Tabs -> Seq(Turn)] /\ Tail(queue[t]) \in Seq(Turn)
      /\ From[r] = t /\ call[r].pc = "local" /\ ~h.applied
      /\ In(Tail(queue[t])) \subseteq In(queue[t]) /\ Distinct(Tail(queue[t]))
      /\ \A x \in In(Tail(queue[t])) : ~(x.kind = "local" /\ x.request = r)
  <2>1. GoodTurn(t, h, In(serving[t]), call, executed, Len(terms))
    BY <1>1, HeadTurn
  <2>2. From[r] = t /\ call[r].pc = "local" /\ ~h.applied
    BY <1>1, <2>1 DEF GoodTurn
  <2>3. h.kind # "shutdown"
    BY <1>1
  <2> QED
    BY <1>1, <2>2, <2>3, HeadTurn
<1>3. /\ TypeOK /\ call \in [Requests -> Call] /\ call[r] \in Call
      /\ executed \in [Requests -> Nat] /\ Len(terms) \in Nat /\ call[r].told = "none"
  BY <1>2, Parts DEF Inv, TypeOK, Calls
<1>4. UNCHANGED <<now, mode, holder, terms, leading, leaving, known, graceful, inbox, serving, remembered>>
  BY <1>1 DEF tabVars
<1> HIDE DEF r, h
<1>5. PICK c \in Call :
         /\ Become(r, c) /\ c.sentRemotely = call[r].sentRemotely /\ c.sentAt = call[r].sentAt
         /\ c.pc \in {"loop", "told"} /\ (c.told # "none" => c.pc = "told")
         /\ \/ UNCHANGED executed /\ c.told # "ok"
            \/ /\ executed' = [executed EXCEPT ![r] = executed[r] + 1] /\ Valid(t)
               /\ c.told = "ok" /\ c.pc = "told"
  <2>1. [call[r] EXCEPT !.pc = "loop"] \in Call /\ Told(call[r], "refused") \in Call /\ Told(call[r], "ok") \in Call
    BY <1>3, CallTypes DEF Answers, Outcomes
  <2>2. CASE Become(r, [call[r] EXCEPT !.pc = "loop"]) /\ UNCHANGED executed
    BY <1>3, <2>1, <2>2 DEF Call
  <2>3. CASE Become(r, Told(call[r], "refused")) /\ UNCHANGED executed
    BY <1>3, <2>1, <2>3 DEF Call, Told
  <2>4. CASE /\ Become(r, Told(call[r], "ok")) /\ executed' = [executed EXCEPT ![r] = executed[r] + 1]
             /\ Valid(t)
    BY <1>3, <2>1, <2>4 DEF Call, Told
  <2> QED
    BY <1>1, <2>2, <2>3, <2>4
<1>6. call' \in [Requests -> Call] /\ \A q \in Requests : call'[q] = IF q = r THEN c ELSE call[q]
  BY <1>2, <1>3, <1>5, BecomeFacts
<1>7. /\ queue' \in [Tabs -> Seq(Turn)] /\ queue'[t] = Tail(queue[t])
      /\ \A u \in Tabs \ {t} : queue'[u] = queue[u]
      /\ \A u \in Tabs : In(queue'[u]) \subseteq In(queue[u])
  <2>1. /\ queue' \in [Tabs -> Seq(Turn)] /\ queue'[t] = Tail(queue[t])
        /\ \A u \in Tabs \ {t} : queue'[u] = queue[u]
    BY <1>1, <1>2
  <2> QED
    BY <1>2, <2>1
<1>8. \A u \in Tabs : /\ \A x \in In(queue[u]) : GoodTurn(u, x, In(serving[u]), call, executed, Len(terms))
                      /\ \A d \in In(serving[u]) : GoodDelivery(u, d, call, Len(terms)) /\ d.request \in Requests
                      /\ Distinct(queue[u])
  <2>1. \A u \in Tabs : \A d \in In(serving[u]) : d.request \in Requests
    BY <1>3, Parts DEF Delivery
  <2> QED
    BY <2>1 DEF Inv, Work
<1>9. \A u \in Tabs : \A x \in In(queue'[u]) : ~(x.kind = "local" /\ x.request = r)
  <2> SUFFICES ASSUME NEW u \in Tabs, NEW x \in In(queue'[u]), x.kind = "local", x.request = r
               PROVE  FALSE
    OBVIOUS
  <2>1. u = t
    BY <1>2, <1>7, <1>8 DEF GoodTurn
  <2> QED
    BY <1>2, <1>7, <2>1
<1>10. executed' \in [Requests -> Nat] /\ \A q \in Requests \ {r} : executed'[q] = executed[q]
  BY <1>2, <1>3, <1>5
<1>11. TypeOK'
  BY <1>3, <1>4, <1>6, <1>7, <1>10 DEF TypeOK
<1>12. Leads'
  BY <1>4, <1>7 DEF Inv, Leads
<1>13. Calls'
  <2>1. /\ call[r].pc = "local" /\ c.pc # "new" /\ c.pc # "pending"
    BY <1>2, <1>5
  <2> QED
    BY <1>5, <1>6, <2>1 DEF Inv, Calls
<1>14. \A q \in Requests : call'[q].sentAt = call[q].sentAt /\ call'[q].sentRemotely = call[q].sentRemotely
  BY <1>5, <1>6
<1>15. CASE UNCHANGED executed /\ c.told # "ok"
  <2>1. \A q \in Requests : Ends(q)
    BY <1>2, <1>3, <1>5, <1>6, <1>15 DEF Ends
  <2>2. \A u \in Tabs : \A d \in In(serving[u]) : GoodDelivery(u, d, call', Len(terms))
    BY <1>8, <1>14 DEF GoodDelivery
  <2>3. \A u \in Tabs : \A x \in In(queue'[u]) : GoodTurn(u, x, In(serving[u]), call', executed, Len(terms))
    <3> SUFFICES ASSUME NEW u \in Tabs, NEW x \in In(queue'[u])
                 PROVE  GoodTurn(u, x, In(serving[u]), call', executed, Len(terms))
      OBVIOUS
    <3>1. GoodTurn(u, x, In(serving[u]), call, executed, Len(terms)) /\ ~(x.kind = "local" /\ x.request = r)
      BY <1>7, <1>8, <1>9
    <3> QED
      BY <1>6, <1>14, <3>1 DEF GoodTurn
  <2>4. \A u \in Tabs : Distinct(queue'[u])
    BY <1>2, <1>7, <1>8
  <2>5. \A q \in Requests : AnswersFor(Len(terms), q) => AnswersFor(Len(terms), q)'
    BY <1>4, <1>14 DEF AnswersFor, Logged, Ledger
  <2>6. \A e \in Entries' : executed[e.key] = 1 /\ e.sentAt = call'[e.key].sentAt
    <3>1. \A e \in Entries : e.key \in Requests /\ executed[e.key] = 1 /\ e.sentAt = call[e.key].sentAt
      BY <1>3, Parts DEF Inv, Truth
    <3>2. Entries' = Entries
      BY <1>4 DEF Entries
    <3> QED
      BY <1>14, <3>1, <3>2
  <2>7. \A u \in Tabs, q \in Requests : Reaches(u, q)' => Reaches(u, q)
    BY <1>4 DEF Reaches
  <2>8. \A u \in Tabs, q \in Requests : remembered'[u][q] = "ok" => executed[q] = 1
    BY <1>4 DEF Inv, Truth
  <2>9. \A u \in Tabs : \A m \in In(inbox'[u]) : m \in In(inbox[u])
    BY <1>4
  <2> QED
    BY <1>4, <1>7, <1>11, <1>12, <1>13, <1>15, <2>1, <2>2, <2>3, <2>4, <2>5, <2>6, <2>7, <2>8, <2>9, Acts
<1>16. CASE /\ executed' = [executed EXCEPT ![r] = executed[r] + 1] /\ Valid(t)
            /\ c.told = "ok" /\ c.pc = "told"
  <2>1. /\ leading[t] = h.term /\ leading[t] # 0 /\ \A u \in Tabs : leading[u] # 0 => u = t
    BY <1>2, <1>16 DEF Valid, h, Inv, Leads
  <2>2. executed[r] = 0 /\ executed'[r] = 1
    <3>1. executed[r] = 0
      <4>1. h.kind # "shutdown" /\ h.request = r
        BY <1>1 DEF r, h
      <4> QED
        BY <1>2, <2>1, <4>1 DEF Inv, Once
    <3> QED
      BY <1>2, <1>3, <1>16, <3>1
  <2>3. Mail'
    <3> SUFFICES ASSUME NEW u \in Tabs, NEW m \in In(inbox[u])
                 PROVE  GoodMessage(u, m, call', executed')
      BY <1>4 DEF Mail
    <3>1. GoodMessage(u, m, call, executed)
      BY DEF Inv, Mail
    <3> QED
      BY <1>10, <1>14, <2>2, <3>1 DEF GoodMessage
  <2>4. Work'
    <3> SUFFICES ASSUME NEW u \in Tabs
                 PROVE  /\ \A d \in In(serving[u]) : GoodDelivery(u, d, call', Len(terms))
                        /\ \A x \in In(queue'[u]) : GoodTurn(u, x, In(serving[u]), call', executed', Len(terms))
                        /\ Distinct(queue'[u])
      BY <1>4 DEF Work
    <3>1. \A d \in In(serving[u]) : GoodDelivery(u, d, call', Len(terms))
      BY <1>8, <1>14 DEF GoodDelivery
    <3>2. ASSUME NEW x \in In(queue'[u]) PROVE GoodTurn(u, x, In(serving[u]), call', executed', Len(terms))
      <4>1. GoodTurn(u, x, In(serving[u]), call, executed, Len(terms)) /\ ~(x.kind = "local" /\ x.request = r)
        BY <1>7, <1>8, <1>9
      <4> QED
        BY <1>6, <1>10, <1>14, <2>2, <4>1 DEF GoodTurn
    <3>3. Distinct(queue'[u])
      BY <1>2, <1>7, <1>8
    <3> QED
      BY <3>1, <3>2, <3>3
  <2>5. Once'
    <3> SUFFICES ASSUME NEW q \in Requests
                 PROVE  /\ executed'[q] <= 1
                        /\ executed'[q] = 1 =>
                              /\ call'[q].sentRemotely \/ call'[q].told = "ok"
                              /\ \/ terms # <<>> /\ AnswersFor(Len(terms), q)'
                                 \/ /\ call'[q].pc = "told"
                                    /\ \A u \in Tabs : leading[u] # 0 => ~Reaches(u, q)'
                        /\ \A u \in Tabs : \A x \in In(queue'[u]) :
                              /\ leading[u] # 0 /\ x.term = leading[u] /\ ~x.applied
                              /\ x.kind # "shutdown" /\ x.request = q
                              => executed'[q] = 0
      BY <1>4 DEF Once
    <3>1. \A u \in Tabs : Reaches(u, q)' <=> Reaches(u, q)
      BY <1>4 DEF Reaches
    <3>2. CASE q = r
      <4>1. ~Reaches(t, q)
        <5>1. \A m \in In(inbox[t]) : ~(m.kind = "op" /\ m.request = q)
          BY <1>2, <3>2 DEF Inv, Mail, GoodMessage
        <5>2. \A d \in In(serving[t]) : d.request # q
          BY <1>2, <1>8, <3>2 DEF GoodDelivery
        <5> QED
          BY <5>1, <5>2 DEF Reaches
      <4>2. ASSUME NEW u \in Tabs, NEW x \in In(queue'[u]),
                   leading[u] # 0, x.kind # "shutdown", x.request = q
            PROVE  FALSE
        <5>1. u = t /\ x \in In(queue[t]) /\ x.kind # "local"
          BY <1>7, <1>9, <2>1, <3>2, <4>2
        <5>2. x \in Turn /\ GoodTurn(t, x, In(serving[t]), call, executed, Len(terms))
          BY <1>3, <1>8, <5>1, Parts
        <5>3. x.kind = "serve"
          BY <4>2, <5>1, <5>2 DEF Turn
        <5> QED
          BY <1>2, <3>2, <4>2, <5>2, <5>3 DEF GoodTurn
      <4>3. call'[q].pc = "told" /\ call'[q].told = "ok"
        BY <1>6, <1>16, <3>2
      <4> QED
        BY <2>1, <2>2, <3>1, <3>2, <4>1, <4>2, <4>3
    <3>3. CASE q # r
      <4>1. executed'[q] = executed[q] /\ call'[q] = call[q]
        BY <1>6, <1>10, <3>3
      <4>2. /\ executed[q] <= 1
            /\ executed[q] = 1 =>
                  /\ call[q].sentRemotely \/ call[q].told = "ok"
                  /\ \/ terms # <<>> /\ AnswersFor(Len(terms), q)
                     \/ call[q].pc = "told" /\ \A u \in Tabs : leading[u] # 0 => ~Reaches(u, q)
            /\ \A u \in Tabs : \A x \in In(queue[u]) :
                  /\ leading[u] # 0 /\ x.term = leading[u] /\ ~x.applied
                  /\ x.kind # "shutdown" /\ x.request = q
                  => executed[q] = 0
        BY DEF Inv, Once
      <4>3. AnswersFor(Len(terms), q) => AnswersFor(Len(terms), q)'
        BY <1>4, <1>14 DEF AnswersFor, Logged, Ledger
      <4> QED
        BY <1>7, <3>1, <4>1, <4>2, <4>3
    <3> QED
      BY <3>2, <3>3
  <2>6. Truth'
    <3>1. \A e \in Entries : e.key \in Requests /\ executed[e.key] = 1 /\ e.sentAt = call[e.key].sentAt
      BY <1>3, Parts DEF Inv, Truth
    <3>2. Entries' = Entries
      BY <1>4 DEF Entries
    <3>3. \A e \in Entries' : executed'[e.key] = 1 /\ e.sentAt = call'[e.key].sentAt
      BY <1>10, <1>14, <2>2, <3>1, <3>2
    <3>4. /\ \A u \in Tabs, q \in Requests : remembered[u][q] = "ok" => executed[q] = 1
          /\ \A q \in Requests : call[q].told = "ok" => executed[q] = 1
      BY DEF Inv, Truth
    <3> QED
      BY <1>4, <1>6, <1>10, <2>2, <3>3, <3>4 DEF Truth
  <2> QED
    BY <1>11, <1>12, <1>13, <2>3, <2>4, <2>5, <2>6 DEF Inv
<1> QED
  BY <1>5, <1>15, <1>16

(* A leader's own request: its log answers for what was sent elsewhere, or it takes a turn *)
(* here, and then it did not run before.                                                   *)
LEMMA DispatchLocallyInv ==
  ASSUME Inv, NEW r \in Requests, DispatchLocally(r)
  PROVE  Inv'
<1> DEFINE t == From[r]
           n == leading[t]
<1>1. /\ TypeOK /\ t \in Tabs /\ call \in [Requests -> Call] /\ call[r] \in Call
      /\ n \in 0 .. MaxTerms /\ Len(terms) \in Nat /\ MaxTerms \in Nat
  BY MessageTypes, Parts DEF Inv, TypeOK
<1>2. /\ call[r].pc = "loop" /\ mode[t] = "up" /\ n # 0 /\ call[r].told = "none"
      /\ n = Len(terms) /\ n \in 1 .. Len(terms)
      /\ UNCHANGED <<now, tabVars, known, graceful, inbox, serving, remembered, executed>>
  BY <1>1 DEF DispatchLocally, InLoop, Inv, Leads, Calls
<1>3. CASE /\ \E answer \in {"ok", "uncertain"} :
                  Become(r, Told(call[r], answer)) /\ (answer = "ok" => Logged(n, r))
           /\ UNCHANGED queue
  <2>1. PICK answer \in {"ok", "uncertain"} :
           Become(r, Told(call[r], answer)) /\ (answer = "ok" => Logged(n, r))
    BY <1>3
  <2>2. Told(call[r], answer) \in Call
    BY <1>1, CallTypes DEF Answers, Outcomes
  <2>3. call'[r] = Told(call[r], answer)
    BY <1>1, <2>1, <2>2, BecomeFacts
  <2>4. answer = "ok" => executed[r] = 1
    <3> HIDE DEF n
    <3> QED
      BY <1>2, <2>1, LoggedRan
  <2>5. Moves(r)
    BY <1>1, <1>2, <2>3, <2>4 DEF Moves, Call, Told
  <2> QED
    BY <1>2, <1>3, <2>1, <2>2, <2>5, OneMoves DEF serverVars
<1>4. CASE /\ call[r].sentRemotely => ~Logged(n, r) /\ call[r].sentAt >= terms[n].coverage
           /\ Become(r, [call[r] EXCEPT !.pc = "local"])
           /\ queue' = [queue EXCEPT ![t] = Append(@, [kind |-> "local", request |-> r,
                                                       term |-> n, applied |-> FALSE])]
  <2> DEFINE c == [call[r] EXCEPT !.pc = "local"]
             y == [kind |-> "local", request |-> r, term |-> n, applied |-> FALSE]
  <2>1. c \in Call /\ c.pc = "local" /\ c.sentAt = call[r].sentAt /\ c.sentRemotely = call[r].sentRemotely
        /\ c.told = "none"
    <3>1. c \in Call
      BY <1>1, CallTypes
    <3> QED
      BY <1>1, <1>2, <3>1 DEF Call
  <2>2. y \in Turn /\ y.kind = "local" /\ y.request = r /\ y.term = n /\ ~y.applied
    BY <1>1, <1>2 DEF Turn
  <2>3. queue' = [queue EXCEPT ![t] = Append(queue[t], y)] /\ Become(r, c)
    BY <1>4
  <2> HIDE DEF c, y
  <2>4. call' \in [Requests -> Call] /\ \A q \in Requests : call'[q] = IF q = r THEN c ELSE call[q]
    BY <1>1, <2>1, <2>3, BecomeFacts
  <2>5. queue \in [Tabs -> Seq(Turn)] /\ queue[t] \in Seq(Turn)
    BY <1>1 DEF TypeOK
  <2> HIDE DEF t, n
  <2>6. /\ queue' \in [Tabs -> Seq(Turn)] /\ queue'[t] = Append(queue[t], y)
        /\ \A u \in Tabs \ {t} : queue'[u] = queue[u]
        /\ In(queue'[t]) = In(queue[t]) \cup {y}
    <3>1. Append(queue[t], y) \in Seq(Turn) /\ In(Append(queue[t], y)) = In(queue[t]) \cup {y}
      BY <2>2, <2>5, Appended
    <3> QED
      BY <1>1, <2>3, <2>5, <3>1
  <2>7. executed[r] = 0
    <3>1. call[r].sentRemotely => ~AnswersFor(n, r)
      <4>1. call[r].sentAt \in Nat /\ terms[n].coverage \in Nat
        BY <1>1, <1>2, Parts
      <4> QED
        BY <1>4, <4>1 DEF AnswersFor
    <3>2. /\ executed[r] \in Nat /\ executed[r] <= 1
          /\ executed[r] = 1 =>
                /\ call[r].sentRemotely \/ call[r].told = "ok"
                /\ AnswersFor(Len(terms), r) \/ call[r].pc = "told"
      BY <1>1, Parts DEF Inv, Once
    <3>3. executed[r] # 1
      BY <1>2, <3>1, <3>2
    <3> QED
      BY <3>2, <3>3
  <2>8. \A u \in Tabs : /\ \A x \in In(queue[u]) : GoodTurn(u, x, In(serving[u]), call, executed, Len(terms))
                        /\ \A d \in In(serving[u]) : GoodDelivery(u, d, call, Len(terms)) /\ d.request \in Requests
                        /\ Distinct(queue[u])
    <3>1. \A u \in Tabs : \A d \in In(serving[u]) : d.request \in Requests
      BY <1>1, Parts DEF Delivery
    <3> QED
      BY <3>1 DEF Inv, Work
  <2>9. \A x \in In(queue[t]) : ~(x.kind = y.kind /\ x.request = y.request)
    BY <1>1, <1>2, <2>2, <2>8 DEF GoodTurn
  <2>10. \A u \in Tabs : Distinct(queue'[u])
    <3>1. Distinct(queue'[t])
      BY <1>1, <2>2, <2>5, <2>6, <2>8, <2>9, DistinctAppend
    <3> QED
      BY <2>6, <2>8, <3>1
  <2>11. UNCHANGED <<now, mode, holder, terms, leading, leaving, known, graceful, inbox, serving, remembered, executed>>
    BY <1>2 DEF tabVars
  <2>12. TypeOK'
    BY <1>1, <2>4, <2>6, <2>11 DEF TypeOK
  <2>13. Leads'
    <3>1. \A u \in Tabs : \A x \in In(queue'[u]) : x.kind = "shutdown" => x \in In(queue[u])
      BY <2>2, <2>6
    <3> QED
      BY <2>11, <3>1 DEF Inv, Leads
  <2>14. Calls'
    BY <1>2, <2>1, <2>4 DEF Inv, Calls
  <2>15. \A q \in Requests : Ends(q) /\ call'[q].sentAt = call[q].sentAt /\ call'[q].sentRemotely = call[q].sentRemotely
    BY <1>2, <2>1, <2>4 DEF Ends
  <2>16. \A u \in Tabs : \A d \in In(serving'[u]) : GoodDelivery(u, d, call', Len(terms))
    BY <2>8, <2>11, <2>15 DEF GoodDelivery
  <2>17. \A u \in Tabs : \A x \in In(queue'[u]) :
            /\ GoodTurn(u, x, In(serving'[u]), call', executed, Len(terms))
            /\ x \in In(queue[u]) \/ x.kind = "shutdown" \/ executed[x.request] = 0
    <3>1. ASSUME NEW u \in Tabs, NEW x \in In(queue[u])
          PROVE  GoodTurn(u, x, In(serving'[u]), call', executed, Len(terms))
      <4>1. GoodTurn(u, x, In(serving[u]), call, executed, Len(terms))
        BY <2>8
      <4> QED
        BY <1>2, <2>4, <2>11, <2>15, <4>1 DEF GoodTurn
    <3>2. GoodTurn(t, y, In(serving'[t]), call', executed, Len(terms))
      BY <1>1, <1>2, <2>1, <2>2, <2>4 DEF GoodTurn, t
    <3> QED
      BY <2>2, <2>6, <2>7, <3>1, <3>2
  <2>18. \A q \in Requests : AnswersFor(Len(terms), q) => AnswersFor(Len(terms), q)'
    BY <2>11, <2>15 DEF AnswersFor, Logged, Ledger
  <2>19. \A e \in Entries' : executed[e.key] = 1 /\ e.sentAt = call'[e.key].sentAt
    <3>1. \A e \in Entries : e.key \in Requests /\ executed[e.key] = 1 /\ e.sentAt = call[e.key].sentAt
      BY <1>1, Parts DEF Inv, Truth
    <3>2. Entries' = Entries
      BY <2>11 DEF Entries
    <3> QED
      BY <2>15, <3>1, <3>2
  <2>20. \A u \in Tabs, q \in Requests : Reaches(u, q)' => Reaches(u, q)
    BY <2>11 DEF Reaches
  <2>21. \A u \in Tabs, q \in Requests : remembered'[u][q] = "ok" => executed[q] = 1
    BY <2>11 DEF Inv, Truth
  <2>22. \A u \in Tabs : \A m \in In(inbox'[u]) : m \in In(inbox[u])
    BY <2>11
  <2> QED
    BY <2>10, <2>11, <2>12, <2>13, <2>14, <2>15, <2>16, <2>17, <2>18, <2>19, <2>20, <2>21, <2>22, Acts
<1>5. CASE /\ call[r].sentRemotely /\ Logged(n, r)
           /\ Become(r, Told(call[r], IF Settled(n, r) THEN "ok" ELSE "uncertain")) /\ UNCHANGED queue
  BY <1>3, <1>5
<1>6. CASE Become(r, Told(call[r], "uncertain")) /\ UNCHANGED queue
  BY <1>3, <1>6
<1>7. \/ /\ call[r].sentRemotely /\ Logged(n, r)
         /\ Become(r, Told(call[r], IF Settled(n, r) THEN "ok" ELSE "uncertain")) /\ UNCHANGED queue
      \/ Become(r, Told(call[r], "uncertain")) /\ UNCHANGED queue
      \/ /\ call[r].sentRemotely => ~Logged(n, r) /\ call[r].sentAt >= terms[n].coverage
         /\ Become(r, [call[r] EXCEPT !.pc = "local"])
         /\ queue' = [queue EXCEPT ![t] = Append(@, [kind |-> "local", request |-> r,
                                                     term |-> n, applied |-> FALSE])]
  BY DEF DispatchLocally
<1> HIDE DEF t, n
<1> QED
  BY <1>4, <1>5, <1>6, <1>7

(***************************************************************************)
(* Leadership.                                                             *)
(***************************************************************************)
(* A log that is opened or closed says what it said. *)
LEMMA TermEnds ==
  ASSUME Inv, NEW n \in 1 .. Len(terms), terms' = [terms EXCEPT ![n].open = FALSE],
         UNCHANGED <<call, executed>>
  PROVE  /\ terms' \in Seq(Log) /\ Len(terms') = Len(terms)
         /\ \A q \in Requests : AnswersFor(Len(terms), q) => AnswersFor(Len(terms), q)'
         /\ \A e \in Entries' : executed[e.key] = 1 /\ e.sentAt = call[e.key].sentAt
<1> DEFINE log == [terms[n] EXCEPT !.open = FALSE]
<1>1. TypeOK /\ terms[n] \in Log
  BY ElementOfSeq DEF Inv, TypeOK, Log
<1>2. /\ log \in Log /\ log.ledger = terms[n].ledger /\ log.coverage = terms[n].coverage
  BY <1>1 DEF Log
<1>3. terms' = [terms EXCEPT ![n] = log]
  OBVIOUS
<1>4. terms[n].coverage <= log.coverage
  BY <1>1, <1>2, Parts
<1>5. In(log.ledger) \subseteq Entries /\ Ledger(n) = log.ledger
  BY <1>2 DEF Entries, Ledger
<1> HIDE DEF log
<1>6. /\ terms' \in Seq(Log) /\ Len(terms') = Len(terms)
      /\ \A q \in Requests : AnswersFor(Len(terms), q) => AnswersFor(Len(terms), q)'
      /\ \A e \in Entries' : e \in Entries \/ e \in In(log.ledger)
  BY <1>2, <1>3, <1>4, <1>5, LogMoves
<1> QED
  BY <1>5, <1>6 DEF Inv, Truth

(* A tab takes the lead: it recovers the last log, and no request is at its door. *)
LEMMA ElectInv ==
  ASSUME Inv, NEW t \in Tabs, Elect(t)
  PROVE  Inv'
<1> DEFINE N == Len(terms)
           log == IF terms = <<>> THEN [open |-> TRUE, ledger |-> <<>>, coverage |-> 0]
                  ELSE [terms[N] EXCEPT !.open = TRUE]
<1>1. /\ TypeOK /\ N \in Nat /\ MaxTerms \in Nat /\ MaxNow \in Nat /\ terms \in Seq(Log)
      /\ inbox \in [Tabs -> Seq(Message)] /\ leading \in [Tabs -> 0 .. MaxTerms]
      /\ known \in [Tabs -> Tabs \cup {Nobody}] /\ Nobody \notin Tabs
  BY Parts, ServedRequestsAssumption DEF Inv, TypeOK, Log
<1>2. /\ mode[t] = "up" /\ holder = Nobody /\ leading[t] = 0 /\ N < MaxTerms
      /\ \A m \in In(inbox[t]) : m.kind # "op"
      /\ \A d \in In(serving[t]) : d.phase # "lock"
      /\ holder' = t /\ leading' = [leading EXCEPT ![t] = N + 1]
      /\ known' = [known EXCEPT ![t] = t]
      /\ inbox' = Broadcast(inbox, t, Notice("leader", t))
      /\ UNCHANGED <<now, mode, leaving, graceful, serverVars, call, executed>>
  BY DEF Elect, In
<1>3. terms' = Append(terms, log)
  BY DEF Elect
<1>4. /\ log \in Log /\ (terms = <<>> => log.ledger = <<>>)
      /\ terms # <<>> => log.ledger = terms[N].ledger /\ log.coverage = terms[N].coverage /\ N \in 1 .. N
  <2>1. CASE terms = <<>>
    BY <1>1, <2>1 DEF Log
  <2>2. CASE terms # <<>>
    <3>1. N \in 1 .. N
      BY <1>1, <2>2, EmptySeq
    <3>2. terms[N] \in Log
      BY <1>1, <3>1, ElementOfSeq
    <3> QED
      BY <2>2, <3>1, <3>2 DEF Log
  <2> QED
    BY <2>1, <2>2
<1> HIDE DEF log
<1>5. /\ terms' \in Seq(Log) /\ Len(terms') = N + 1
      /\ \A i \in 1 .. N : terms'[i] = terms[i]
      /\ terms'[N + 1] = log
  BY <1>1, <1>3, <1>4, Appended
<1>6. \A u \in Tabs : leading[u] = 0 /\ \A x \in In(queue[u]) : x.kind # "shutdown"
  BY <1>1, <1>2 DEF Inv, Leads
<1>7. /\ leading' \in [Tabs -> 0 .. MaxTerms] /\ leading'[t] = N + 1
      /\ \A u \in Tabs \ {t} : leading'[u] = 0
      /\ known' \in [Tabs -> Tabs \cup {Nobody}] /\ \A u \in Tabs \ {t} : known'[u] = known[u]
  BY <1>1, <1>2, <1>6
<1>8. /\ inbox' \in [Tabs -> Seq(Message)] /\ inbox'[t] = inbox[t]
      /\ \A u \in Tabs : In(inbox'[u]) \subseteq In(inbox[u]) \cup (IF u # t THEN {Notice("leader", t)} ELSE {})
  <2>1. Notice("leader", t) \in Message
    BY MessageTypes
  <2>2. /\ Broadcast(inbox, t, Notice("leader", t)) \in [Tabs -> Seq(Message)]
        /\ Broadcast(inbox, t, Notice("leader", t))[t] = inbox[t]
        /\ \A u \in Tabs : In(Broadcast(inbox, t, Notice("leader", t))[u])
                \subseteq In(inbox[u]) \cup (IF u # t THEN {Notice("leader", t)} ELSE {})
    BY <1>1, <2>1, BroadcastFacts
  <2> QED
    BY <1>2, <2>2
<1>9. UNCHANGED <<now, mode, leaving, graceful, serving, queue, remembered, call, executed>>
  BY <1>2 DEF serverVars
<1>10. TypeOK'
  BY <1>1, <1>2, <1>5, <1>7, <1>8, <1>9, SMTT(30) DEF TypeOK, Log
<1>11. Leads'
  <2>1. terms' # <<>>
    BY <1>1, <1>5
  <2> QED
    BY <1>1, <1>2, <1>5, <1>6, <1>7, <1>9, <2>1 DEF Inv, Leads
<1>12. Calls'
  BY <1>9 DEF Inv, Calls
<1>13. Mail'
  <2> SUFFICES ASSUME NEW u \in Tabs, NEW m \in In(inbox'[u])
               PROVE  GoodMessage(u, m, call, executed)
    BY <1>9 DEF Mail
  <2>1. \A x \in In(inbox[u]) : GoodMessage(u, x, call, executed)
    BY DEF Inv, Mail
  <2>2. u # t => GoodMessage(u, Notice("leader", t), call, executed)
    BY DEF GoodMessage, Notice
  <2> QED
    BY <1>8, <2>1, <2>2
<1>14. Work'
  <2> SUFFICES ASSUME NEW u \in Tabs
               PROVE  /\ \A d \in In(serving[u]) : GoodDelivery(u, d, call, N + 1)
                      /\ \A x \in In(queue[u]) : GoodTurn(u, x, In(serving[u]), call, executed, N + 1)
                      /\ Distinct(queue[u])
    BY <1>5, <1>9 DEF Work
  <2>1. /\ \A d \in In(serving[u]) : GoodDelivery(u, d, call, N) /\ d.term \in Nat
        /\ \A x \in In(queue[u]) : GoodTurn(u, x, In(serving[u]), call, executed, N) /\ x.term \in Nat
        /\ Distinct(queue[u])
    <3>1. (\A d \in Delivery : d.term \in 0 .. MaxTerms) /\ (\A x \in Turn : x.term \in 1 .. MaxTerms)
      BY DEF Delivery, Turn
    <3>2. (\A d \in In(serving[u]) : d.term \in Nat) /\ (\A x \in In(queue[u]) : x.term \in Nat)
      BY <1>1, <3>1, Parts
    <3> QED
      BY <3>2 DEF Inv, Work
  <2>2. \A k \in Nat : k <= N => k <= N + 1
    BY <1>1
  <2> HIDE DEF N
  <2>3. \A d \in In(serving[u]) : GoodDelivery(u, d, call, N + 1)
    BY <2>1, <2>2 DEF GoodDelivery
  <2>4. \A x \in In(queue[u]) : GoodTurn(u, x, In(serving[u]), call, executed, N + 1)
    BY <2>1, <2>2 DEF GoodTurn
  <2> QED
    BY <2>1, <2>3, <2>4
<1>15. Once'
  <2> SUFFICES ASSUME NEW q \in Requests
               PROVE  /\ executed[q] <= 1
                      /\ executed[q] = 1 =>
                            /\ call[q].sentRemotely \/ call[q].told = "ok"
                            /\ \/ terms' # <<>> /\ AnswersFor(Len(terms), q)'
                               \/ /\ call[q].pc = "told"
                                  /\ \A u \in Tabs : leading'[u] # 0 => ~Reaches(u, q)'
                      /\ \A u \in Tabs : \A x \in In(queue[u]) :
                            /\ leading'[u] # 0 /\ x.term = leading'[u] /\ ~x.applied
                            /\ x.kind # "shutdown" /\ x.request = q
                            => executed[q] = 0
    BY <1>9 DEF Once
  <2>1. /\ executed[q] <= 1
        /\ executed[q] = 1 =>
              /\ call[q].sentRemotely \/ call[q].told = "ok"
              /\ (terms # <<>> /\ AnswersFor(N, q)) \/ call[q].pc = "told"
    BY DEF Inv, Once
  <2>2. ASSUME terms # <<>>, AnswersFor(N, q) PROVE AnswersFor(Len(terms), q)'
    <3>1. Ledger(Len(terms))' = Ledger(N) /\ terms'[Len(terms')].coverage = terms[N].coverage
      BY <1>4, <1>5, <2>2 DEF Ledger
    <3> QED
      BY <1>9, <2>2, <3>1 DEF AnswersFor, Logged
  <2>3. terms' # <<>>
    BY <1>1, <1>5
  <2>4. ~Reaches(t, q)'
    <3>1. \A m \in In(inbox'[t]) : m.kind # "op"
      BY <1>2, <1>8
    <3>2. ASSUME NEW d \in In(serving[t]) PROVE d.phase # "lock" /\ d.term # N + 1
      <4>1. d.term \in 0 .. MaxTerms /\ d.term <= N
        BY <1>1, Parts DEF Inv, Work, GoodDelivery, Delivery
      <4> QED
        BY <1>1, <1>2, <4>1
    <3> QED
      BY <1>7, <1>9, <3>1, <3>2 DEF Reaches
  <2>5. ASSUME NEW x \in In(queue[t]) PROVE x.term # N + 1
    <3>1. x.term \in 1 .. MaxTerms /\ x.term <= N
      BY <1>1, Parts DEF Inv, Work, GoodTurn, Turn
    <3> QED
      BY <1>1, <3>1
  <2> QED
    BY <1>7, <2>1, <2>2, <2>3, <2>4, <2>5
<1>16. Truth'
  <2>1. Entries' \subseteq Entries
    <3>1. ASSUME NEW e \in Entries' PROVE e \in Entries
      <4>1. PICK i \in 1 .. N + 1 : e \in In(terms'[i].ledger)
        BY <1>5, <3>1 DEF Entries
      <4>2. CASE i \in 1 .. N
        BY <1>5, <4>1, <4>2 DEF Entries
      <4>3. CASE i = N + 1 /\ terms # <<>>
        BY <1>4, <1>5, <4>1, <4>3 DEF Entries
      <4>4. CASE i = N + 1 /\ terms = <<>>
        BY <1>4, <1>5, <4>1, <4>4 DEF In
      <4>5. i \in 1 .. N \/ i = N + 1
        BY <1>1
      <4> QED
        BY <4>2, <4>3, <4>4, <4>5
    <3> QED
      BY <3>1
  <2> QED
    BY <1>9, <2>1 DEF Inv, Truth
<1> QED
  BY <1>10, <1>11, <1>12, <1>13, <1>14, <1>15, <1>16 DEF Inv

(* Stepping down queues a shutdown, which no other is waiting for. *)
LEMMA SteppedDown ==
  ASSUME Inv, NEW t \in Tabs, leading[t] # 0, StepDown(t)
  PROVE  /\ leading' \in [Tabs -> 0 .. MaxTerms] /\ leading'[t] = 0
         /\ \A u \in Tabs \ {t} : leading'[u] = leading[u] /\ queue'[u] = queue[u]
         /\ queue' \in [Tabs -> Seq(Turn)] /\ Distinct(queue'[t])
         /\ \A x \in In(queue'[t]) :
               x \in In(queue[t]) \/ (x.kind = "shutdown" /\ x.request = Nobody /\ x.term = leading[t])
<1> DEFINE y == [kind |-> "shutdown", request |-> Nobody, term |-> leading[t], applied |-> FALSE]
<1>1. /\ TypeOK /\ leading \in [Tabs -> 0 .. MaxTerms] /\ queue \in [Tabs -> Seq(Turn)]
      /\ MaxTerms \in Nat /\ queue[t] \in Seq(Turn)
  BY Parts DEF Inv, TypeOK
<1>2. y \in Turn /\ y.kind = "shutdown" /\ y.request = Nobody /\ y.term = leading[t]
  BY <1>1 DEF Turn
<1>3. leading' = [leading EXCEPT ![t] = 0] /\ queue' = [queue EXCEPT ![t] = Append(queue[t], y)]
  BY DEF StepDown
<1> HIDE DEF y
<1>4. Append(queue[t], y) \in Seq(Turn) /\ In(Append(queue[t], y)) = In(queue[t]) \cup {y}
  BY <1>1, <1>2, Appended
<1>5. Distinct(queue[t]) /\ \A x \in In(queue[t]) : x.kind # "shutdown"
  BY DEF Inv, Work, Leads
<1>6. Distinct(Append(queue[t], y))
  BY <1>1, <1>2, <1>5, DistinctAppend
<1> QED
  BY <1>1, <1>2, <1>3, <1>4, <1>6

(* What the acts of leadership leave as it is, for tabs whose calls and turns do not change. *)
LEMMA Leaves ==
  ASSUME Inv, TypeOK', Leads', Calls',
         UNCHANGED executed, Len(terms') = Len(terms),
         \A u \in Tabs : leading'[u] # 0 => leading'[u] = leading[u],
         \A q \in Requests : Ends(q) /\ call'[q].sentRemotely = call[q].sentRemotely,
         \A u \in Tabs : \A x \in In(queue'[u]) :
             \/ /\ x \in In(queue[u]) /\ serving'[u] = serving[u]
                /\ x.kind = "local" => call'[x.request].pc = "local"
             \/ x.kind = "shutdown" /\ x.request = Nobody /\ x.term <= Len(terms),
         \A u \in Tabs : Distinct(queue'[u]),
         \A u \in Tabs : In(serving'[u]) \subseteq In(serving[u]),
         \A u \in Tabs : \A m \in In(inbox'[u]) :
             m \in In(inbox[u]) \/ (\E v \in Tabs \ {u} : m = Notice("released", v)),
         \A q \in Requests : terms # <<>> /\ AnswersFor(Len(terms), q) => AnswersFor(Len(terms), q)',
         \A e \in Entries' : executed[e.key] = 1 /\ e.sentAt = call[e.key].sentAt,
         \A u \in Tabs, q \in Requests : remembered'[u][q] = "ok" => remembered[u][q] = "ok"
  PROVE  Inv'
<1>1. TypeOK
  BY DEF Inv
<1>2. \A u \in Tabs : /\ \A x \in In(queue[u]) : GoodTurn(u, x, In(serving[u]), call, executed, Len(terms))
                      /\ \A d \in In(serving[u]) : GoodDelivery(u, d, call, Len(terms)) /\ d.request \in Requests
  <2>1. \A u \in Tabs : \A d \in In(serving[u]) : d.request \in Requests
    BY <1>1, Parts DEF Delivery
  <2> QED
    BY <2>1 DEF Inv, Work
<1>3. \A u \in Tabs : \A d \in In(serving'[u]) : GoodDelivery(u, d, call', Len(terms))
  BY <1>2 DEF GoodDelivery
<1>4. \A u \in Tabs : \A x \in In(queue'[u]) :
          /\ GoodTurn(u, x, In(serving'[u]), call', executed, Len(terms))
          /\ x \in In(queue[u]) \/ x.kind = "shutdown" \/ executed[x.request] = 0
  <2> SUFFICES ASSUME NEW u \in Tabs, NEW x \in In(queue'[u])
               PROVE  /\ GoodTurn(u, x, In(serving'[u]), call', executed, Len(terms))
                      /\ x \in In(queue[u]) \/ x.kind = "shutdown"
    OBVIOUS
  <2>1. CASE x.kind = "shutdown" /\ x.request = Nobody /\ x.term <= Len(terms)
    BY <2>1 DEF GoodTurn
  <2>2. CASE /\ x \in In(queue[u]) /\ serving'[u] = serving[u]
             /\ x.kind = "local" => call'[x.request].pc = "local"
    <3>1. GoodTurn(u, x, In(serving[u]), call, executed, Len(terms))
      BY <1>2, <2>2
    <3> QED
      BY <2>2, <3>1 DEF GoodTurn
  <2> QED
    BY <2>1, <2>2
<1>5. \A u \in Tabs : \A m \in In(inbox'[u]) :
          m \in In(inbox[u]) \/ (m.kind # "op" /\ GoodMessage(u, m, call', executed))
  BY DEF GoodMessage, Notice
<1>6. \A u \in Tabs, q \in Requests :
          leading'[u] # 0 /\ call[q].pc = "told" /\ Reaches(u, q)' => Reaches(u, q)
  <2> SUFFICES ASSUME NEW u \in Tabs, NEW q \in Requests, leading'[u] # 0, Reaches(u, q)'
               PROVE  Reaches(u, q)
    OBVIOUS
  <2>1. \A m \in In(inbox'[u]) : m.kind = "op" => m \in In(inbox[u])
    BY <1>5
  <2> QED
    BY <2>1 DEF Reaches
<1>7. \A e \in Entries' : executed[e.key] = 1 /\ e.sentAt = call'[e.key].sentAt
  <2>1. \A e \in Entries' : e.key \in Requests
    <3>1. \A e \in Entries' : e \in Entry
      <4>1. ASSUME NEW i \in 1 .. Len(terms') PROVE terms'[i].ledger \in Seq(Entry)
        <5>1. terms' \in Seq(Log)
          BY DEF TypeOK, Log
        <5>2. terms'[i] \in Log
          BY <5>1, ElementOfSeq
        <5> QED
          BY <5>2 DEF Log
      <4>2. ASSUME NEW i \in 1 .. Len(terms') PROVE In(terms'[i].ledger) \subseteq Entry
        BY <4>1, Held
      <4> QED
        BY <4>2 DEF Entries
    <3> QED
      BY <3>1 DEF Entry
  <2> QED
    BY <2>1 DEF Ends
<1>8. \A u \in Tabs, q \in Requests : remembered'[u][q] = "ok" => executed[q] = 1
  BY DEF Inv, Truth
<1> QED
  BY <1>3, <1>4, <1>5, <1>6, <1>7, <1>8, Acts

(* A leader yields, or its recovery fails. *)
LEMMA YieldInv ==
  ASSUME Inv, NEW t \in Tabs, Yield(t)
  PROVE  Inv'
<1>1. /\ mode[t] = "up" /\ leading[t] # 0 /\ StepDown(t) /\ known' = [known EXCEPT ![t] = Nobody]
      /\ UNCHANGED <<now, mode, holder, terms, leaving, graceful, inbox, serving, remembered, call, executed>>
  BY DEF Yield
<1>2. /\ leading' \in [Tabs -> 0 .. MaxTerms] /\ leading'[t] = 0
      /\ \A u \in Tabs \ {t} : leading'[u] = leading[u] /\ queue'[u] = queue[u]
      /\ queue' \in [Tabs -> Seq(Turn)] /\ Distinct(queue'[t])
      /\ \A x \in In(queue'[t]) :
            x \in In(queue[t]) \/ (x.kind = "shutdown" /\ x.request = Nobody /\ x.term = leading[t])
  BY <1>1, SteppedDown
<1>3. /\ known \in [Tabs -> Tabs \cup {Nobody}] /\ Nobody \notin Tabs /\ TypeOK /\ Len(terms) \in Nat
      /\ leading[t] = Len(terms) /\ holder = t
  BY <1>1, Parts, ServedRequestsAssumption DEF Inv, TypeOK, Leads
<1>4. /\ known' \in [Tabs -> Tabs \cup {Nobody}] /\ known'[t] # t
      /\ \A u \in Tabs \ {t} : known'[u] = known[u]
  BY <1>1, <1>3
<1>5. TypeOK'
  BY <1>1, <1>2, <1>3, <1>4 DEF TypeOK
<1>6. Leads'
  BY <1>1, <1>2, <1>3, <1>4, ZenonT(30) DEF Inv, Leads
<1>7. Calls' /\ \A q \in Requests : Ends(q) /\ call'[q].sentRemotely = call[q].sentRemotely
  BY <1>1 DEF Inv, Calls, Ends
<1>8. /\ \A q \in Requests : AnswersFor(Len(terms), q) => AnswersFor(Len(terms), q)'
      /\ \A e \in Entries' : executed[e.key] = 1 /\ e.sentAt = call[e.key].sentAt
  BY <1>1, LogKept
<1>9. \A u \in Tabs : \A x \in In(queue[u]) : x.kind = "local" => call[x.request].pc = "local"
  BY DEF Inv, Work, GoodTurn
<1>10. \A u \in Tabs : \A x \in In(queue'[u]) :
             \/ /\ x \in In(queue[u]) /\ serving'[u] = serving[u]
                /\ x.kind = "local" => call'[x.request].pc = "local"
             \/ x.kind = "shutdown" /\ x.request = Nobody /\ x.term <= Len(terms)
  <2>1. \A x \in In(queue'[t]) : x \in In(queue[t])
           \/ (x.kind = "shutdown" /\ x.request = Nobody /\ x.term <= Len(terms))
    BY <1>2, <1>3
  <2>2. \A u \in Tabs \ {t} : queue'[u] = queue[u]
    BY <1>2
  <2>3. UNCHANGED <<serving, call>>
    BY <1>1
  <2> QED
    BY <1>9, <2>1, <2>2, <2>3
<1>11. \A u \in Tabs : Distinct(queue'[u])
  BY <1>2 DEF Inv, Work
<1> QED
  BY <1>1, <1>2, <1>5, <1>6, <1>7, <1>8, <1>10, <1>11, Leaves

(* The handles are given up: no tab leads, and no shutdown waits any more. *)
LEMMA ShutdownInv ==
  ASSUME Inv, NEW t \in Tabs, Shutdown(t)
  PROVE  Inv'
<1> DEFINE h == Head(queue[t])
<1>1. /\ mode[t] # "dead" /\ queue[t] # <<>> /\ h.kind = "shutdown"
      /\ holder' = Nobody /\ terms' = [terms EXCEPT ![h.term].open = FALSE]
      /\ \/ inbox' = Broadcast(inbox, t, Notice("released", t)) /\ UNCHANGED leaving
         \/ leaving' = leaving \cup {t} /\ UNCHANGED inbox
      /\ queue' = [queue EXCEPT ![t] = Tail(queue[t])]
      /\ UNCHANGED <<now, mode, leading, known, graceful, serving, remembered, call, executed>>
  BY DEF Shutdown, EndTerm
<1>2. /\ h.term \in 1 .. Len(terms) /\ h \in In(queue[t])
      /\ queue \in [Tabs -> Seq(Turn)] /\ Tail(queue[t]) \in Seq(Turn)
      /\ In(Tail(queue[t])) \subseteq In(queue[t]) /\ Distinct(Tail(queue[t]))
      /\ \A x \in In(Tail(queue[t])) : ~(x.kind = h.kind /\ x.request = h.request)
      /\ Head(queue[t]) = queue[t][1]
  BY <1>1, HeadTurn
<1> HIDE DEF h
<1>3. /\ TypeOK /\ inbox \in [Tabs -> Seq(Message)] /\ leaving \subseteq Tabs /\ Nobody \notin Tabs
  BY ServedRequestsAssumption DEF Inv, TypeOK
<1>4. /\ holder = t /\ leading[t] = 0 /\ \A u \in Tabs : leading[u] = 0
      /\ \A u \in Tabs \ {t} : \A x \in In(queue[u]) : x.kind # "shutdown"
  BY <1>1, <1>2 DEF Inv, Leads
<1>5. \A x \in In(Tail(queue[t])) : x.kind # "shutdown"
  <2> SUFFICES ASSUME NEW x \in In(Tail(queue[t])), x.kind = "shutdown" PROVE FALSE
    OBVIOUS
  <2>1. x.request = Nobody /\ h.request = Nobody
    BY <1>1, <1>2 DEF Inv, Work, GoodTurn
  <2> QED
    BY <1>1, <1>2, <2>1
<1>6. /\ queue' \in [Tabs -> Seq(Turn)] /\ queue'[t] = Tail(queue[t])
      /\ \A u \in Tabs \ {t} : queue'[u] = queue[u]
  BY <1>1, <1>2
<1>7. \A u \in Tabs : \A x \in In(queue'[u]) : x \in In(queue[u]) /\ x.kind # "shutdown"
  BY <1>2, <1>4, <1>5, <1>6
<1>8. /\ terms' \in Seq(Log) /\ Len(terms') = Len(terms)
      /\ \A q \in Requests : AnswersFor(Len(terms), q) => AnswersFor(Len(terms), q)'
      /\ \A e \in Entries' : executed[e.key] = 1 /\ e.sentAt = call[e.key].sentAt
  BY <1>1, <1>2, TermEnds
<1>9. /\ inbox' \in [Tabs -> Seq(Message)] /\ leaving' \subseteq Tabs
      /\ \A u \in Tabs : In(inbox'[u]) \subseteq In(inbox[u]) \cup (IF u # t THEN {Notice("released", t)} ELSE {})
  <2>1. Notice("released", t) \in Message
    BY MessageTypes
  <2>2. /\ Broadcast(inbox, t, Notice("released", t)) \in [Tabs -> Seq(Message)]
        /\ \A u \in Tabs : In(Broadcast(inbox, t, Notice("released", t))[u])
                \subseteq In(inbox[u]) \cup (IF u # t THEN {Notice("released", t)} ELSE {})
    BY <1>3, <2>1, BroadcastFacts
  <2> QED
    BY <1>1, <1>3, <2>2
<1>10. TypeOK'
  BY <1>1, <1>3, <1>6, <1>8, <1>9 DEF TypeOK, Log
<1>11. Leads'
  BY <1>1, <1>4, <1>7 DEF Inv, Leads
<1>12. Calls' /\ \A q \in Requests : Ends(q) /\ call'[q].sentRemotely = call[q].sentRemotely
  BY <1>1 DEF Inv, Calls, Ends
<1>13. \A u \in Tabs : \A x \in In(queue[u]) : x.kind = "local" => call[x.request].pc = "local"
  BY DEF Inv, Work, GoodTurn
<1>14. \A u \in Tabs : Distinct(queue'[u])
  BY <1>2, <1>6 DEF Inv, Work
<1> QED
  BY <1>1, <1>7, <1>8, <1>9, <1>10, <1>11, <1>12, <1>13, <1>14, Leaves

(* A leader whose recovery fails gives up the handles at once; its turns are left behind. *)
LEMMA RecoveryFailsInv ==
  ASSUME Inv, NEW t \in Tabs, RecoveryFails(t)
  PROVE  Inv'
<1>1. /\ mode[t] = "up" /\ leading[t] # 0
      /\ holder' = Nobody /\ terms' = [terms EXCEPT ![leading[t]].open = FALSE]
      /\ inbox' = Broadcast(inbox, t, Notice("released", t))
      /\ leading' = [leading EXCEPT ![t] = 0] /\ known' = [known EXCEPT ![t] = Nobody]
      /\ UNCHANGED <<now, mode, leaving, graceful, serverVars, call, executed>>
  BY DEF RecoveryFails, EndTerm
<1>2. /\ TypeOK /\ inbox \in [Tabs -> Seq(Message)] /\ Nobody \notin Tabs
      /\ leading \in [Tabs -> 0 .. MaxTerms] /\ known \in [Tabs -> Tabs \cup {Nobody}]
      /\ MaxTerms \in Nat /\ Len(terms) \in Nat
  BY Parts, ServedRequestsAssumption DEF Inv, TypeOK
<1>3. /\ holder = t /\ leading[t] = Len(terms) /\ leading[t] \in 1 .. Len(terms)
      /\ \A u \in Tabs \ {t} : leading[u] = 0
      /\ \A u \in Tabs : \A x \in In(queue[u]) : x.kind # "shutdown"
  BY <1>1, <1>2 DEF Inv, Leads
<1>4. /\ leading' \in [Tabs -> 0 .. MaxTerms] /\ \A u \in Tabs : leading'[u] = 0
      /\ known' \in [Tabs -> Tabs \cup {Nobody}] /\ known'[t] = Nobody /\ \A u \in Tabs \ {t} : known'[u] = known[u]
  BY <1>1, <1>2, <1>3
<1>5. UNCHANGED <<serving, queue, remembered>>
  BY <1>1 DEF serverVars
<1>6. /\ terms' \in Seq(Log) /\ Len(terms') = Len(terms)
      /\ \A q \in Requests : AnswersFor(Len(terms), q) => AnswersFor(Len(terms), q)'
      /\ \A e \in Entries' : executed[e.key] = 1 /\ e.sentAt = call[e.key].sentAt
  BY <1>1, <1>3, TermEnds
<1>7. /\ inbox' \in [Tabs -> Seq(Message)]
      /\ \A u \in Tabs : In(inbox'[u]) \subseteq In(inbox[u]) \cup (IF u # t THEN {Notice("released", t)} ELSE {})
  <2>1. Notice("released", t) \in Message
    BY MessageTypes
  <2>2. /\ Broadcast(inbox, t, Notice("released", t)) \in [Tabs -> Seq(Message)]
        /\ \A u \in Tabs : In(Broadcast(inbox, t, Notice("released", t))[u])
                \subseteq In(inbox[u]) \cup (IF u # t THEN {Notice("released", t)} ELSE {})
    BY <1>2, <2>1, BroadcastFacts
  <2> QED
    BY <1>1, <2>2
<1>8. TypeOK'
  BY <1>1, <1>2, <1>4, <1>5, <1>6, <1>7 DEF TypeOK, Log
<1>9. Leads'
  BY <1>1, <1>2, <1>3, <1>4, <1>5 DEF Inv, Leads
<1>10. Calls' /\ \A q \in Requests : Ends(q) /\ call'[q].sentRemotely = call[q].sentRemotely
  BY <1>1 DEF Inv, Calls, Ends
<1>11. \A u \in Tabs : \A x \in In(queue[u]) : x.kind = "local" => call[x.request].pc = "local"
  BY DEF Inv, Work, GoodTurn
<1>12. \A u \in Tabs : Distinct(queue'[u])
  BY <1>5 DEF Inv, Work
<1> QED
  BY <1>1, <1>4, <1>5, <1>6, <1>7, <1>8, <1>9, <1>10, <1>11, <1>12, Leaves, ZenonT(30)

(* Closing: what is pending ends, an answer from memory is no longer given, and a leader *)
(* steps down.                                                                          *)
LEMMA CloseInv ==
  ASSUME Inv, NEW t \in Tabs, Close(t)
  PROVE  Inv'
<1>1. /\ mode[t] = "up" /\ mode' = [mode EXCEPT ![t] = "closed"]
      /\ \/ leading[t] = 0 /\ UNCHANGED <<leading, queue>>
         \/ leading[t] # 0 /\ StepDown(t)
      /\ call' = [r \in Requests |->
                   IF From[r] # t \/ ~Pending(r) THEN call[r]
                   ELSE Told(call[r], IF call[r].sentTo = Nobody THEN "closed" ELSE "uncertain")]
      /\ remembered' = [remembered EXCEPT ![t] = [r \in Requests |-> "none"]]
      /\ inbox' = [inbox EXCEPT ![t] = Without(inbox[t], {i \in 1 .. Len(inbox[t]) : inbox[t][i].kind # "op"})]
      /\ UNCHANGED <<now, holder, terms, leaving, known, graceful, serving, executed>>
  BY DEF Close
<1>2. /\ TypeOK /\ inbox \in [Tabs -> Seq(Message)] /\ inbox[t] \in Seq(Message)
      /\ leading \in [Tabs -> 0 .. MaxTerms] /\ queue \in [Tabs -> Seq(Turn)]
      /\ mode \in [Tabs -> {"up", "closed", "dead"}] /\ call \in [Requests -> Call]
      /\ remembered \in [Tabs -> [Requests -> Outcomes \cup {"none"}]]
      /\ MaxTerms \in Nat /\ Len(terms) \in Nat
  BY Parts DEF Inv, TypeOK
<1>3. \A u \in Tabs : leading[u] # 0 => leading[u] = Len(terms) /\ holder = u
  BY DEF Inv, Leads
<1>4. /\ leading' \in [Tabs -> 0 .. MaxTerms] /\ leading'[t] = 0
      /\ \A u \in Tabs \ {t} : leading'[u] = leading[u] /\ queue'[u] = queue[u]
      /\ queue' \in [Tabs -> Seq(Turn)] /\ Distinct(queue'[t])
      /\ \A x \in In(queue'[t]) :
            \/ x \in In(queue[t])
            \/ x.kind = "shutdown" /\ x.request = Nobody /\ x.term <= Len(terms) /\ holder = t
  <2>1. CASE leading[t] = 0 /\ UNCHANGED <<leading, queue>>
    <3>1. Distinct(queue[t])
      BY DEF Inv, Work
    <3> QED
      BY <1>2, <2>1, <3>1
  <2>2. CASE leading[t] # 0 /\ StepDown(t)
    <3>1. leading[t] <= Len(terms) /\ holder = t
      BY <1>2, <1>3, <2>2
    <3> QED
      BY <2>2, <3>1, SteppedDown
  <2> QED
    BY <1>1, <2>1, <2>2
<1>5. /\ call' \in [Requests -> Call]
      /\ \A q \in Requests : /\ call'[q].sentRemotely = call[q].sentRemotely /\ Ends(q)
                             /\ call[q].pc = "local" => call'[q].pc = "local"
                             /\ call'[q] = call[q] \/ (call'[q].pc = "told" /\ call[q].pc = "pending")
  <2> SUFFICES ASSUME NEW q \in Requests
               PROVE  /\ call'[q] \in Call /\ call'[q].sentRemotely = call[q].sentRemotely /\ Ends(q)
                      /\ call[q].pc = "local" => call'[q].pc = "local"
                      /\ call'[q] = call[q] \/ (call'[q].pc = "told" /\ call[q].pc = "pending")
    BY <1>1
  <2>1. CASE From[q] # t \/ ~Pending(q)
    BY <1>1, <1>2, <2>1 DEF Ends
  <2>2. CASE From[q] = t /\ Pending(q)
    <3>1. PICK answer \in {"closed", "uncertain"} : call'[q] = Told(call[q], answer)
      BY <1>1, <2>2
    <3>2. call[q] \in Call /\ call[q].pc = "pending" /\ call[q].told = "none"
      BY <1>2, <2>2 DEF Pending, Inv, Calls
    <3>3. Told(call[q], answer) \in Call
      BY <3>2, CallTypes DEF Answers, Outcomes
    <3> QED
      BY <3>1, <3>2, <3>3 DEF Ends, Told, Call
  <2> QED
    BY <2>1, <2>2
<1>6. /\ inbox' \in [Tabs -> Seq(Message)]
      /\ \A u \in Tabs : In(inbox'[u]) \subseteq In(inbox[u])
  <2> DEFINE gone == {i \in 1 .. Len(inbox[t]) : inbox[t][i].kind # "op"}
  <2>1. inbox' = [inbox EXCEPT ![t] = Without(inbox[t], gone)]
    BY <1>1
  <2> HIDE DEF gone
  <2>2. /\ Without(inbox[t], gone) \in Seq(Message)
        /\ In(Without(inbox[t], gone)) = {inbox[t][i] : i \in (1 .. Len(inbox[t])) \ gone}
    <3>1. inbox[t] \in Seq(Message)
      BY <1>2
    <3> QED
      BY <3>1, Remaining
  <2>3. In(Without(inbox[t], gone)) \subseteq In(inbox[t])
    BY <2>2 DEF In
  <2> QED
    BY <1>2, <2>1, <2>2, <2>3
<1>7. /\ remembered' \in [Tabs -> [Requests -> Outcomes \cup {"none"}]]
      /\ \A u \in Tabs, q \in Requests : remembered'[u][q] \in {"none", remembered[u][q]}
  BY <1>1, <1>2
<1>8. /\ mode' \in [Tabs -> {"up", "closed", "dead"}] /\ mode'[t] = "closed"
      /\ \A u \in Tabs \ {t} : mode'[u] = mode[u]
  BY <1>1, <1>2
<1>9. TypeOK'
  BY <1>1, <1>2, <1>4, <1>5, <1>6, <1>7, <1>8 DEF TypeOK
<1>10. Leads'
  <2>1. ASSUME NEW u \in Tabs
        PROVE  /\ leading'[u] # 0 => mode'[u] = "up" /\ holder = u /\ leading'[u] = Len(terms)
               /\ \A x \in In(queue'[u]) : x.kind = "shutdown" => holder = u /\ leading'[u] = 0
               /\ mode'[u] = "up" /\ leading'[u] = 0 => known[u] # u
    <3>1. CASE u = t
      BY <1>4, <1>8, <3>1 DEF Inv, Leads
    <3>2. CASE u # t
      <4>1. leading'[u] = leading[u] /\ queue'[u] = queue[u] /\ mode'[u] = mode[u]
        BY <1>4, <1>8, <3>2
      <4> QED
        BY <4>1 DEF Inv, Leads
    <3> QED
      BY <3>1, <3>2
  <2>2. UNCHANGED <<holder, known, terms>>
    BY <1>1
  <2> QED
    BY <2>1, <2>2 DEF Inv, Leads
<1>11. Calls'
  <2>1. \A q \in Requests : call'[q] \in Call
    BY <1>5
  <2> QED
    BY <1>5 DEF Inv, Calls
<1>12. /\ \A q \in Requests : AnswersFor(Len(terms), q) => AnswersFor(Len(terms), q)'
       /\ \A e \in Entries' : executed[e.key] = 1 /\ e.sentAt = call[e.key].sentAt
  <2>1. \A q \in Requests : AnswersFor(Len(terms), q) => AnswersFor(Len(terms), q)'
    BY <1>1, <1>5 DEF AnswersFor, Logged, Ledger, Ends
  <2>2. Entries' = Entries
    BY <1>1 DEF Entries
  <2> QED
    BY <2>1, <2>2 DEF Inv, Truth
<1>13. \A u \in Tabs : \A x \in In(queue[u]) :
          x.kind = "local" => x.request \in Requests /\ call[x.request].pc = "local"
  BY DEF Inv, Work, GoodTurn
<1>14. \A u \in Tabs : \A x \in In(queue'[u]) :
             \/ /\ x \in In(queue[u]) /\ serving'[u] = serving[u]
                /\ x.kind = "local" => call'[x.request].pc = "local"
             \/ x.kind = "shutdown" /\ x.request = Nobody /\ x.term <= Len(terms)
  <2>1. UNCHANGED serving
    BY <1>1
  <2> QED
    BY <1>4, <1>5, <1>13, <2>1
<1>15. \A u \in Tabs : Distinct(queue'[u])
  BY <1>4 DEF Inv, Work
<1> QED
  BY <1>1, <1>4, <1>5, <1>6, <1>7, <1>9, <1>10, <1>11, <1>12, <1>14, <1>15, Leaves

(* A crash of the last leader loses values, and no identity and no time of sending. *)
LEMMA CrashKeeps ==
  ASSUME Inv, NEW n \in 1 .. Len(terms), NEW lost \in SUBSET Requests,
         terms' = [terms EXCEPT ![n] = Crashed(terms[n], lost)],
         UNCHANGED executed, \A q \in Requests : call'[q].sentAt = call[q].sentAt
  PROVE  /\ terms' \in Seq(Log) /\ Len(terms') = Len(terms)
         /\ \A q \in Requests : AnswersFor(Len(terms), q) => AnswersFor(Len(terms), q)'
         /\ \A e \in Entries' : executed[e.key] = 1 /\ e.sentAt = call[e.key].sentAt
<1> DEFINE old == terms[n].ledger
           new == [i \in DOMAIN old |-> IF old[i].key \in lost THEN [old[i] EXCEPT !.state = "unsettled"]
                                         ELSE old[i]]
           log == [terms[n] EXCEPT !.open = FALSE, !.ledger = new]
<1>1. TypeOK /\ old \in Seq(Entry) /\ terms[n] \in Log
  BY ElementOfSeq, Parts DEF Inv, TypeOK, Log, Ledger
<1>2. terms' = [terms EXCEPT ![n] = log]
  BY DEF Crashed
<1>3. /\ new \in Seq(Entry) /\ Len(new) = Len(old)
      /\ \A i \in 1 .. Len(old) : new[i].key = old[i].key /\ new[i].sentAt = old[i].sentAt
  <2>1. DOMAIN old = 1 .. Len(old) /\ Len(old) \in Nat
    BY <1>1, LenProperties
  <2>2. \A i \in 1 .. Len(old) : old[i] \in Entry
    BY <1>1, ElementOfSeq
  <2>3. \A e \in Entry : /\ [e EXCEPT !.state = "unsettled"] \in Entry
                         /\ [e EXCEPT !.state = "unsettled"].key = e.key
                         /\ [e EXCEPT !.state = "unsettled"].sentAt = e.sentAt
    BY DEF Entry
  <2> HIDE DEF old
  <2>4. new \in [1 .. Len(old) -> Entry]
    BY <2>1, <2>2, <2>3
  <2>5. \A i \in 1 .. Len(old) : new[i].key = old[i].key /\ new[i].sentAt = old[i].sentAt
    BY <2>1, <2>2, <2>3
  <2> HIDE DEF new
  <2>6. new \in Seq(Entry) /\ Len(new) = Len(old)
    BY <2>1, <2>4
  <2> QED
    BY <2>5, <2>6
<1> HIDE DEF new
<1>4. log \in Log /\ log.ledger = new /\ log.coverage = terms[n].coverage
  BY <1>1, <1>3 DEF Log
<1>5. /\ \A e \in In(old) : \E x \in In(new) : x.key = e.key
      /\ \A x \in In(new) : \E e \in In(old) : x.key = e.key /\ x.sentAt = e.sentAt
  <2> HIDE DEF old
  <2> QED
    BY <1>3 DEF In
<1>6. terms[n].coverage <= log.coverage
  BY <1>1, <1>4, Parts
<1>7. \A e \in In(Ledger(n)) : (\E x \in In(log.ledger) : x.key = e.key) \/ e.sentAt < log.coverage
  BY <1>4, <1>5 DEF Ledger
<1>8. In(old) \subseteq Entries
  BY DEF Entries
<1> HIDE DEF log, old
<1>9. /\ terms' \in Seq(Log) /\ Len(terms') = Len(terms)
      /\ \A q \in Requests : AnswersFor(Len(terms), q) => AnswersFor(Len(terms), q)'
      /\ \A e \in Entries' : e \in Entries \/ e \in In(log.ledger)
  <2>1. log \in Log
    BY <1>4
  <2> QED
    BY <1>2, <1>6, <1>7, <2>1, LogMoves, ZenonT(30)
<1>10. \A e \in Entries : executed[e.key] = 1 /\ e.sentAt = call[e.key].sentAt
  BY DEF Inv, Truth
<1>11. \A e \in Entries' : \E x \in Entries : x.key = e.key /\ x.sentAt = e.sentAt
  BY <1>4, <1>5, <1>8, <1>9
<1> QED
  BY <1>9, <1>10, <1>11

(* Dying: everything a tab holds is gone, and its log may have lost values, but no identity. *)
LEMMA DieInv ==
  ASSUME Inv, NEW t \in Tabs, Die(t)
  PROVE  Inv'
<1>1. /\ mode' = [mode EXCEPT ![t] = "dead"] /\ holder' = IF holder = t THEN Nobody ELSE holder
      /\ leading' = [leading EXCEPT ![t] = 0] /\ leaving' = leaving \ {t}
      /\ inbox' = [inbox EXCEPT ![t] = <<>>]
      /\ serving' = [serving EXCEPT ![t] = <<>>] /\ queue' = [queue EXCEPT ![t] = <<>>]
      /\ remembered' = [remembered EXCEPT ![t] = [r \in Requests |-> "none"]]
      /\ known' = [known EXCEPT ![t] = Nobody] /\ graceful' = [graceful EXCEPT ![t] = {}]
      /\ call' = [r \in Requests |-> IF From[r] = t THEN [call[r] EXCEPT !.pc = "told"] ELSE call[r]]
      /\ \/ holder # t /\ UNCHANGED terms
         \/ /\ holder = t
            /\ \E lost \in SUBSET Requests :
                  terms' = [terms EXCEPT ![Len(terms)] = Crashed(terms[Len(terms)], lost)]
      /\ UNCHANGED <<now, executed>>
  BY DEF Die
<1>2. /\ TypeOK /\ mode \in [Tabs -> {"up", "closed", "dead"}] /\ Nobody \notin Tabs
      /\ holder \in Tabs \cup {Nobody} /\ leading \in [Tabs -> 0 .. MaxTerms] /\ leaving \subseteq Tabs
      /\ inbox \in [Tabs -> Seq(Message)] /\ serving \in [Tabs -> Seq(Delivery)] /\ queue \in [Tabs -> Seq(Turn)]
      /\ remembered \in [Tabs -> [Requests -> Outcomes \cup {"none"}]]
      /\ known \in [Tabs -> Tabs \cup {Nobody}] /\ graceful \in [Tabs -> SUBSET (Tabs \cup {Nobody})]
      /\ call \in [Requests -> Call] /\ MaxTerms \in Nat /\ Len(terms) \in Nat /\ terms \in Seq(Log)
  BY Parts, ServedRequestsAssumption DEF Inv, TypeOK, Log
<1>3. <<>> \in Seq(Message) /\ <<>> \in Seq(Delivery) /\ <<>> \in Seq(Turn) /\ In(<<>>) = {} /\ Distinct(<<>>)
  BY DEF In, Distinct
<1>4. /\ mode' \in [Tabs -> {"up", "closed", "dead"}] /\ holder' \in Tabs \cup {Nobody}
      /\ leading' \in [Tabs -> 0 .. MaxTerms] /\ leaving' \subseteq Tabs
      /\ inbox' \in [Tabs -> Seq(Message)] /\ serving' \in [Tabs -> Seq(Delivery)] /\ queue' \in [Tabs -> Seq(Turn)]
      /\ remembered' \in [Tabs -> [Requests -> Outcomes \cup {"none"}]]
      /\ known' \in [Tabs -> Tabs \cup {Nobody}] /\ graceful' \in [Tabs -> SUBSET (Tabs \cup {Nobody})]
  <2>1. mode' \in [Tabs -> {"up", "closed", "dead"}] /\ holder' \in Tabs \cup {Nobody}
    BY <1>1, <1>2
  <2>2. leading' \in [Tabs -> 0 .. MaxTerms] /\ leaving' \subseteq Tabs
    BY <1>1, <1>2
  <2>3. inbox' \in [Tabs -> Seq(Message)] /\ serving' \in [Tabs -> Seq(Delivery)] /\ queue' \in [Tabs -> Seq(Turn)]
    BY <1>1, <1>2, <1>3
  <2>4. remembered' \in [Tabs -> [Requests -> Outcomes \cup {"none"}]]
    BY <1>1, <1>2
  <2>5. known' \in [Tabs -> Tabs \cup {Nobody}] /\ graceful' \in [Tabs -> SUBSET (Tabs \cup {Nobody})]
    BY <1>1, <1>2
  <2> QED
    BY <2>1, <2>2, <2>3, <2>4, <2>5
<1>5. /\ mode'[t] = "dead" /\ leading'[t] = 0 /\ inbox'[t] = <<>> /\ serving'[t] = <<>> /\ queue'[t] = <<>>
      /\ \A u \in Tabs \ {t} : /\ mode'[u] = mode[u] /\ leading'[u] = leading[u] /\ inbox'[u] = inbox[u]
                               /\ serving'[u] = serving[u] /\ queue'[u] = queue[u] /\ known'[u] = known[u]
      /\ \A u \in Tabs, q \in Requests : remembered'[u][q] \in {"none", remembered[u][q]}
  BY <1>1, <1>2
<1>6. /\ call' \in [Requests -> Call]
      /\ \A q \in Requests : /\ call'[q].sentRemotely = call[q].sentRemotely /\ Ends(q)
                             /\ From[q] # t => call'[q] = call[q]
                             /\ call'[q] = call[q] \/ call'[q].pc = "told"
  <2> SUFFICES ASSUME NEW q \in Requests
               PROVE  /\ call'[q] \in Call /\ call'[q].sentRemotely = call[q].sentRemotely /\ Ends(q)
                      /\ From[q] # t => call'[q] = call[q]
                      /\ call'[q] = call[q] \/ call'[q].pc = "told"
    BY <1>1
  <2>1. CASE From[q] # t
    BY <1>1, <1>2, <2>1 DEF Ends
  <2>2. CASE From[q] = t
    <3>1. call[q] \in Call /\ call'[q] = [call[q] EXCEPT !.pc = "told"]
      BY <1>1, <1>2, <2>2
    <3>2. [call[q] EXCEPT !.pc = "told"] \in Call
      BY <3>1, CallTypes
    <3> QED
      BY <2>2, <3>1, <3>2 DEF Ends, Call
  <2> QED
    BY <2>1, <2>2
<1>7. /\ terms' \in Seq(Log) /\ Len(terms') = Len(terms)
      /\ \A q \in Requests : AnswersFor(Len(terms), q) => AnswersFor(Len(terms), q)'
      /\ \A e \in Entries' : executed[e.key] = 1 /\ e.sentAt = call[e.key].sentAt
  <2>1. CASE holder # t /\ UNCHANGED terms
    <3>1. \A q \in Requests : AnswersFor(Len(terms), q) => AnswersFor(Len(terms), q)'
      BY <1>6, <2>1 DEF AnswersFor, Logged, Ledger, Ends
    <3>2. Entries' = Entries
      BY <2>1 DEF Entries
    <3> QED
      BY <1>2, <2>1, <3>1, <3>2 DEF Inv, Truth
  <2>2. CASE /\ holder = t
             /\ \E lost \in SUBSET Requests :
                   terms' = [terms EXCEPT ![Len(terms)] = Crashed(terms[Len(terms)], lost)]
    <3>1. terms # <<>>
      BY <1>2, <2>2 DEF Inv, Leads
    <3>2. UNCHANGED executed /\ \A q \in Requests : call'[q].sentAt = call[q].sentAt
      BY <1>1, <1>6 DEF Ends
    <3>3. Len(terms) \in 1 .. Len(terms)
      BY <1>2, <3>1, EmptySeq
    <3> QED
      BY <2>2, <3>2, <3>3, CrashKeeps
  <2> QED
    BY <1>1, <2>1, <2>2
<1>8. terms' # <<>> <=> terms # <<>>
  BY <1>2, <1>7
<1>9. TypeOK'
  BY <1>1, <1>2, <1>4, <1>6, <1>7 DEF TypeOK, Log
<1>10. Leads'
  <2>1. ASSUME NEW u \in Tabs
        PROVE  /\ leading'[u] # 0 => mode'[u] = "up" /\ holder' = u /\ leading'[u] = Len(terms)
               /\ \A x \in In(queue'[u]) : x.kind = "shutdown" => holder' = u /\ leading'[u] = 0
               /\ mode'[u] = "up" /\ leading'[u] = 0 => known'[u] # u
    <3>1. CASE u = t
      BY <1>3, <1>5, <3>1
    <3>2. CASE u # t
      BY <1>1, <1>5, <3>2 DEF Inv, Leads
    <3> QED
      BY <3>1, <3>2
  <2> QED
    BY <1>1, <1>7, <1>8, <2>1 DEF Inv, Leads
<1>11. Calls'
  BY <1>6 DEF Inv, Calls
<1>12. \A u \in Tabs : \A x \in In(queue'[u]) :
             \/ /\ x \in In(queue[u]) /\ serving'[u] = serving[u]
                /\ x.kind = "local" => call'[x.request].pc = "local"
             \/ x.kind = "shutdown" /\ x.request = Nobody /\ x.term <= Len(terms)
  <2>1. \A u \in Tabs : \A x \in In(queue[u]) :
           x.kind = "local" => x.request \in Requests /\ From[x.request] = u /\ call[x.request].pc = "local"
    BY DEF Inv, Work, GoodTurn
  <2> QED
    BY <1>3, <1>5, <1>6, <2>1
<1>13. \A u \in Tabs : Distinct(queue'[u])
  BY <1>3, <1>5 DEF Inv, Work
<1>14. \A u \in Tabs : In(serving'[u]) \subseteq In(serving[u]) /\ In(inbox'[u]) \subseteq In(inbox[u])
  BY <1>3, <1>5
<1> QED
  BY <1>1, <1>5, <1>6, <1>7, <1>9, <1>10, <1>11, <1>12, <1>13, <1>14, Leaves, ZenonT(30)

-------------------------------------------------------------------------------
(***************************************************************************)
(* The theorems.                                                           *)
(***************************************************************************)
(* Nothing was sent, logged or executed yet. *)
LEMMA InitInv == Init => Inv
<1> SUFFICES ASSUME Init PROVE Inv
  OBVIOUS
<1>1. MaxTerms \in Nat /\ MaxTimeouts \in Nat /\ MaxNow \in Nat /\ Nobody \notin Tabs
  BY ServedRequestsAssumption
<1>2. /\ <<>> \in Seq(Message) /\ <<>> \in Seq(Delivery) /\ <<>> \in Seq(Turn) /\ <<>> \in Seq(Log)
      /\ Len(<<>>) = 0 /\ In(<<>>) = {} /\ Distinct(<<>>)
  BY DEF In, Distinct
<1>3. [pc |-> "new", sentAt |-> 0, sentTo |-> Nobody, mayHaveRun |-> FALSE,
       sentRemotely |-> FALSE, timeouts |-> 0, told |-> "none"] \in Call
  BY <1>1 DEF Call
<1>4. \A t \in Tabs : inbox[t] = <<>> /\ serving[t] = <<>> /\ queue[t] = <<>>
  BY DEF Init
<1>5. \A r \in Requests : /\ call[r].pc = "new" /\ ~call[r].sentRemotely /\ call[r].told = "none"
                          /\ executed[r] = 0
  BY DEF Init
<1>6. TypeOK
  <2>1. /\ inbox \in [Tabs -> Seq(Message)] /\ serving \in [Tabs -> Seq(Delivery)]
        /\ queue \in [Tabs -> Seq(Turn)] /\ terms \in Seq(Log) /\ Len(terms) = 0
    BY <1>2 DEF Init
  <2>2. call \in [Requests -> Call] /\ executed \in [Requests -> Nat]
    BY <1>3 DEF Init
  <2>3. /\ now \in 0 .. MaxNow /\ mode \in [Tabs -> {"up", "closed", "dead"}] /\ holder \in Tabs \cup {Nobody}
        /\ leading \in [Tabs -> 0 .. MaxTerms] /\ leaving \subseteq Tabs
        /\ known \in [Tabs -> Tabs \cup {Nobody}] /\ graceful \in [Tabs -> SUBSET (Tabs \cup {Nobody})]
        /\ remembered \in [Tabs -> [Requests -> Outcomes \cup {"none"}]]
    BY <1>1 DEF Init
  <2> QED
    BY <1>1, <2>1, <2>2, <2>3 DEF TypeOK, Log
<1>7. Leads
  <2>1. /\ holder = Nobody
        /\ \A t \in Tabs : leading[t] = 0 /\ known[t] = Nobody
    BY DEF Init
  <2> QED
    BY <1>1, <1>2, <1>4, <2>1 DEF Leads
<1>8. Calls
  BY <1>5 DEF Calls
<1>9. Mail
  BY <1>2, <1>4 DEF Mail
<1>10. Work
  BY <1>2, <1>4 DEF Work
<1>11. Once
  BY <1>2, <1>4, <1>5 DEF Once
<1>12. Truth
  <2>1. Entries = {}
    BY DEF Init, Entries
  <2>2. \A t \in Tabs, r \in Requests : remembered[t][r] = "none"
    BY DEF Init
  <2> QED
    BY <1>5, <2>1, <2>2 DEF Truth
<1> QED
  BY <1>6, <1>7, <1>8, <1>9, <1>10, <1>11, <1>12 DEF Inv

(* Every step keeps the invariant. *)
LEMMA InvStep == Inv /\ [Next]_vars => Inv'
<1> SUFFICES ASSUME Inv, [Next]_vars PROVE Inv'
  OBVIOUS
<1>1. CASE TabNext
  <2> SUFFICES ASSUME NEW t \in Tabs,
                      \/ Elect(t) \/ Announce(t) \/ Yield(t) \/ Shutdown(t) \/ Goodbye(t) \/ RecoveryFails(t)
                      \/ Close(t) \/ Die(t)
                      \/ ReceiveOp(t) \/ TakeLock(t) \/ Check(t) \/ DeclineTurn(t) \/ Apply(t) \/ Complete(t)
                      \/ Refuse(t) \/ ServeOthers(t) \/ RunLocally(t)
                      \/ ReceiveAnswer(t) \/ ReceiveDecline(t) \/ ReceiveLeader(t) \/ ReceiveReleased(t)
               PROVE  Inv'
    BY <1>1 DEF TabNext
  <2>1. CASE Elect(t)
    BY <2>1, ElectInv
  <2>2. CASE Announce(t) \/ Goodbye(t)
    BY <2>2, NoticesInv
  <2>3. CASE Yield(t)
    BY <2>3, YieldInv
  <2>4. CASE Shutdown(t)
    BY <2>4, ShutdownInv
  <2>5. CASE RecoveryFails(t)
    BY <2>5, RecoveryFailsInv
  <2>6. CASE Close(t)
    BY <2>6, CloseInv
  <2>7. CASE Die(t)
    BY <2>7, DieInv
  <2>8. CASE ReceiveOp(t)
    BY <2>8, ReceiveOpInv
  <2>9. CASE TakeLock(t)
    BY <2>9, TakeLockInv
  <2>10. CASE Check(t)
    BY <2>10, CheckInv
  <2>11. CASE DeclineTurn(t)
    BY <2>11, DeclineTurnInv
  <2>12. CASE Apply(t)
    BY <2>12, ApplyInv
  <2>13. CASE Complete(t)
    BY <2>13, CompleteInv
  <2>14. CASE Refuse(t)
    BY <2>14, RefuseInv
  <2>15. CASE ServeOthers(t)
    BY <2>15, ServeOthersInv
  <2>16. CASE RunLocally(t)
    BY <2>16, RunLocallyInv
  <2>17. CASE ReceiveAnswer(t)
    BY <2>17, ReceiveAnswerInv
  <2>18. CASE ReceiveDecline(t)
    BY <2>18, ReceiveDeclineInv
  <2>19. CASE ReceiveLeader(t)
    BY <2>19, ReceiveLeaderInv
  <2>20. CASE ReceiveReleased(t)
    BY <2>20, ReceiveReleasedInv
  <2> QED
    BY <2>1, <2>2, <2>3, <2>4, <2>5, <2>6, <2>7, <2>8, <2>9, <2>10, <2>11, <2>12, <2>13, <2>14, <2>15, <2>16,
       <2>17, <2>18, <2>19, <2>20
<1>2. CASE CallNext
  <2> SUFFICES ASSUME NEW r \in Requests,
                      \/ Start(r) \/ FindClosed(r) \/ DispatchLocally(r) \/ Rpc(r) \/ Timeout(r) \/ GiveUp(r)
               PROVE  Inv'
    BY <1>2 DEF CallNext
  <2>1. CASE Start(r) \/ FindClosed(r) \/ Timeout(r) \/ GiveUp(r)
    BY <2>1, CallsInv
  <2>2. CASE DispatchLocally(r)
    BY <2>2, DispatchLocallyInv
  <2>3. CASE Rpc(r)
    BY <2>3, RpcInv
  <2> QED
    BY <2>1, <2>2, <2>3
<1>3. CASE Tick
  BY <1>3, NoticesInv
<1>4. CASE UNCHANGED vars
  <2>1. UNCHANGED <<now, mode, holder, terms, leading, leaving, known, graceful, inbox, serving, remembered, queue,
                    call, executed>>
    BY <1>4 DEF vars, tabVars, serverVars
  <2>2. TypeOK' /\ Leads' /\ Calls'
    BY <2>1 DEF Inv, TypeOK, Leads, Calls
  <2>3. Mail' /\ Work'
    BY <2>1 DEF Inv, Mail, Work
  <2>4. Once'
    BY <2>1 DEF Inv, Once, AnswersFor, Logged, Ledger, Reaches
  <2>5. Truth'
    BY <2>1 DEF Inv, Truth, Entries
  <2> QED
    BY <2>2, <2>3, <2>4, <2>5 DEF Inv
<1> QED
  BY <1>1, <1>2, <1>3, <1>4 DEF Next

(* The invariant holds in every reachable state. *)
THEOREM Invariance == Spec => []Inv
<1>1. Init => Inv
  BY InitInv
<1>2. Inv /\ [Next]_vars => Inv'
  BY InvStep
<1> QED
  BY <1>1, <1>2, PTL DEF Spec

(* The state keeps its types (TypeOK): no turn, delivery or message is malformed. *)
THEOREM TypeCorrect == Spec => []TypeOK
<1>1. Inv => TypeOK
  BY DEF Inv
<1> QED
  BY <1>1, Invariance, PTL

(* AtMostOnce: #serveOpLocked, #dispatchCall and the ledger of leader.ts together let a       *)
(* mutation run at most once, however often it is sent, to whichever leaders, and whatever    *)
(* they have forgotten.                                                                       *)
THEOREM RunsAtMostOnce == Spec => []AtMostOnce
<1>1. Inv => AtMostOnce
  BY DEF Inv, Once, AtMostOnce
<1> QED
  BY <1>1, Invariance, PTL

(* The first and the last part of AnswersTrue: a caller told "ok" has its mutation logged     *)
(* exactly once, and one told that a request which never left the tab could not be            *)
(* coordinated, or was overtaken by close(), has it logged never.                             *)
SuccessIsLogged == \A r \in Requests :
    /\ call[r].told = "ok" => executed[r] = 1
    /\ call[r].told \in {"coordination", "closed"} /\ ~call[r].sentRemotely => executed[r] = 0

(* An "ok" that #dispatchCall returns is never wrong, from whichever memory or log it came. *)
THEOREM SuccessStands == Spec => []SuccessIsLogged
<1>1. Inv => SuccessIsLogged
  <2> SUFFICES ASSUME Inv, NEW r \in Requests
               PROVE  /\ call[r].told = "ok" => executed[r] = 1
                      /\ call[r].told \in {"coordination", "closed"} /\ ~call[r].sentRemotely => executed[r] = 0
    BY DEF SuccessIsLogged
  <2>1. executed[r] \in Nat /\ executed[r] <= 1
    BY DEF Inv, TypeOK, Once
  <2>2. /\ call[r].told = "ok" => executed[r] = 1
        /\ executed[r] = 1 => call[r].sentRemotely \/ call[r].told = "ok"
    BY DEF Inv, Once, Truth
  <2> QED
    BY <2>1, <2>2
<1> QED
  BY <1>1, Invariance, PTL

(* One leader at a time: two tabs never lead together, and a tab that leads holds the handles. *)
OneLeader == \A t, u \in Tabs : leading[t] # 0 /\ leading[u] # 0 => t = u /\ holder = t

(* #elect, #demote and the shutdown that waits for its turn keep the leaderships apart. *)
THEOREM LeadersAlone == Spec => []OneLeader
<1>1. Inv => OneLeader
  BY DEF Inv, Leads, OneLeader
<1> QED
  BY <1>1, Invariance, PTL
================================================================================
