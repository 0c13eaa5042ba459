--------------------------- MODULE ServedRequests ---------------------------
(***************************************************************************)
(* Mutations sent between the tabs of an OPFS database (storage/opfs/      *)
(* store.ts) and the ledger of served requests their leaders keep in the   *)
(* log (storage/opfs/leader.ts).                                           *)
(*                                                                         *)
(* One tab at a time holds the file handles and leads.  A request keeps    *)
(* its identity and its time of sending through every re-send; the         *)
(* in-flight and remembered requests of a tab and the logged ledger decide *)
(* whether it runs, is answered from memory, or is called uncertain.  What *)
(* a mutation does, its fingerprint, the reads, the lease lane and the     *)
(* messages that only stretch a timeout (busy, hold, wait) are left out: a *)
(* timeout may come at any time.  Tabs die at any time.                    *)
(*                                                                         *)
(* A tab hears the messages posted to it in the order they were posted,    *)
(* and it hears an operation and begins to look at it before it ends an    *)
(* election that began later.                                              *)
(***************************************************************************)
EXTENDS Naturals, Sequences, FiniteSets, FiniteSetsExt

CONSTANTS
    Tabs,            \* connections; a tab that closes or dies does not come back
    Requests,        \* mutations
    From,            \* [Requests -> Tabs]: who issues each
    Crowded,         \* tabs that other requests may fill to a limit (RPC_SERVER_ADMISSION_LIMIT,
                     \* RPC_IN_FLIGHT_LIMIT and their byte limits)
    Mortal,          \* bound: tabs that may die
    Closing,         \* bound: tabs that may be closed
    MaxTerms,        \* bound: elections
    MaxTimeouts,     \* bound: timeouts of one request
    MaxNow,          \* bound: ticks of the clock
    Nobody

ASSUME ServedRequestsAssumption ==
    /\ From \in [Requests -> Tabs] /\ {Crowded, Mortal, Closing} \subseteq SUBSET Tabs
    /\ {MaxTerms, MaxTimeouts, MaxNow} \subseteq Nat
    /\ Nobody \notin Tabs /\ IsFiniteSet(Requests)

VARIABLES
    now,
    mode,         \* tab -> "up" | "closed" | "dead"
    holder,       \* the tab that holds the file handles
    terms,        \* the leader objects so far; the last one's ledger is what the log holds
    leading,      \* tab -> the term it leads (#leader), or 0
    leaving,      \* closed tabs that gave up the handles and have not said so yet
    known,        \* tab -> #knownLeader
    graceful,     \* tab -> #gracefulLeaders
    inbox,        \* tab -> messages on their way to it
    serving,      \* tab -> deliveries admitted and not yet answered, in order of arrival
    remembered,   \* tab -> #settledMutations
    queue,        \* tab -> the mutation turns, the running one first (#mutationTail)
    call,         \* request -> the dispatch loop that issued it
    executed      \* ghost: request -> how often its frame was logged

tabVars == <<mode, holder, terms, leading, leaving>>
serverVars == <<serving, remembered, queue>>
vars == <<now, tabVars, known, graceful, inbox, serverVars, call, executed>>

Outcomes == {"ok", "refused", "uncertain"}
Answers == Outcomes \cup {"coordination", "closed"}

Message ==
    [kind: Answers \cup {"op", "declined", "leader", "released"}, request: Requests \cup {Nobody},
     tab: Tabs \cup {Nobody}]
Call == [pc: {"new", "loop", "pending", "local", "told"}, sentAt: 0 .. MaxNow, sentTo: Tabs \cup {Nobody},
         mayHaveRun: BOOLEAN, sentRemotely: BOOLEAN, timeouts: 0 .. MaxTimeouts, told: Answers \cup {"none"}]
Entry == [key: Requests, sentAt: 0 .. MaxNow, state: {"unsettled", "settled", "withheld"}]
Delivery == [request: Requests, phase: {"lock", "check", "attached", "run"}, term: 0 .. MaxTerms]
Turn == [kind: {"serve", "local", "shutdown"}, request: Requests \cup {Nobody}, term: 1 .. MaxTerms,
         applied: BOOLEAN]

Init ==
    /\ now = 0
    /\ mode = [t \in Tabs |-> "up"] /\ holder = Nobody
    /\ terms = <<>> /\ leading = [t \in Tabs |-> 0] /\ leaving = {}
    /\ known = [t \in Tabs |-> Nobody] /\ graceful = [t \in Tabs |-> {}]
    /\ inbox = [t \in Tabs |-> <<>>]
    /\ serving = [t \in Tabs |-> <<>>] /\ queue = [t \in Tabs |-> <<>>]
    /\ remembered = [t \in Tabs |-> [r \in Requests |-> "none"]]
    /\ call = [r \in Requests |-> [pc |-> "new", sentAt |-> 0, sentTo |-> Nobody, mayHaveRun |-> FALSE,
                                   sentRemotely |-> FALSE, timeouts |-> 0, told |-> "none"]]
    /\ executed = [r \in Requests |-> 0]

-----------------------------------------------------------------------------
(***************************************************************************)
(* Messages.                                                               *)
(***************************************************************************)
Op(r)           == [kind |-> "op", request |-> r, tab |-> Nobody]
Reply(kind, r)  == [kind |-> kind, request |-> r, tab |-> Nobody]
Notice(kind, t) == [kind |-> kind, request |-> Nobody, tab |-> t]

\* A sequence without what it has at some positions.
Without(s, gone) ==
    LET kept[n \in 0 .. Len(s)] ==
            IF n = 0 THEN <<>> ELSE IF n \in gone THEN kept[n - 1] ELSE Append(kept[n - 1], s[n])
    IN  kept[Len(s)]

\* A tab that is gone hears nothing; one that closed declines operations a moment longer.
Listens(t, kind) == mode[t] = "up" \/ (mode[t] = "closed" /\ kind = "op")
PostedAll(boxes, to, kind, ms) == IF Listens(to, kind) THEN [boxes EXCEPT ![to] = @ \o ms] ELSE boxes
Posted(boxes, to, m) == PostedAll(boxes, to, m.kind, <<m>>)

\* Only a tab that issues requests acts on the comings and goings of leaders.
Broadcast(boxes, from, m) ==
    [t \in Tabs |-> IF t # from /\ Listens(t, m.kind) /\ \E r \in Requests : From[r] = t
                    THEN Append(boxes[t], m) ELSE boxes[t]]

Heard(t) == [inbox EXCEPT ![t] = Tail(@)]
Hears(t, kind) == mode[t] # "dead" /\ inbox[t] # <<>> /\ Head(inbox[t]).kind = kind

Pending(r) == call[r].pc = "pending"
Told(c, answer) == [c EXCEPT !.pc = "told", !.told = answer]

-----------------------------------------------------------------------------
(***************************************************************************)
(* Leadership.                                                             *)
(***************************************************************************)
Crashed(log, lost) ==
    [log EXCEPT !.open = FALSE,
                !.ledger = [i \in DOMAIN @ |-> IF @[i].key \in lost THEN [@[i] EXCEPT !.state = "unsettled"]
                                               ELSE @[i]]]

\* #elect: take the handles, recover the log with its ledger, announce.
Elect(t) ==
    /\ mode[t] = "up" /\ holder = Nobody /\ leading[t] = 0 /\ Len(terms) < MaxTerms
    /\ \A i \in 1 .. Len(inbox[t]) : inbox[t][i].kind # "op"
    /\ \A i \in 1 .. Len(serving[t]) : serving[t][i].phase # "lock"
    /\ \A i \in 1 .. Len(queue[t]) : queue[t][i].kind # "shutdown"
    /\ holder' = t
    /\ terms' = Append(terms, IF terms = <<>> THEN [open |-> TRUE, ledger |-> <<>>, coverage |-> 0]
                              ELSE [terms[Len(terms)] EXCEPT !.open = TRUE])
    /\ leading' = [leading EXCEPT ![t] = Len(terms) + 1]
    /\ known' = [known EXCEPT ![t] = t]
    /\ inbox' = Broadcast(inbox, t, Notice("leader", t))
    /\ UNCHANGED <<now, mode, leaving, graceful, serverVars, call, executed>>

\* A leader answers the ping of a tab that knows of none.
Announce(t) ==
    \E to \in Tabs \ {t} :
        /\ mode[t] = "up" /\ leading[t] # 0 /\ mode[to] = "up" /\ known[to] = Nobody /\ inbox[to] = <<>>
        /\ \E r \in Requests : From[r] = to /\ call[r].pc = "loop"
        /\ inbox' = Posted(inbox, to, Notice("leader", t))
        /\ UNCHANGED <<now, tabVars, known, graceful, serverVars, call, executed>>

\* #yieldLeadership and #demote: no leader from here on; the shutdown waits for its turn.
StepDown(t) ==
    /\ leading' = [leading EXCEPT ![t] = 0]
    /\ queue' = [queue EXCEPT ![t] = Append(@, [kind |-> "shutdown", request |-> Nobody,
                                                term |-> leading[t], applied |-> FALSE])]

Yield(t) ==
    /\ mode[t] = "up" /\ leading[t] # 0 /\ StepDown(t)
    /\ known' = [known EXCEPT ![t] = Nobody]
    /\ UNCHANGED <<now, mode, holder, terms, leaving, graceful, inbox, serving, remembered, call, executed>>

\* The term ends and its handles are free.
EndTerm(term) ==
    /\ holder' = Nobody
    /\ terms' = [terms EXCEPT ![term].open = FALSE]

\* A leader that yielded says so in the same breath; one that closes first answers what it
\* admitted, or lingers only so long (#servedDrained).
Shutdown(t) ==
    /\ mode[t] # "dead" /\ queue[t] # <<>> /\ Head(queue[t]).kind = "shutdown"
    /\ EndTerm(Head(queue[t]).term)
    /\ IF mode[t] = "up"
       THEN inbox' = Broadcast(inbox, t, Notice("released", t)) /\ UNCHANGED leaving
       ELSE leaving' = leaving \cup {t} /\ UNCHANGED inbox
    /\ queue' = [queue EXCEPT ![t] = Tail(@)]
    /\ UNCHANGED <<now, mode, leading, known, graceful, serving, remembered, call, executed>>

Goodbye(t) ==
    /\ t \in leaving /\ leaving' = leaving \ {t}
    /\ inbox' = Broadcast(inbox, t, Notice("released", t))
    /\ UNCHANGED <<now, mode, holder, terms, leading, known, graceful, serverVars, call, executed>>

\* #reloadFromDisk fails in a turn that has not run yet: the leader crash-closes itself
\* (#onLeaderRecoveryFailed), and its turns are declined one by one.
RecoveryFails(t) ==
    /\ mode[t] = "up" /\ leading[t] # 0 /\ queue[t] # <<>> /\ ~Head(queue[t]).applied
    /\ EndTerm(leading[t])
    /\ inbox' = Broadcast(inbox, t, Notice("released", t))
    /\ leading' = [leading EXCEPT ![t] = 0]
    /\ known' = [known EXCEPT ![t] = Nobody]
    /\ UNCHANGED <<now, mode, leaving, graceful, serverVars, call, executed>>

\* close(): posted requests are uncertain, others closed; a leader steps down and forgets.
Close(t) ==
    /\ t \in Closing /\ mode[t] = "up" /\ mode' = [mode EXCEPT ![t] = "closed"]
    /\ IF leading[t] = 0 THEN UNCHANGED <<leading, queue>> ELSE StepDown(t)
    /\ call' = [r \in Requests |->
                   IF From[r] # t \/ ~Pending(r) THEN call[r]
                   ELSE Told(call[r], IF call[r].sentTo = Nobody THEN "closed" ELSE "uncertain")]
    /\ remembered' = [remembered EXCEPT ![t] = [r \in Requests |-> "none"]]
    /\ inbox' = [inbox EXCEPT ![t] = Without(@, {i \in 1 .. Len(@) : @[i].kind # "op"})]
    /\ UNCHANGED <<now, holder, terms, leaving, known, graceful, serving, executed>>

\* The tab is gone and its handles are free.  The frames of served values were not flushed,
\* and any of them may be lost; nobody awaits its calls.
Die(t) ==
    /\ t \in Mortal /\ mode[t] # "dead" /\ mode' = [mode EXCEPT ![t] = "dead"]
    /\ holder' = IF holder = t THEN Nobody ELSE holder
    /\ leading' = [leading EXCEPT ![t] = 0] /\ leaving' = leaving \ {t}
    /\ inbox' = [inbox EXCEPT ![t] = <<>>]
    /\ serving' = [serving EXCEPT ![t] = <<>>] /\ queue' = [queue EXCEPT ![t] = <<>>]
    /\ remembered' = [remembered EXCEPT ![t] = [r \in Requests |-> "none"]]
    /\ known' = [known EXCEPT ![t] = Nobody] /\ graceful' = [graceful EXCEPT ![t] = {}]
    /\ call' = [r \in Requests |-> IF From[r] = t THEN [call[r] EXCEPT !.pc = "told"] ELSE call[r]]
    /\ IF holder # t THEN UNCHANGED terms
       ELSE \E lost \in SUBSET Requests :
               terms' = [terms EXCEPT ![Len(terms)] = Crashed(@, lost)]
    /\ UNCHANGED <<now, executed>>

-----------------------------------------------------------------------------
(***************************************************************************)
(* The ledger.                                                             *)
(***************************************************************************)
Ledger(term) == terms[term].ledger
Logged(term, r) == \E i \in 1 .. Len(Ledger(term)) : Ledger(term)[i].key = r
Settled(term, r) ==
    \E i \in 1 .. Len(Ledger(term)) : Ledger(term)[i].key = r /\ Ledger(term)[i].state = "settled"

\* Mutant: coverage stays where it was.
TrimmedUncovered(log, evicted) == [log EXCEPT !.ledger = SubSeq(@, evicted + 1, Len(@))]

\* #trimServedLedger: count, age or bytes evict the oldest entries, and coverage moves past
\* them.
Trimmed(log, evicted) ==
    [log EXCEPT !.ledger = SubSeq(@, evicted + 1, Len(@)),
                !.coverage = Max({@} \cup {log.ledger[i].sentAt + 1 : i \in 1 .. evicted})]

\* #recordServed: the request becomes the youngest entry.
Recorded(log, r) ==
    [log EXCEPT !.ledger = Append(Without(@, {i \in 1 .. Len(@) : @[i].key = r}),
                                  [key |-> r, sentAt |-> call[r].sentAt, state |-> "unsettled"])]

\* completeServed: the value is logged, withheld for its size, or could not be logged.
SettleServed(term, r, state) ==
    [terms EXCEPT ![term].ledger =
        [i \in DOMAIN @ |-> IF @[i].key = r THEN [@[i] EXCEPT !.state = state] ELSE @[i]]]

-----------------------------------------------------------------------------
(***************************************************************************)
(* Serving.                                                                *)
(***************************************************************************)
\* #inFlightMutations, which close() empties.
InFlight(t) == IF mode[t] # "up" THEN {} ELSE
               {r \in Requests : \E i \in 1 .. Len(serving[t]) :
                                   serving[t][i].request = r /\ serving[t][i].phase = "run"}

\* The op case of #onMessage and the head of #serveOp.
ReceiveOp(t) ==
    /\ Hears(t, "op")
    /\ LET r == Head(inbox[t]).request IN
       \/ /\ leading[t] = 0
          /\ inbox' = Posted(Heard(t), From[r], Reply("declined", r)) /\ UNCHANGED serving
       \/ /\ leading[t] # 0 /\ t \in Crowded
          /\ inbox' = Posted(Heard(t), From[r], Reply("coordination", r)) /\ UNCHANGED serving
       \/ /\ leading[t] # 0
          /\ serving' = [serving EXCEPT ![t] = Append(@,
                IF r \in InFlight(t) \/ remembered[t][r] # "none"
                THEN [request |-> r, phase |-> "check", term |-> leading[t]]
                ELSE [request |-> r, phase |-> "lock", term |-> 0])]
          /\ inbox' = Heard(t)
    /\ UNCHANGED <<now, tabVars, known, graceful, remembered, queue, call, executed>>

\* The delivery's place in the lock chain comes; a tab that no longer leads drops it.
TakeLock(t) ==
    \E i \in 1 .. Len(serving[t]) :
        /\ serving[t][i].phase = "lock"
        /\ \A j \in 1 .. i - 1 : serving[t][j].request # serving[t][i].request
        /\ serving' = [serving EXCEPT ![t] =
              IF leading[t] = 0 THEN Without(@, {i})
              ELSE [@ EXCEPT ![i].phase = "check", ![i].term = leading[t]]]
        /\ UNCHANGED <<now, tabVars, known, graceful, inbox, remembered, queue, call, executed>>

\* The answer to one delivery, which is done.
AnswerOne(t, i, kind) ==
    LET r == serving[t][i].request IN
    /\ inbox' = Posted(inbox, From[r], Reply(kind, r))
    /\ serving' = [serving EXCEPT ![t] = Without(@, {i})]

\* #serveOpLocked once the fingerprint is there.
Check(t) ==
    \E i \in 1 .. Len(serving[t]) :
        LET r == serving[t][i].request
            term == serving[t][i].term IN
        /\ serving[t][i].phase = "check"
        /\ \/ /\ remembered[t][r] # "none" /\ AnswerOne(t, i, remembered[t][r])
              /\ UNCHANGED <<remembered, queue>>
           \/ /\ remembered[t][r] = "none" /\ r \in InFlight(t)
              /\ serving' = [serving EXCEPT ![t][i].phase = "attached"]
              /\ UNCHANGED <<inbox, remembered, queue>>
           \/ /\ remembered[t][r] = "none" /\ r \notin InFlight(t) /\ Logged(term, r)
              /\ AnswerOne(t, i, IF Settled(term, r) THEN "ok" ELSE "uncertain")
              /\ remembered' = IF Settled(term, r) THEN [remembered EXCEPT ![t][r] = "ok"] ELSE remembered
              /\ UNCHANGED queue
           \/ /\ remembered[t][r] = "none" /\ r \notin InFlight(t) /\ ~Logged(term, r)
              /\ IF call[r].sentAt < terms[term].coverage THEN AnswerOne(t, i, "uncertain") /\ UNCHANGED queue
                 ELSE \/ t \in Crowded /\ AnswerOne(t, i, "coordination") /\ UNCHANGED queue
                      \/ leading[t] # term /\ AnswerOne(t, i, "declined") /\ UNCHANGED queue
                      \/ /\ leading[t] = term
                         /\ serving' = [serving EXCEPT ![t][i].phase = "run"]
                         /\ queue' = [queue EXCEPT ![t] = Append(@, [kind |-> "serve", request |-> r,
                                                                     term |-> term, applied |-> FALSE])]
                         /\ UNCHANGED inbox
              /\ UNCHANGED remembered
        /\ UNCHANGED <<now, tabVars, known, graceful, call, executed>>

\* What the bounded cache of outcomes may lose: anything the ledger answers for, and a refusal
\* once nobody asks for it any more (DEDUPE_CACHE_SIZE outlasts a call).
Forgettable(t, q) ==
    \/ remembered[t][q] # "refused"
    \/ /\ call[q].pc = "told"
       /\ \A i \in 1 .. Len(inbox[t]) : inbox[t][i] # Op(q)
       /\ \A i \in 1 .. Len(serving[t]) : serving[t][i].request # q

\* The deliveries that the one execution of a request answers.
AnsweredWith(t, r) ==
    {i \in 1 .. Len(serving[t]) : serving[t][i].request = r /\ serving[t][i].phase \in {"run", "attached"}}

\* The turn ends with an outcome: its delivery and the attached ones are answered.  The tab
\* remembers it unless its value is too large, and may forget others for its sake.
Finish(t, outcome) ==
    LET r == Head(queue[t]).request IN
    /\ queue' = [queue EXCEPT ![t] = Tail(@)]
    /\ serving' = [serving EXCEPT ![t] = Without(@, AnsweredWith(t, r))]
    /\ inbox' = PostedAll(inbox, From[r], outcome,
                          [i \in 1 .. Cardinality(AnsweredWith(t, r)) |-> Reply(outcome, r)])
    /\ IF mode[t] # "up" THEN UNCHANGED remembered
       ELSE \E forgotten \in SUBSET {q \in Requests : IF q = r THEN outcome = "ok" ELSE Forgettable(t, q)} :
               remembered' = [remembered EXCEPT ![t] = [q \in Requests |->
                   IF q \in forgotten THEN "none" ELSE IF q = r THEN outcome ELSE @[q]]]

Serves(t, applied) ==
    /\ mode[t] # "dead" /\ queue[t] # <<>>
    /\ Head(queue[t]).kind = "serve" /\ Head(queue[t]).applied = applied

Valid(t) == leading[t] = Head(queue[t]).term /\ terms[leading[t]].open

\* Leadership moved while the request waited for its turn: nothing ran.  Nothing is
\* remembered, and attached deliveries are not answered.
DeclineTurn(t) ==
    /\ Serves(t, FALSE) /\ ~Valid(t)
    /\ LET r == Head(queue[t]).request IN
       /\ queue' = [queue EXCEPT ![t] = Tail(@)]
       /\ serving' = [serving EXCEPT ![t] = Without(@, AnsweredWith(t, r))]
       /\ inbox' = Posted(inbox, From[r], Reply("declined", r))
    /\ UNCHANGED <<now, tabVars, known, graceful, remembered, call, executed>>

\* The mutation logs its frame, which carries the identity of the request.
Apply(t) ==
    /\ Serves(t, FALSE) /\ Valid(t)
    /\ LET r == Head(queue[t]).request
           term == Head(queue[t]).term IN
       /\ terms' = [terms EXCEPT ![term] = Recorded(@, r)]
       /\ executed' = [executed EXCEPT ![r] = @ + 1]
    /\ queue' = [queue EXCEPT ![t][1].applied = TRUE]
    /\ UNCHANGED <<now, mode, holder, leading, leaving, known, graceful, inbox, serving, remembered, call>>

\* It returns and its value is logged for the ledger; or its acknowledgement failed.
Complete(t) ==
    /\ Serves(t, TRUE)
    /\ LET r == Head(queue[t]).request
           term == Head(queue[t]).term IN
       \/ /\ \E state \in {"settled", "withheld", "unsettled"} : terms' = SettleServed(term, r, state)
          /\ Finish(t, "ok")
       \/ Finish(t, "uncertain") /\ UNCHANGED terms
    /\ UNCHANGED <<now, mode, holder, leading, leaving, known, graceful, call, executed>>

\* The mutation is refused and logs nothing.
Refuse(t) ==
    /\ Serves(t, FALSE) /\ Valid(t)
    /\ Finish(t, "refused")
    /\ UNCHANGED <<now, tabVars, known, graceful, call, executed>>

\* Requests this module does not follow are served too: they evict older entries of the
\* ledger and take the place of remembered outcomes.
ServeOthers(t) ==
    LET term == leading[t] IN
    /\ mode[t] = "up" /\ term # 0 /\ terms[term].open
    /\ IF queue[t] = <<>> THEN TRUE ELSE ~Head(queue[t]).applied
    /\ \E evicted \in 0 .. Len(Ledger(term)) :
          terms' = [terms EXCEPT ![term] = Trimmed(@, evicted)]
    /\ \E forgotten \in SUBSET {q \in Requests : Forgettable(t, q)} :
          remembered' = [remembered EXCEPT ![t] = [q \in Requests |-> IF q \in forgotten THEN "none" ELSE @[q]]]
    /\ UNCHANGED <<now, mode, holder, leading, leaving, known, graceful, inbox, serving, queue, call, executed>>

-----------------------------------------------------------------------------
(***************************************************************************)
(* Requesting.                                                             *)
(***************************************************************************)
InLoop(r) == call[r].pc = "loop" /\ mode[From[r]] # "dead"
Become(r, c) == call' = [call EXCEPT ![r] = c]

Start(r) ==
    /\ call[r].pc = "new" /\ mode[From[r]] = "up"
    /\ Become(r, [call[r] EXCEPT !.pc = "loop", !.sentAt = now])
    /\ UNCHANGED <<now, tabVars, known, graceful, inbox, serverVars, executed>>

\* The loop finds the connection closed (#assertOpen).
FindClosed(r) ==
    /\ InLoop(r) /\ mode[From[r]] = "closed"
    /\ Become(r, Told(call[r], "closed"))
    /\ UNCHANGED <<now, tabVars, known, graceful, inbox, serverVars, executed>>

\* Mutant: the new leader runs its own request without asking the log it recovered.
DispatchLocallyUnasked(r) ==
    LET t == From[r] IN
    /\ InLoop(r) /\ mode[t] = "up" /\ leading[t] # 0
    /\ Become(r, [call[r] EXCEPT !.pc = "local"])
    /\ queue' = [queue EXCEPT ![t] = Append(@, [kind |-> "local", request |-> r,
                                                term |-> leading[t], applied |-> FALSE])]
    /\ UNCHANGED <<now, tabVars, known, graceful, inbox, serving, remembered, executed>>

\* This connection leads: its recovered log answers for what was sent elsewhere, and
\* anything else takes a turn here, without an identity.
DispatchLocally(r) ==
    LET t == From[r]
        term == leading[t] IN
    /\ InLoop(r) /\ mode[t] = "up" /\ term # 0
    /\ \/ /\ call[r].sentRemotely /\ Logged(term, r)
          /\ Become(r, Told(call[r], IF Settled(term, r) THEN "ok" ELSE "uncertain")) /\ UNCHANGED queue
       \/ /\ call[r].sentRemotely /\ ~Logged(term, r) /\ call[r].sentAt < terms[term].coverage
          /\ Become(r, Told(call[r], "uncertain")) /\ UNCHANGED queue
       \/ /\ call[r].sentRemotely => ~Logged(term, r) /\ call[r].sentAt >= terms[term].coverage
          /\ Become(r, [call[r] EXCEPT !.pc = "local"])
          /\ queue' = [queue EXCEPT ![t] = Append(@, [kind |-> "local", request |-> r,
                                                      term |-> term, applied |-> FALSE])]
    /\ UNCHANGED <<now, tabVars, known, graceful, inbox, serving, remembered, executed>>

RunLocally(t) ==
    /\ mode[t] # "dead" /\ queue[t] # <<>> /\ Head(queue[t]).kind = "local"
    /\ LET r == Head(queue[t]).request IN
       \/ /\ ~Valid(t) /\ Become(r, [call[r] EXCEPT !.pc = "loop"]) /\ UNCHANGED executed
       \/ /\ Valid(t) /\ Become(r, Told(call[r], "refused")) /\ UNCHANGED executed
       \/ /\ Valid(t) /\ Become(r, Told(call[r], "ok")) /\ executed' = [executed EXCEPT ![r] = @ + 1]
    /\ queue' = [queue EXCEPT ![t] = Tail(@)]
    /\ UNCHANGED <<now, tabVars, known, graceful, inbox, serving, remembered>>

\* #rpc: the request is refused for too many pending ones, or posted to the leader; one that
\* slipped away while the request was encoded leaves it pending and unsent.
Rpc(r) ==
    LET t == From[r] IN
    /\ InLoop(r) /\ mode[t] = "up" /\ leading[t] = 0
    /\ \/ t \in Crowded /\ Become(r, Told([call[r] EXCEPT !.sentRemotely = TRUE], "coordination")) /\ UNCHANGED inbox
       \/ /\ Become(r, [call[r] EXCEPT !.pc = "pending", !.sentTo = known[t], !.sentRemotely = TRUE])
          /\ inbox' = IF known[t] = Nobody THEN inbox ELSE Posted(inbox, known[t], Op(r))
    /\ UNCHANGED <<now, tabVars, known, graceful, serverVars, executed>>

\* #onPendingTimeout, its patience spent.
Timeout(r) ==
    /\ Pending(r) /\ call[r].timeouts < MaxTimeouts
    /\ Become(r, [call[r] EXCEPT !.pc = "loop", !.mayHaveRun = TRUE, !.timeouts = @ + 1])
    /\ known' = [known EXCEPT ![From[r]] = Nobody]
    /\ UNCHANGED <<now, tabVars, graceful, inbox, serverVars, executed>>

\* The budget of the dispatch is spent.
GiveUp(r) ==
    /\ InLoop(r) /\ mode[From[r]] = "up" /\ leading[From[r]] = 0
    /\ Become(r, Told(call[r], IF call[r].mayHaveRun THEN "uncertain" ELSE "coordination"))
    /\ UNCHANGED <<now, tabVars, known, graceful, inbox, serverVars, executed>>

\* A result, an uncertain answer or a refusal for a request that is still pending.
ReceiveAnswer(t) ==
    \E answer \in Outcomes \cup {"coordination"} :
        /\ Hears(t, answer)
        /\ LET r == Head(inbox[t]).request IN
           call' = IF Pending(r) THEN [call EXCEPT ![r] = Told(@, answer)] ELSE call
        /\ inbox' = Heard(t)
        /\ UNCHANGED <<now, tabVars, known, graceful, serverVars, executed>>

\* A decline: not run there, so dispatch it again.
ReceiveDecline(t) ==
    /\ Hears(t, "declined")
    /\ LET r == Head(inbox[t]).request IN
       IF Pending(r)
       THEN /\ Become(r, [call[r] EXCEPT !.pc = "loop"])
            /\ known' = [known EXCEPT ![t] = Nobody]
       ELSE UNCHANGED <<call, known>>
    /\ inbox' = Heard(t)
    /\ UNCHANGED <<now, tabVars, graceful, serverVars, executed>>

\* The requests of t that a leader's announcement sends to it.
Resent(t, leader) ==
    {r \in Requests : /\ From[r] = t /\ Pending(r) /\ call[r].sentTo # leader
                      /\ call[r].sentTo \notin graceful[t] \ {leader}}

\* The orders in which a set may be gone through.
Orders(S) == {f \in [1 .. Cardinality(S) -> S] : \A x \in S : \E i \in DOMAIN f : f[i] = x}

\* A new leader is announced: pending requests go to it, except those that a leader which
\* said goodbye still answers.
ReceiveLeader(t) ==
    /\ Hears(t, "leader")
    /\ LET leader == Head(inbox[t]).tab IN
       /\ known' = [known EXCEPT ![t] = leader]
       /\ graceful' = [graceful EXCEPT ![t] = @ \ {leader}]
       /\ call' = [r \in Requests |-> IF r \in Resent(t, leader) THEN [call[r] EXCEPT !.sentTo = leader]
                                      ELSE call[r]]
       /\ \E order \in Orders(Resent(t, leader)) :
              inbox' = PostedAll(Heard(t), leader, "op", [i \in DOMAIN order |-> Op(order[i])])
    /\ UNCHANGED <<now, tabVars, serverVars, executed>>

ReceiveReleased(t) ==
    /\ Hears(t, "released")
    /\ LET leader == Head(inbox[t]).tab IN
       /\ known' = [known EXCEPT ![t] = IF @ = leader THEN Nobody ELSE @]
       /\ graceful' = [graceful EXCEPT ![t] = @ \cup {leader}]
    /\ inbox' = Heard(t)
    /\ UNCHANGED <<now, tabVars, serverVars, call, executed>>

-----------------------------------------------------------------------------
Tick == now < MaxNow /\ now' = now + 1
        /\ UNCHANGED <<tabVars, known, graceful, inbox, serverVars, call, executed>>

TabNext ==
    \E t \in Tabs :
        \/ Elect(t) \/ Announce(t) \/ Yield(t) \/ Shutdown(t) \/ Goodbye(t) \/ RecoveryFails(t) \/ Close(t) \/ Die(t)
        \/ ReceiveOp(t) \/ TakeLock(t) \/ Check(t) \/ DeclineTurn(t) \/ Apply(t) \/ Complete(t) \/ Refuse(t) \/ ServeOthers(t)
        \/ RunLocally(t)
        \/ ReceiveAnswer(t) \/ ReceiveDecline(t) \/ ReceiveLeader(t) \/ ReceiveReleased(t)

CallNext ==
    \E r \in Requests :
        \/ Start(r) \/ FindClosed(r) \/ DispatchLocally(r) \/ Rpc(r) \/ Timeout(r) \/ GiveUp(r)

Next == TabNext \/ CallNext \/ Tick

Spec == Init /\ [][Next]_vars

-----------------------------------------------------------------------------
(***************************************************************************)
(* Properties.                                                             *)
(***************************************************************************)
TypeOK ==
    /\ now \in 0 .. MaxNow /\ mode \in [Tabs -> {"up", "closed", "dead"}]
    /\ holder \in Tabs \cup {Nobody} /\ leading \in [Tabs -> 0 .. MaxTerms] /\ leaving \subseteq Tabs
    /\ terms \in Seq([open : BOOLEAN, ledger : Seq(Entry), coverage : 0 .. MaxNow + 1])
    /\ Len(terms) <= MaxTerms
    /\ known \in [Tabs -> Tabs \cup {Nobody}] /\ graceful \in [Tabs -> SUBSET (Tabs \cup {Nobody})]
    /\ inbox \in [Tabs -> Seq(Message)]
    /\ serving \in [Tabs -> Seq(Delivery)] /\ queue \in [Tabs -> Seq(Turn)]
    /\ remembered \in [Tabs -> [Requests -> Outcomes \cup {"none"}]]
    /\ call \in [Requests -> Call] /\ executed \in [Requests -> Nat]

\* However often a request is sent, to whichever leaders, and whatever they have forgotten, its
\* mutation is logged at most once.
AtMostOnce == \A r \in Requests : executed[r] <= 1

\* What a requester is told is true of the log, then and afterwards: "ok" of a mutation that is
\* there, "refused" of one that never is.  An answer the dispatch loop made up itself counts
\* here only if the request never left the tab (a re-sent one may have run, see the README).
AnswersTrue == \A r \in Requests :
    /\ call[r].told = "ok" => executed[r] = 1
    /\ call[r].told = "refused" => executed[r] = 0
    /\ call[r].told \in {"coordination", "closed"} /\ ~call[r].sentRemotely => executed[r] = 0

=============================================================================
