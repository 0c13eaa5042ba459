----------------------------- MODULE ExtentSpace -----------------------------
(***************************************************************************)
(* The extent space of the next engine (next/storage/space.ts) over its    *)
(* allocator (free-space.ts), reservations (reservation.ts), reclaim       *)
(* ledger (reclaim.ts) and the store of four files (file-store.ts, with    *)
(* the two root slots of root-slot.ts).                                    *)
(*                                                                         *)
(* Space is counted in units of DATA_ALIGN bytes.  What a unit holds is    *)
(* abstracted to the writer whose bytes it carries; a root is the function *)
(* from the units it reaches to the bytes it expects there.  A writer      *)
(* builds one extent at a time.  Reads, the page cache, staging buffers,   *)
(* budgets and the log are left out.                                       *)
(*                                                                         *)
(* The process may be killed and the power may fail at any time.  A kill   *)
(* leaves what was written; a power failure keeps only what was flushed,   *)
(* and any part of the rest.                                               *)
(***************************************************************************)
EXTENDS Naturals, Sequences, FiniteSets, FiniteSetsExt, Functions

CONSTANTS
    Length,         \* bound: units of the data space
    Writers,        \* the writers, each used once; a writer stands for its bytes too
    Pins,           \* the pins, each of which may be taken again when it was released
    MaxUnits,       \* bound: writer -> the units of one reservation
    MaxPublishes,   \* bound: the highest sequence of a root
    MaxOpens,       \* bound: how often a space is opened
    Junk,           \* bytes no root expects
    NoPublish       \* no publish is in flight

ASSUME ExtentSpaceAssumption ==
    /\ {Length, MaxPublishes, MaxOpens} \subseteq Nat /\ MaxUnits \in [Writers -> Nat]
    /\ Junk \notin Writers

Units == 1 .. Length
Roots == UNION {[reached -> Writers] : reached \in SUBSET Units}
NoRoot == << >>
Torn == [sequence |-> 0, root |-> NoRoot]
Slots == [sequence : 0 .. MaxPublishes, root : Roots]
Unpinned == [generation |-> MaxPublishes + 1, root |-> NoRoot]
NewWriter == [state |-> "new", call |-> "none", reserved |-> << >>, written |-> 0,
              extent |-> {}, failed |-> FALSE]
Collector == "collector"
Orphan == "orphan"

ASSUME AbsenceAssumption ==
    /\ Collector \notin Writers /\ Orphan \notin Writers
    /\ NoPublish \notin [writers : SUBSET Writers, retired : SUBSET Units, root : Roots]

VARIABLES
    data,         \* unit -> the bytes it reads back
    unflushed,    \* the units written and not flushed since
    slots,        \* the two root slots as they read back
    slotsFlushed, \* the two root slots as of their last flush
    resolved,     \* ghost: the sequence of the newest root whose publish resolved
    opens,        \* openings so far
    status,       \* "closed" | "open" | "failed" | "publishing"
    root,         \* #root
    previousRoot, \* #previousRoot
    allocated,    \* the units the free-space map does not hold
    retired,      \* #retired
    generation,   \* the ledger's #generation
    waiting,      \* the ledger's #waiting
    pins,         \* the ledger's #pins, with the root each was taken for
    releasing,    \* calls of free in flight: who waits for each and what it frees
    writers,      \* writer -> its state, its builder and its sealed extent
    publishing    \* the publish whose root is durable and that is not yet recorded

disk == <<data, unflushed, slots, slotsFlushed, resolved, opens>>
ledger == <<generation, waiting, pins>>
vars == <<disk, status, root, previousRoot, allocated, retired, ledger, releasing,
          writers, publishing>>

Init ==
    /\ data = [u \in Units |-> Junk] /\ unflushed = {}
    /\ slots = [s \in 0 .. 1 |-> Torn] /\ slotsFlushed = slots
    /\ resolved = 0 /\ opens = 0
    /\ status = "closed"
    /\ root = NoRoot /\ previousRoot = NoRoot
    /\ allocated = {} /\ retired = {}
    /\ generation = 0 /\ waiting = << >> /\ pins = [p \in Pins |-> Unpinned]
    /\ releasing = {}
    /\ writers = [w \in Writers |-> NewWriter]
    /\ publishing = NoPublish

-----------------------------------------------------------------------------
(* Root slots and the map of free space. *)

\* chooseRoot: the slot the current root is read from.
CurrentSlot == IF slots[0].sequence > slots[1].sequence THEN 0 ELSE 1

Current == slots[CurrentSlot]
Previous == slots[1 - CurrentSlot]

\* Mutant: the newest root's slot is overwritten.
NextSlotCurrent == CurrentSlot

\* The slot the next publish overwrites: 0 when neither holds a root.
NextSlot == IF Current.sequence = 0 THEN 0 ELSE 1 - CurrentSlot

Run(first, size) == first .. first + size - 1

\* The runs of free space that `size` units fit in; allocate takes the lowest.
Fitting(size) == {u \in Units : Run(u, size) \subseteq Units \ allocated}
Lowest(size) == Min(Fitting(size))

\* What is free reads unspecified bytes, whether the store cut it off, deleted it or left it.
Specified(kept) ==
    /\ data' = [u \in Units |-> IF u \in kept THEN data[u] ELSE Junk]
    /\ unflushed' = unflushed \cap kept

-----------------------------------------------------------------------------
(* Opening. *)

\* openExtentSpace: the map is what both kept roots reach; what only the previous root
\* reaches is retired at generation 0.
Open ==
    /\ status = "closed" /\ opens < MaxOpens
    /\ opens' = opens + 1
    /\ status' = "open"
    /\ root' = Current.root /\ previousRoot' = Previous.root
    /\ allocated' = DOMAIN Current.root \cup DOMAIN Previous.root
    /\ retired' = DOMAIN Previous.root \ DOMAIN Current.root
    /\ waiting' = IF retired' = {} THEN << >> ELSE <<[generation |-> 0, units |-> retired']>>
    /\ Specified(allocated')
    /\ UNCHANGED <<slots, slotsFlushed, resolved, generation, pins, releasing,
                   writers, publishing>>

\* The memory of the process goes: every writer, pin and call in flight with it.
Forget ==
    /\ status' = "closed"
    /\ root' = NoRoot /\ previousRoot' = NoRoot
    /\ allocated' = {} /\ retired' = {}
    /\ generation' = 0 /\ waiting' = << >> /\ pins' = [p \in Pins |-> Unpinned]
    /\ releasing' = {}
    /\ writers' = [w \in Writers |->
                     IF writers[w].state = "new" THEN NewWriter
                     ELSE [NewWriter EXCEPT !.state = "gone"]]
    /\ publishing' = NoPublish

-----------------------------------------------------------------------------
(* Freeing. *)

Batch(owner, units) == IF units = {} THEN {} ELSE {[owner |-> owner, units |-> units]}

\* Mutant: what a publish retires is reusable once that publish is durable.
ReusableAtOnce(entries, held, current) ==
    LET Free(e) == /\ current >= e.generation
                   /\ \A p \in Pins : held[p].generation >= e.generation
    IN  Max({n \in 0 .. Len(entries) : \A i \in 1 .. n : Free(entries[i])})

\* Mutant: a pin of the generation before is not seen as older.
ReusablePinned(entries, held, current) ==
    LET Free(e) == /\ current >= e.generation + 1
                   /\ \A p \in Pins : held[p].generation + 1 >= e.generation
    IN  Max({n \in 0 .. Len(entries) : \A i \in 1 .. n : Free(entries[i])})

\* drain: how many entries are reusable, in order, when these pins are held.
Reusable(entries, held, current) ==
    LET Free(e) == /\ current >= e.generation + 1
                   /\ \A p \in Pins : held[p].generation >= e.generation
    IN  Max({n \in 0 .. Len(entries) : \A i \in 1 .. n : Free(entries[i])})

Drain(entries, held, current) ==
    LET n == Reusable(entries, held, current)
    IN  /\ waiting' = SubSeq(entries, n + 1, Len(entries))
        /\ releasing' = releasing
                          \cup Batch(Collector, UNION {entries[i].units : i \in 1 .. n})

\* free: releaseData resolved, so the units are free and a free tail is cut.
FreeDone(batch) ==
    /\ batch \in releasing
    /\ releasing' = releasing \ {batch}
    /\ allocated' = allocated \ batch.units
    /\ retired' = retired \ batch.units
    /\ Specified(allocated')
    /\ UNCHANGED <<slots, slotsFlushed, resolved, opens, status, root,
                   previousRoot, ledger, writers, publishing>>

\* free: releaseData rejected; the units stay allocated and the space fails.
FreeFails(batch) ==
    /\ batch \in releasing
    /\ releasing' = releasing \ {batch}
    /\ status' = "failed"
    /\ UNCHANGED <<disk, root, previousRoot, allocated, retired, ledger, writers, publishing>>

-----------------------------------------------------------------------------
(* Pins. *)

Pin(p) ==
    /\ status # "closed" /\ pins[p] = Unpinned
    /\ pins' = [pins EXCEPT ![p] = [generation |-> generation, root |-> root]]
    /\ UNCHANGED <<disk, status, root, previousRoot, allocated, retired, generation, waiting,
                   releasing, writers, publishing>>

\* Mutant: only a publish drains the ledger.
ReleaseQuietly(p) ==
    /\ pins[p] # Unpinned
    /\ pins' = [pins EXCEPT ![p] = Unpinned]
    /\ UNCHANGED <<disk, status, root, previousRoot, allocated, retired, generation, waiting,
                   releasing, writers, publishing>>

\* The last pin of its generation drains the ledger.
Release(p) ==
    /\ pins[p] # Unpinned
    /\ pins' = [pins EXCEPT ![p] = Unpinned]
    /\ IF \E q \in Pins \ {p} : pins[q].generation = pins[p].generation
         THEN UNCHANGED <<waiting, releasing>>
         ELSE Drain(waiting, pins', generation)
    /\ UNCHANGED <<disk, status, root, previousRoot, allocated, retired, generation, writers,
                   publishing>>

-----------------------------------------------------------------------------
(* Writers and builders. *)

spaceVars == <<root, previousRoot, retired, ledger, publishing>>
Building(w) == writers[w].reserved # << >>
Usable(w) == writers[w].state = "open" /\ status \in {"open", "publishing"}
CanBuild(w) == Usable(w) /\ Building(w) /\ ~writers[w].failed

\* A call of the writer that abort and publish wait for or refuse: an append, or a seal to
\* the end of the release of what it trimmed.
Busy(w) == writers[w].call # "none" \/ \E b \in releasing : b.owner = w

\* beginWrite and the writer's open: a builder of one unit.
OpenBuilder(w) ==
    /\ status \in {"open", "publishing"} /\ writers[w].state \in {"new", "open"}
    /\ ~Building(w) /\ writers[w].extent = {} /\ Fitting(1) # {}
    /\ allocated' = allocated \cup {Lowest(1)}
    /\ writers' = [writers EXCEPT ![w].state = "open", ![w].reserved = <<Lowest(1)>>]
    /\ UNCHANGED <<disk, status, spaceVars, releasing>>

\* extend: the unit after the last one when it is free, else a segment elsewhere.
Extend(w) ==
    LET reserved == writers[w].reserved
        after == reserved[Len(reserved)] + 1
        unit == IF after \in Fitting(1) THEN after ELSE Lowest(1)
    IN  /\ CanBuild(w) /\ writers[w].call \in {"none", "append"}
        /\ Len(reserved) < MaxUnits[w] /\ Fitting(1) # {}
        /\ allocated' = allocated \cup {unit}
        /\ writers' = [writers EXCEPT ![w].reserved = Append(reserved, unit)]
        /\ UNCHANGED <<disk, status, spaceVars, releasing>>

\* append: the call is in flight until its bytes are written.
BeginAppend(w) ==
    /\ CanBuild(w) /\ writers[w].call = "none"
    /\ writers[w].written < Len(writers[w].reserved)
    /\ writers' = [writers EXCEPT ![w].call = "append"]
    /\ UNCHANGED <<disk, status, spaceVars, allocated, releasing>>

\* The copies of a relocation hold the write lock; what else takes it is one step.
WriteLockFree == \A w \in Writers : writers[w].call # "moving"

NextUnit(w) == writers[w].reserved[writers[w].written + 1]

EndAppend(w) ==
    /\ writers[w].call = "append" /\ WriteLockFree
    /\ data' = [data EXCEPT ![NextUnit(w)] = w]
    /\ unflushed' = unflushed \cup {NextUnit(w)}
    /\ writers' = [writers EXCEPT ![w].call = "none", ![w].written = @ + 1]
    /\ UNCHANGED <<slots, slotsFlushed, resolved, opens, status, spaceVars,
                   allocated, releasing>>

\* A failed write ends its builder; one that failed for lost ownership ends the space.
FailAppend(w) ==
    /\ writers[w].call = "append" /\ WriteLockFree
    /\ data' = [data EXCEPT ![NextUnit(w)] = Junk]
    /\ unflushed' = unflushed \ {NextUnit(w)}
    /\ writers' = [writers EXCEPT ![w].call = "none", ![w].failed = TRUE]
    /\ status' \in {status, "failed"}
    /\ UNCHANGED <<slots, slotsFlushed, resolved, opens, spaceVars, allocated,
                   releasing>>

BeginSeal(w) ==
    /\ CanBuild(w) /\ writers[w].call = "none"
    /\ writers' = [writers EXCEPT ![w].call = "seal"]
    /\ UNCHANGED <<disk, status, spaceVars, allocated, releasing>>

\* The units of a reservation's first segment.
FirstSegment(reserved) ==
    Max({n \in 1 .. Len(reserved) : \A i \in 1 .. n : reserved[i] = reserved[1] + i - 1})

\* ExtentReservation.seal: what was written stays where it is when it fits the first segment.
\* Else it moves to a run of its own.
Relocates(w) == writers[w].written > FirstSegment(writers[w].reserved)
Kept(w) == {writers[w].reserved[i] : i \in 1 .. writers[w].written}
Target(w) == Run(Lowest(writers[w].written), writers[w].written)

\* Nothing written leaves no extent.
EndSeal(w) ==
    /\ writers[w].call = "seal" /\ ~Relocates(w) /\ WriteLockFree
    /\ writers' = [writers EXCEPT ![w].call = "none", ![w].reserved = << >>, ![w].written = 0,
                                  ![w].extent = Kept(w)]
    /\ releasing' = releasing \cup Batch(w, Range(writers[w].reserved) \ Kept(w))
    /\ UNCHANGED <<disk, status, spaceVars, allocated>>

\* The plan of a relocation: from here to the end of the copies the builder owns its target
\* too (#leftover).
BeginMove(w) ==
    /\ writers[w].call = "seal" /\ Relocates(w) /\ WriteLockFree
    /\ Fitting(writers[w].written) # {}
    /\ allocated' = allocated \cup Target(w)
    /\ writers' = [writers EXCEPT ![w].call = "moving", ![w].extent = Target(w)]
    /\ UNCHANGED <<disk, status, spaceVars, releasing>>

\* The bytes after the plan's moves: what each unit of the reservation read.
Moved(w) ==
    LET target == writers[w].extent
    IN  [u \in Units |-> IF u \in target THEN data[writers[w].reserved[u - Min(target) + 1]]
                         ELSE data[u]]

EndMove(w) ==
    /\ writers[w].call = "moving"
    /\ data' = Moved(w)
    /\ unflushed' = unflushed \cup writers[w].extent
    /\ writers' = [writers EXCEPT ![w].call = "none", ![w].reserved = << >>, ![w].written = 0]
    /\ releasing' = releasing \cup Batch(w, Range(writers[w].reserved))
    /\ UNCHANGED <<slots, slotsFlushed, resolved, opens, status, spaceVars, allocated>>

\* A seal that fails, in its last write or in a copy, leaves what its builder owns to the
\* writer's abort.
FailSeal(w) ==
    /\ \/ writers[w].call = "seal" /\ writers[w].written > 0 /\ WriteLockFree
       \/ writers[w].call = "moving"
    /\ writers' = [writers EXCEPT ![w].call = "none", ![w].failed = TRUE]
    /\ status' \in {status, "failed"}
    /\ UNCHANGED <<disk, spaceVars, allocated, releasing>>

Held(w) == Range(writers[w].reserved) \cup writers[w].extent

Discard(w) ==
    /\ Usable(w) /\ ~Building(w) /\ writers[w].extent # {}
    /\ writers' = [writers EXCEPT ![w].extent = {}]
    /\ releasing' = releasing \cup Batch(Orphan, writers[w].extent)
    /\ UNCHANGED <<disk, status, spaceVars, allocated>>

Abort(w) ==
    /\ status # "closed" /\ writers[w].state = "open"
    /\ writers' = [writers EXCEPT ![w].state = "aborted"]
    /\ UNCHANGED <<disk, status, spaceVars, allocated, releasing>>

\* Mutant: abort forgets the sealed extent.
EndAbortUnsealed(w) ==
    /\ writers[w].state = "aborted" /\ ~Busy(w) /\ WriteLockFree
    /\ writers' = [writers EXCEPT ![w] = [NewWriter EXCEPT !.state = "gone"]]
    /\ releasing' = releasing \cup Batch(Orphan, Range(writers[w].reserved))
    /\ UNCHANGED <<disk, status, spaceVars, allocated>>

\* abort goes on when no call of the writer is in flight.
EndAbort(w) ==
    /\ writers[w].state = "aborted" /\ ~Busy(w) /\ WriteLockFree
    /\ writers' = [writers EXCEPT ![w] = [NewWriter EXCEPT !.state = "gone"]]
    /\ releasing' = releasing \cup Batch(Orphan, Held(w))
    /\ UNCHANGED <<disk, status, spaceVars, allocated>>

-----------------------------------------------------------------------------
(* Publication. *)

\* checkWriters and checkRetired.  The caller retires whole extents its root no longer
\* reaches, so the next root is what is left of this one and what the writers sealed.
Publishable(ws, gone) ==
    /\ status = "open" /\ Current.sequence < MaxPublishes
    /\ \A w \in ws : writers[w].state = "open" /\ ~Building(w) /\ ~Busy(w)
    /\ gone \cap retired = {} /\ gone \subseteq allocated
    /\ \A w \in Writers : gone \cap Held(w) = {}

Extents(dropped) == {u \in DOMAIN root : root[u] \in dropped}

Published(ws) == UNION {writers[w].extent : w \in ws}

NextRoot(ws, gone) ==
    [u \in Published(ws) \cup (DOMAIN root \ gone) |->
        IF u \in Published(ws) THEN CHOOSE w \in ws : u \in writers[w].extent ELSE root[u]]

NextRootSlot(ws, gone) ==
    [sequence |-> Current.sequence + 1, root |-> NextRoot(ws, gone)]

Ended(ws, state) ==
    [w \in Writers |-> IF w \in ws THEN [writers[w] EXCEPT !.state = state] ELSE writers[w]]

\* publish up to the answer of the session: the data is flushed, then the slot that does
\* not hold the current root is written and flushed.
Publish(ws, gone) ==
    /\ Publishable(ws, gone)
    /\ unflushed' = {}
    /\ slots' = [slots EXCEPT ![NextSlot] = NextRootSlot(ws, gone)]
    /\ slotsFlushed' = [slotsFlushed EXCEPT ![NextSlot] = NextRootSlot(ws, gone)]
    /\ writers' = Ended(ws, "publishing")
    /\ publishing' = [writers |-> ws, retired |-> gone, root |-> NextRoot(ws, gone)]
    /\ status' = "publishing"
    /\ UNCHANGED <<data, resolved, opens, root, previousRoot, allocated, retired, ledger,
                   releasing>>

\* The session answered: the next generation is current.
PublishDone ==
    /\ publishing # NoPublish
    /\ resolved' = Current.sequence
    /\ writers' = [w \in Writers |->
                     IF w \in publishing.writers THEN [NewWriter EXCEPT !.state = "gone"]
                     ELSE writers[w]]
    /\ retired' = retired \cup publishing.retired
    /\ previousRoot' = root
    /\ root' = publishing.root
    /\ generation' = generation + 1
    /\ Drain(IF publishing.retired = {} THEN waiting
             ELSE Append(waiting, [generation |-> generation', units |-> publishing.retired]),
             pins, generation')
    /\ publishing' = NoPublish
    /\ status' = IF status = "publishing" THEN "open" ELSE status
    /\ UNCHANGED <<data, unflushed, slots, slotsFlushed, opens, allocated, pins>>

\* The session rejected, before it wrote the slot or after it flushed it.
PublishFails(ws, gone) ==
    /\ Publishable(ws, gone)
    /\ \/ /\ unflushed' \in {unflushed, {}}
          /\ UNCHANGED <<slots, slotsFlushed>>
       \/ /\ unflushed' = {}
          /\ slots' = [slots EXCEPT ![NextSlot] = NextRootSlot(ws, gone)]
          /\ slotsFlushed' = [slotsFlushed EXCEPT ![NextSlot] = NextRootSlot(ws, gone)]
    /\ writers' = Ended(ws, "indeterminate")
    /\ status' = "failed"
    /\ UNCHANGED <<data, resolved, opens, spaceVars, allocated, releasing>>

-----------------------------------------------------------------------------
(* Ends of a process. *)

\* close, or the tab is killed: the files read back what was written.
Leave ==
    /\ status # "closed" /\ opens < MaxOpens
    /\ Forget
    /\ UNCHANGED disk

\* What the slots may read after a power failure.  One that was written and not flushed
\* reads what was written, what was flushed before it, or neither.
Survivors(written) ==
    LET Left(s) == {written[s], slotsFlushed[s]}
                     \cup (IF written[s] = slotsFlushed[s] THEN {} ELSE {Torn})
    IN  {[s \in 0 .. 1 |-> IF s = 0 THEN first ELSE second] : first \in Left(0), second \in Left(1)}

\* Every unflushed unit loses its bytes.  One that kept them would read as Leave leaves it.
PowerFails ==
    /\ opens < MaxOpens
    /\ data' = [u \in Units |-> IF u \in unflushed THEN Junk ELSE data[u]]
    /\ unflushed' = {}
    /\ slots' \in Survivors(slots) /\ slotsFlushed' = slots'
    /\ Forget
    /\ UNCHANGED <<resolved, opens>>

\* The power fails inside publish, after the flush of the data.
PowerFailsInPublish(ws, gone) ==
    LET written == [slots EXCEPT ![NextSlot] = NextRootSlot(ws, gone)]
    IN  /\ Publishable(ws, gone) /\ opens < MaxOpens
        /\ unflushed' = {}
        /\ slots' \in Survivors(written) /\ slotsFlushed' = slots'
        /\ Forget
        /\ UNCHANGED <<data, resolved, opens>>

\* The tab is killed inside publish between the write of the slot and its flush.
KilledInPublish(ws, gone) ==
    /\ Publishable(ws, gone)
    /\ unflushed' = {}
    /\ \E left \in {Torn, NextRootSlot(ws, gone)} : slots' = [slots EXCEPT ![NextSlot] = left]
    /\ Forget
    /\ UNCHANGED <<data, slotsFlushed, resolved, opens>>

-----------------------------------------------------------------------------
WriterStep(w) ==
    \/ OpenBuilder(w) \/ Extend(w) \/ Discard(w)
    \/ BeginAppend(w) \/ EndAppend(w) \/ FailAppend(w)
    \/ BeginSeal(w) \/ EndSeal(w) \/ BeginMove(w) \/ EndMove(w) \/ FailSeal(w)
    \/ Abort(w) \/ EndAbort(w)

PublishStep(ws, gone) ==
    \/ Publish(ws, gone) \/ PublishFails(ws, gone) \/ PowerFailsInPublish(ws, gone)

Next ==
    \/ Open \/ Leave \/ PowerFails \/ PublishDone
    \/ \E batch \in releasing : FreeDone(batch) \/ FreeFails(batch)
    \/ \E p \in Pins : Pin(p) \/ Release(p)
    \/ \E w \in Writers : WriterStep(w)
    \/ \E ws \in SUBSET Writers, dropped \in SUBSET Range(root) :
         PublishStep(ws, Extents(dropped))

Spec == Init /\ [][Next]_vars

\* The same with tabs killed between the write of a root slot and its flush.
KillNext ==
    \/ Next
    \/ \E ws \in SUBSET Writers, dropped \in SUBSET Range(root) :
         KilledInPublish(ws, Extents(dropped))

KillSpec == Init /\ [][KillNext]_vars

-----------------------------------------------------------------------------
(* Properties. *)

Intact(of) == \A u \in DOMAIN of : data[u] = of[u]

TypeOK ==
    /\ data \in [Units -> Writers \cup {Junk}] /\ unflushed \subseteq Units
    /\ slots \in [0 .. 1 -> Slots] /\ slotsFlushed \in [0 .. 1 -> Slots]
    /\ resolved \in 0 .. MaxPublishes /\ opens \in 0 .. MaxOpens
    /\ status \in {"closed", "open", "publishing", "failed"}
    /\ root \in Roots /\ previousRoot \in Roots
    /\ allocated \subseteq Units /\ retired \subseteq Units
    /\ generation \in 0 .. MaxPublishes
    /\ waiting \in Seq([generation : 0 .. MaxPublishes, units : SUBSET Units])
    /\ pins \in [Pins -> [generation : 0 .. MaxPublishes + 1, root : Roots]]
    /\ releasing \subseteq [owner : Writers \cup {Collector, Orphan}, units : SUBSET Units]
    /\ writers \in [Writers ->
         [state : {"new", "open", "publishing", "aborted", "indeterminate", "gone"},
          call : {"none", "append", "seal", "moving"}, reserved : Seq(Units), written : Nat,
          extent : SUBSET Units, failed : BOOLEAN]]
    /\ publishing \in [writers : SUBSET Writers, retired : SUBSET Units, root : Roots]
                        \cup {NoPublish}

\* Both roots the slots hold read back whole, at any time and after any end of a process
\* (reclaim.ts: "So the current root and the one before it are always intact").
KeptRootsIntact == \A s \in 0 .. 1 : Intact(slots[s].root)

\* The root a reopen finds is at least as new as the last publish that resolved
\* (contract.ts, guarantee 1).
ResolvedSurvives == Current.sequence >= resolved

\* What a pin reads stays readable until it is released, however many roots follow.
PinnedIntact == \A p \in Pins : Intact(pins[p].root)

\* The accounting the contract states for audit (extents.ts: "every allocated extent is
\* reachable, held by a writer, waiting, or being released"), in an open space between
\* publishes: what is allocated is exactly what the current root reaches, what is retired,
\* what writers hold and what their discards, aborts and seals are releasing, each unit in
\* one of these only; and what only the previous root reaches is retired.  A writer holds
\* the target of a relocation that is being copied or that failed.  The code's own
\* #auditNow counts neither those targets nor what is being released for a writer, and
\* takes them for a leak.
SpaceAccounted ==
    status = "open" =>
    LET loose == UNION {b.units : b \in {c \in releasing : c.owner # Collector}}
        parts == <<DOMAIN root, retired, loose>>
        accounted == UNION (Range(parts) \cup {Held(w) : w \in Writers})
    IN  /\ allocated = accounted
        /\ \A i, j \in 1 .. 3 : i # j => parts[i] \cap parts[j] = {}
        /\ \A w \in Writers :
             /\ Held(w) \cap UNION Range(parts) = {}
             /\ \A v \in Writers \ {w} : Held(v) \cap Held(w) = {}
        /\ DOMAIN previousRoot \ DOMAIN root \subseteq retired

\* Nothing waits that may be reused: what is retired is being released, or waits for the next
\* publish, or for a pin older than it or than something retired before it.
NothingWaitsInVain ==
    \A i \in 1 .. Len(waiting) :
       \/ waiting[i].generation >= generation
       \/ \E p \in Pins : \E j \in 1 .. i : pins[p].generation < waiting[j].generation
=============================================================================
