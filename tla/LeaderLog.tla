------------------------------ MODULE LeaderLog ------------------------------
(***************************************************************************)
(* The write-ahead log of the OPFS leader: frames, the acknowledgement     *)
(* file, the two checkpoint slots, and recovery                            *)
(* (packages/core/src/storage/opfs/leader.ts with toolkit/wal.ts and       *)
(* toolkit/wal-acknowledgement.ts).                                        *)
(*                                                                         *)
(* The record core is the sequence of the operations applied to it, so its *)
(* length is the leader's sequence number.  A frame is one cell of the     *)
(* log, and an offset is a number of cells.  Every file has the content a  *)
(* handle reads and the content of its last flush; a tab that dies leaves  *)
(* the first, a power loss something between the two.  Synchronous code is *)
(* split between file operations only for those two to strike there: no    *)
(* other operation runs while `op` is busy.                                *)
(***************************************************************************)
EXTENDS Integers, FiniteSets, SequencesExt

CONSTANTS Durabilities,     \* the durabilities a behaviour may have
          MaxWork,          \* bound on operations and checkpoints together
          MaxTrouble        \* bound on refused writes, flushes and cleanups,
                            \* shutdowns, dead tabs and power losses together

ASSUME LogAssumption ==
    /\ Durabilities \subseteq {"strict", "relaxed"}
    /\ {MaxWork, MaxTrouble} \subseteq Nat

VARIABLES
    durability,           \* fixed when the database is created
    wal, walFlushed,      \* the log: cells now, and at its last flush
    slots, slotsFlushed,  \* the two checkpoint slots
    acks, acksFlushed,    \* the two slots of the acknowledgement file
    dirty, lost,          \* operations whose extent bytes are unflushed, lost
    phase,                \* open, down or refused (recovery failed closed)
    core, poisoned,       \* the leader's #core and #poisoned
    end,                  \* #offset of its WalWriter
    newest, generation,   \* #newestSlot and #checkpointGeneration
    latest,               \* `latest` of its WalAcknowledgements
    op,                   \* the operation being logged
    cp,                   \* the checkpoint under way
    retry,                \* a queued retry of recovery's cleanup
    made, trouble,        \* operations and trouble so far
    promised,             \* history: operations whose success was reported
    safe,                 \* history: operations of a flushed checkpoint
    based,                \* history: based[o] : the core that o was applied to
    soft                  \* history: the state rested on bytes no flush covered

fileVars == <<wal, walFlushed, slots, slotsFlushed, acks, acksFlushed, dirty, lost>>
memoryVars == <<phase, core, poisoned, end, newest, generation, latest>>
stepVars == <<op, cp, retry>>
countVars == <<durability, made, trouble>>
historyVars == <<promised, safe, based, soft>>
vars == <<fileVars, memoryVars, stepVars, countVars, historyVars>>

Strict == durability = "strict"

Frame(s, o) == [k |-> "frame", seq |-> s, op |-> o]
Piece(o) == [k |-> "piece", seq |-> 0, op |-> o]
Zero == [k |-> "zero", seq |-> 0, op |-> 0]
Short == [k |-> "short", seq |-> 0, op |-> 0]    \* a truncated frame
Whole == {"frame", "piece"}

Empty == [state |-> "empty", gen |-> 0, core |-> <<>>]
Torn == [state |-> "torn", gen |-> 0, core |-> <<>>]
Ack(s, e) == [valid |-> TRUE, seq |-> s, end |-> e]
TornAck == [valid |-> FALSE, seq |-> 0, end |-> 0]

NoOp == [stage |-> "none", id |-> 0, start |-> 0]
NoCheckpoint == [stage |-> "none", mirror |-> FALSE, slot |-> 0,
                 closing |-> FALSE, gen |-> 0, core |-> <<>>, end |-> 0]
NoRetry == [due |-> FALSE, end |-> 0, first |-> FALSE]

TypeOK ==
    /\ durability \in Durabilities /\ phase \in {"open", "down", "refused"}
    /\ end \in 0 .. Len(wal) + 1 /\ newest \in 0 .. 1 /\ generation \in Nat
    /\ \A i \in 0 .. 1 : slots[i].state \in {"empty", "torn", "valid"}
    /\ core \in Seq(1 .. made) /\ poisoned \in BOOLEAN /\ soft \in BOOLEAN
    /\ op.stage \in {"none", "staged", "written", "flushed", "acked"}
    /\ cp.slot \in 0 .. 1
    /\ promised \cup dirty \cup lost \cup safe \subseteq 1 .. made

(* A new database: an initialised acknowledgement file and nothing else. *)
Init ==
    /\ durability \in Durabilities
    /\ wal = <<>> /\ walFlushed = <<>>
    /\ slots = [i \in 0 .. 1 |-> Empty] /\ slotsFlushed = slots
    /\ acks = [i \in 0 .. 1 |-> Ack(0, 0)] /\ acksFlushed = acks
    /\ dirty = {} /\ lost = {}
    /\ phase = "open" /\ core = <<>> /\ poisoned = FALSE /\ end = 0
    /\ newest = 0 /\ generation = 0 /\ latest = Ack(0, 0)
    /\ op = NoOp /\ cp = NoCheckpoint /\ retry = NoRetry
    /\ made = 0 /\ trouble = 0
    /\ promised = {} /\ safe = {} /\ based = <<>> /\ soft = FALSE
-------------------------------------------------------------------------------
(* Writing one cell at an offset and changing the length of the file, both  *)
(* of which fill a gap with zeroes.                                         *)
Put(e, cell) ==
    [i \in 1 .. (IF Len(wal) > e THEN Len(wal) ELSE e + 1) |->
        IF i = e + 1 THEN cell ELSE IF i <= Len(wal) THEN wal[i] ELSE Zero]

Truncated(w, e) == [i \in 1 .. e |-> IF i <= Len(w) THEN w[i] ELSE Zero]

MoreWork == made + generation < MaxWork

Busy == op.stage # "none"
Yielding == cp.stage \in {"slot", "torn", "mirrored"}

(* The operation queue is at this operation, and a poisoned leader has      *)
(* reloaded (#run).                                                         *)
QueueTurn ==
    /\ phase = "open" /\ ~poisoned /\ ~Busy /\ ~retry.first
    /\ cp.stage = "none" /\ ~cp.closing

(* The lease lane, which a sliced checkpoint opens between its slices.  A   *)
(* checkpoint that keeps it closed is one during which nobody uses it.      *)
LeaseLane == phase = "open" /\ ~poisoned /\ ~Busy /\ Yielding

(* Apply operation o to the core and write the cell that completes it. *)
Apply(o) ==
    /\ core' = Append(core, o)
    /\ based' = Append(based, core)
    /\ wal' = Put(end, Frame(Len(core) + 1, o))

(* A strict append: #logged, or a lease operation in the lane, up to the    *)
(* flush of its frame.  The extent bytes were flushed before.               *)
LogFlushed ==
    /\ Strict /\ MoreWork /\ (QueueTurn \/ LeaseLane)
    /\ made' = made + 1
    /\ Apply(made + 1)
    /\ op' = [stage |-> "written", id |-> made + 1, start |-> end]
    /\ UNCHANGED <<walFlushed, slots, slotsFlushed, acks, acksFlushed, dirty, lost,
                   phase, poisoned, end, newest, generation, latest, cp, retry,
                   durability, trouble, promised, safe, soft>>

(* Some acknowledged mutation was served and its result is not logged yet. *)
ResultDue == Cardinality(promised) > Cardinality(ToSet(core) \ promised)

(* An append without a flush: everything under relaxed durability, and the  *)
(* result of a served mutation (#settleServed) under strict.  A lease frame *)
(* and a result name no extent bytes.                                       *)
LogUnflushed(payload) ==
    /\ MoreWork /\ (QueueTurn \/ LeaseLane)
    /\ payload => ~Strict /\ cp.stage = "none"
    /\ Strict => ResultDue
    /\ made' = made + 1
    /\ Apply(made + 1)
    /\ end' = end + 1
    /\ dirty' = IF payload THEN dirty \cup {made + 1} ELSE dirty
    /\ promised' = IF Strict THEN promised ELSE promised \cup {made + 1}
    /\ UNCHANGED <<walFlushed, slots, slotsFlushed, acks, acksFlushed, lost, phase,
                   poisoned, newest, generation, latest, stepVars, durability,
                   trouble, safe, soft>>

(* A frame larger than a piece is staged: its first piece goes in (and is   *)
(* flushed under strict durability) before the core changes.                *)
Stage ==
    /\ MoreWork /\ QueueTurn
    /\ made' = made + 1 /\ based' = Append(based, core)
    /\ wal' = Put(end, Piece(made + 1))
    /\ walFlushed' = IF Strict THEN wal' ELSE walFlushed
    /\ end' = end + 1
    /\ op' = [stage |-> "staged", id |-> made + 1, start |-> end]
    /\ UNCHANGED <<slots, slotsFlushed, acks, acksFlushed, dirty, lost, phase, core,
                   poisoned, newest, generation, latest, cp, retry, durability,
                   trouble, promised, safe, soft>>

(* The completing frame of a staged payload. *)
Complete ==
    /\ op.stage = "staged"
    /\ core' = Append(core, op.id)
    /\ wal' = Put(end, Frame(Len(core) + 1, op.id))
    /\ IF Strict
       THEN op' = [op EXCEPT !.stage = "written"] /\ UNCHANGED <<end, promised>>
       ELSE op' = NoOp /\ end' = end + 1 /\ promised' = promised \cup {op.id}
    /\ UNCHANGED <<walFlushed, slots, slotsFlushed, acks, acksFlushed, dirty, lost,
                   phase, poisoned, newest, generation, latest, cp, retry,
                   countVars, safe, based, soft>>

(* #unstageEncodedFrame rewinds, but never below a boundary that the        *)
(* acknowledgement file names.                                              *)
MayRewind == op.start >= latest.end

(* The operation is refused before its completing frame. *)
Unstage ==
    /\ op.stage = "staged"
    /\ IF MayRewind
       THEN /\ wal' = Truncated(wal, op.start) /\ walFlushed' = wal'
            /\ end' = op.start
            /\ UNCHANGED poisoned
       ELSE poisoned' = TRUE /\ UNCHANGED <<wal, walFlushed, end>>
    /\ op' = NoOp
    /\ UNCHANGED <<slots, slotsFlushed, acks, acksFlushed, dirty, lost, phase, core,
                   newest, generation, latest, cp, retry, countVars, historyVars>>

(* The extents' flush or the write of a frame is refused, and perhaps the   *)
(* truncation of what was written too: the core may be ahead of the log, so *)
(* the leader is poisoned.                                                  *)
AppendFails(cut) ==
    /\ QueueTurn \/ LeaseLane
    /\ trouble < MaxTrouble /\ trouble' = trouble + 1
    /\ wal' = IF cut THEN Truncated(wal, end) ELSE Put(end, Short)
    /\ poisoned' = TRUE
    /\ UNCHANGED <<walFlushed, slots, slotsFlushed, acks, acksFlushed, dirty, lost,
                   phase, core, end, newest, generation, latest, stepVars,
                   durability, made, historyVars>>

FlushFrame ==
    /\ op.stage = "written"
    /\ walFlushed' = wal /\ end' = end + 1
    /\ op' = [op EXCEPT !.stage = "flushed"]
    /\ UNCHANGED <<wal, slots, slotsFlushed, acks, acksFlushed, dirty, lost, phase,
                   core, poisoned, newest, generation, latest, cp, retry, countVars,
                   historyVars>>

(* The flush of a frame is refused.  The log is left with all of it, with   *)
(* its pieces or without them, as truncations succeed.                      *)
FrameFails(keep) ==
    /\ op.stage = "written" /\ trouble < MaxTrouble
    /\ keep \in {op.start, end, end + 1} /\ (keep < end => MayRewind)
    /\ trouble' = trouble + 1
    /\ wal' = Truncated(wal, keep)
    /\ walFlushed' = IF keep < end THEN wal' ELSE walFlushed
    /\ poisoned' = TRUE /\ op' = NoOp
    /\ UNCHANGED <<slots, slotsFlushed, acks, acksFlushed, dirty, lost, phase, core,
                   end, newest, generation, latest, cp, retry, durability, made, historyVars>>

(* WalAcknowledgements.publish: a slot chosen by parity, then its flush. *)
Publish(s, e) ==
    /\ acks' = [acks EXCEPT ![s % 2] = Ack(s, e)]
    /\ latest' = Ack(s, e)

PublishFrame ==
    /\ op.stage = "flushed"
    /\ Publish(Len(core), end)
    /\ op' = [op EXCEPT !.stage = "acked"]
    /\ UNCHANGED <<wal, walFlushed, slots, slotsFlushed, acksFlushed, dirty, lost,
                   phase, core, poisoned, end, newest, generation, cp, retry,
                   countVars, historyVars>>

(* The acknowledgement is flushed and the caller told. *)
Acknowledge ==
    /\ op.stage = "acked"
    /\ acksFlushed' = acks
    /\ op' = NoOp
    /\ promised' = promised \cup {op.id}
    /\ UNCHANGED <<wal, walFlushed, slots, slotsFlushed, acks, dirty, lost,
                   memoryVars, cp, retry, countVars, safe, based, soft>>

(* Its write or flush is refused: the outcome is uncertain, the log keeps   *)
(* the frame and the leader reloads.                                        *)
PublishFails(torn) ==
    /\ op.stage \in {"flushed", "acked"} /\ (torn => op.stage = "flushed")
    /\ trouble < MaxTrouble /\ trouble' = trouble + 1
    /\ acks' = IF torn THEN [acks EXCEPT ![Len(core) % 2] = TornAck] ELSE acks
    /\ poisoned' = TRUE /\ op' = NoOp
    /\ UNCHANGED <<wal, walFlushed, slots, slotsFlushed, acksFlushed, dirty, lost,
                   phase, core, end, newest, generation, latest, cp, retry,
                   durability, made, historyVars>>
-------------------------------------------------------------------------------
(* #checkpointSlotOrder: the older slot first. *)
CheckpointSlot == 1 - newest

(* A checkpoint captures the state; a relaxed one first flushes the extents *)
(* and the log.  Only shutdown checkpoints an empty log.                    *)
BeginCheckpoint(closing) ==
    /\ QueueTurn /\ MoreWork
    /\ end > 0 \/ closing
    /\ cp' = [stage |-> "slot", mirror |-> FALSE, closing |-> closing,
              slot |-> CheckpointSlot, gen |-> generation + 1, core |-> core,
              end |-> end]
    /\ IF Strict THEN UNCHANGED <<walFlushed, dirty>>
       ELSE walFlushed' = wal /\ dirty' = {}
    /\ IF closing THEN trouble < MaxTrouble /\ trouble' = trouble + 1
       ELSE UNCHANGED trouble
    /\ UNCHANGED <<wal, slots, slotsFlushed, acks, acksFlushed, lost, memoryVars, op,
                   retry, durability, made, historyVars>>

(* The slot being written: the older one, then its mirror. *)
SlotNow == IF cp.mirror THEN 1 - cp.slot ELSE cp.slot

(* Writing a slot: truncated and partly written, complete, flushed. *)
TearSlot ==
    /\ ~Busy /\ cp.stage = "slot"
    /\ slots' = [slots EXCEPT ![SlotNow] = Torn]
    /\ cp' = [cp EXCEPT !.stage = "torn"]
    /\ UNCHANGED <<wal, walFlushed, slotsFlushed, acks, acksFlushed, dirty, lost,
                   memoryVars, op, retry, countVars, historyVars>>

WriteSlot ==
    /\ ~Busy /\ cp.stage = "torn"
    /\ slots' = [slots EXCEPT ![SlotNow] =
                    [state |-> "valid", gen |-> cp.gen, core |-> cp.core]]
    /\ cp' = [cp EXCEPT !.stage = "written"]
    /\ UNCHANGED <<wal, walFlushed, slotsFlushed, acks, acksFlushed, dirty, lost,
                   memoryVars, op, retry, countVars, historyVars>>

(* #checkpointSlotPublished follows the first slot's flush. *)
FlushSlot ==
    /\ cp.stage = "written"
    /\ slotsFlushed' = [slotsFlushed EXCEPT ![SlotNow] = slots[SlotNow]]
    /\ IF cp.mirror
       THEN /\ cp' = [cp EXCEPT !.stage = "mirrored"]
            /\ UNCHANGED <<newest, generation, safe>>
       ELSE /\ cp' = [cp EXCEPT !.stage = "slot", !.mirror = TRUE]
            /\ newest' = cp.slot /\ generation' = cp.gen /\ safe' = ToSet(cp.core)
    /\ UNCHANGED <<wal, walFlushed, slots, acks, acksFlushed, dirty, lost, phase,
                   core, poisoned, end, latest, op, retry, countVars, promised,
                   based, soft>>

(* Whether the checkpoint covers every frame of the log. *)
CoversLog == core = cp.core /\ ~poisoned

(* The checkpoint is over; shutdown goes on to release the files. *)
Ended == [NoCheckpoint EXCEPT !.closing = cp.closing]

(* Mutant: the log is reset whatever was logged since the capture. *)
MirroredResets ==
    /\ ~Busy /\ cp.stage = "mirrored"
    /\ Publish(Len(cp.core), cp.end)
    /\ cp' = [cp EXCEPT !.stage = "resetting"]
    /\ UNCHANGED <<wal, walFlushed, slots, slotsFlushed, acksFlushed, dirty, lost,
                   phase, core, poisoned, end, newest, generation, op, retry,
                   countVars, historyVars>>

(* #checkpointMirrored: acknowledge the checkpoint's boundary and reset the *)
(* log, or keep it because lease frames were logged since the capture.      *)
Mirrored ==
    /\ ~Busy /\ cp.stage = "mirrored"
    /\ \/ /\ CoversLog
          /\ Publish(Len(core), end)
          /\ cp' = [cp EXCEPT !.stage = "resetting"]
       \/ /\ ~CoversLog /\ latest.seq < Len(cp.core)
          /\ Publish(Len(cp.core), cp.end)
          /\ cp' = [cp EXCEPT !.stage = "keeping"]
       \/ /\ ~CoversLog /\ latest.seq >= Len(cp.core)
          /\ cp' = Ended
          /\ UNCHANGED <<acks, latest>>
    /\ UNCHANGED <<wal, walFlushed, slots, slotsFlushed, acksFlushed, dirty, lost,
                   phase, core, poisoned, end, newest, generation, op, retry,
                   countVars, historyVars>>

FlushBoundary ==
    /\ cp.stage \in {"resetting", "keeping"}
    /\ acksFlushed' = acks
    /\ cp' = IF cp.stage = "keeping" THEN Ended ELSE [cp EXCEPT !.stage = "reset"]
    /\ UNCHANGED <<wal, walFlushed, slots, slotsFlushed, acks, dirty, lost,
                   memoryVars, op, retry, countVars, historyVars>>

(* Mutant: the writer goes on where it was. *)
ResetLeavesOffset ==
    /\ cp.stage = "reset"
    /\ wal' = <<>> /\ UNCHANGED end
    /\ cp' = [cp EXCEPT !.stage = "emptied"]
    /\ UNCHANGED <<walFlushed, slots, slotsFlushed, acks, acksFlushed, dirty, lost,
                   phase, core, poisoned, newest, generation, latest, op, retry,
                   countVars, historyVars>>

(* WalWriter.reset, and its flush. *)
Reset ==
    /\ cp.stage = "reset"
    /\ wal' = <<>> /\ end' = 0
    /\ cp' = [cp EXCEPT !.stage = "emptied"]
    /\ UNCHANGED <<walFlushed, slots, slotsFlushed, acks, acksFlushed, dirty, lost,
                   phase, core, poisoned, newest, generation, latest, op, retry,
                   countVars, historyVars>>

FlushReset ==
    /\ cp.stage = "emptied"
    /\ walFlushed' = wal
    /\ cp' = Ended
    /\ UNCHANGED <<wal, slots, slotsFlushed, acks, acksFlushed, dirty, lost,
                   memoryVars, op, retry, countVars, historyVars>>

(* A refused operation ends the checkpoint where it is; the log still       *)
(* covers everything.                                                       *)
CheckpointFails ==
    /\ ~Busy /\ cp.stage # "none" /\ trouble < MaxTrouble
    /\ trouble' = trouble + 1
    /\ cp' = Ended
    /\ UNCHANGED <<fileVars, memoryVars, op, retry, durability, made,
                   historyVars>>
-------------------------------------------------------------------------------
(* Recovery, #loadFromDisk, as a function of the files. *)
Valid == {i \in 0 .. 1 : slots[i].state = "valid"}

Precedes(i, j) ==
    \/ slots[i].gen > slots[j].gen
    \/ slots[i].gen = slots[j].gen /\ Len(slots[i].core) >= Len(slots[j].core)

Selected ==
    IF Valid = {} THEN 0
    ELSE CHOOSE i \in Valid : \A j \in Valid : Precedes(i, j) /\ (Precedes(j, i) => i <= j)

Base == IF Valid = {} THEN <<>> ELSE slots[Selected].core

SlotsRefused ==
    \/ /\ Valid = {} /\ wal = <<>>
       /\ \E i \in 0 .. 1 : slots[i].state = "torn"
    \/ /\ Valid = {0, 1}
       /\ LET new == slots[Selected]
              old == slots[1 - Selected]
          IN  \/ new.gen > old.gen /\ Len(new.core) < Len(old.core)
              \/ new.gen = old.gen /\ new.core # old.core
              \/ /\ wal = <<>>
                 /\ new.gen - old.gen > 1 \/ (Len(new.core) # Len(old.core) /\ Strict)
    \/ ToSet(Base) \cap lost # {}                 \* validateCheckpointPhysical

(* WalAcknowledgements: either slot damaged is refused, else the later one. *)
AcksRefused == \E i \in 0 .. 1 : ~acks[i].valid

LastAck ==
    IF \/ acks[1].seq > acks[0].seq
       \/ acks[1].seq = acks[0].seq /\ acks[1].end > acks[0].end
    THEN acks[1] ELSE acks[0]

AckedEnd == IF LastAck.seq > Len(Base) THEN LastAck.end ELSE 0

(* Mutant: the log ends at a zero-filled frame only when nothing follows. *)
ZeroedFrameNeverEndsLog == FALSE

(* A relaxed log ends at a zero-filled frame whatever follows it. *)
ZeroedFrameEndsLog == ~Strict

(* walPayloads: the whole cells, the frames among them, the frame that      *)
(* replay stops before because a power loss took its payload.               *)
WholeCells ==
    Max({n \in 0 .. Len(wal) : \A i \in 1 .. n : wal[i].k \in Whole})

FramesTo(n) == {i \in 1 .. n : wal[i].k = "frame"}

Unverified ==
    LET covered == Len(Base)
    IN  {i \in FramesTo(WholeCells) : wal[i].seq > covered /\ wal[i].op \in lost}

Replayed == LET bad == Unverified IN IF bad = {} THEN WholeCells ELSE Min(bad) - 1

LastFrame(n) == Max({0} \cup FramesTo(n))

(* Every frame read, up to the one that replay stops before, continues the  *)
(* sequence, completes its own pieces and agrees with the acknowledgement.  *)
FramesRefused ==
    LET bad == Unverified
        read == FramesTo(IF bad = {} THEN WholeCells ELSE Min(bad))
        covered == Len(Base)
        acked == AckedEnd
    IN  \/ Len(wal) < acked
        \/ Strict /\ bad # {}
        \/ \E i \in read :
              LET before == LastFrame(i - 1)
              IN  \/ acked > 0 /\ wal[i].seq = LastAck.seq /\ i # acked
                  \/ IF before > 0 THEN wal[i].seq # wal[before].seq + 1
                     ELSE IF Valid = {} THEN wal[i].seq # 1
                     ELSE wal[i].seq > covered + 1
                  \/ \E j \in before + 1 .. i - 1 : wal[j].op # wal[i].op

(* What follows the whole cells is a tail nobody acknowledged, or refused. *)
TailRefused ==
    LET n == WholeCells
        zeroes == \A i \in n + 1 .. Len(wal) : wal[i].k = "zero"
    IN  /\ Unverified = {}
        /\ \/ LastFrame(n) < n /\ LastFrame(n) < AckedEnd
           \/ /\ n < Len(wal) /\ wal[n + 1].k = "zero"
              /\ n < AckedEnd \/ ~(ZeroedFrameEndsLog \/ zeroes)
           \/ /\ n < Len(wal) /\ wal[n + 1].k = "short"
              /\ n < AckedEnd \/ n + 1 < Len(wal)

(* Frames that the checkpoint covers are skipped, the later ones applied.   *)
RecoveredCore ==
    LET covered == Len(Base)
        fresh == {i \in FramesTo(Replayed) : wal[i].seq > covered}
    IN  [n \in 1 .. Max({covered} \cup {wal[i].seq : i \in fresh}) |->
            IF n <= covered THEN Base[n] ELSE wal[CHOOSE i \in fresh : wal[i].seq = n].op]

RecoveryRefused ==
    \/ SlotsRefused \/ AcksRefused \/ FramesRefused \/ TailRefused
    \/ Len(RecoveredCore) < LastAck.seq

(* Mutant: recovery's cleanup leaves the log longer than what was replayed. *)
NothingCutOff == wal

(* #cleanupRecoveryArtifacts truncates the log; it does not flush it. *)
TailCutOff == SubSeq(wal, 1, LastFrame(Replayed))

(* What a recovery that succeeds leaves in memory. *)
Recover ==
    /\ phase' = "open" /\ poisoned' = FALSE
    /\ core' = RecoveredCore
    /\ end' = LastFrame(Replayed)
    /\ newest' = Selected
    /\ generation' = IF Valid = {} THEN generation ELSE slots[Selected].gen
    /\ latest' = LastAck
    /\ soft' = (soft \/ slots[Selected] # slotsFlushed[Selected])

Refuse ==
    /\ phase' = "refused"
    /\ UNCHANGED <<wal, core, poisoned, end, newest, generation, latest, soft>>

(* A new leader opens the files. *)
Open ==
    /\ phase = "down"
    /\ IF RecoveryRefused THEN Refuse
       ELSE Recover /\ wal' = TailCutOff
    /\ UNCHANGED <<walFlushed, slots, slotsFlushed, acks, acksFlushed, dirty, lost,
                   stepVars, countVars, promised, safe, based>>

(* The next operation of the queue finds the leader poisoned (#run).  When  *)
(* the reload fails the leader closes, and no later leader reads anything   *)
(* else from these files.                                                   *)
Reload ==
    /\ phase = "open" /\ poisoned /\ ~Busy /\ cp = NoCheckpoint
    /\ IF RecoveryRefused THEN Refuse
       ELSE Recover /\ wal' = TailCutOff
    /\ UNCHANGED <<walFlushed, slots, slotsFlushed, acks, acksFlushed, dirty, lost,
                   stepVars, countVars, promised, safe, based>>

(* Cleanup is refused, before or after the log's truncation, and one retry  *)
(* is queued with the offset that this recovery ended at                    *)
(* (#postCommitCleanup).  It is the first operation of a new leader, and    *)
(* comes after the operation that a reload was for.                         *)
CleanupRefused(truncated) ==
    /\ \/ phase = "down"
       \/ phase = "open" /\ poisoned /\ ~Busy /\ cp = NoCheckpoint
    /\ ~RecoveryRefused /\ Recover
    /\ trouble < MaxTrouble /\ trouble' = trouble + 1
    /\ wal' = IF truncated THEN TailCutOff ELSE wal
    /\ retry' = IF retry.due THEN retry
                ELSE [due |-> TRUE, end |-> LastFrame(Replayed), first |-> phase = "down"]
    /\ UNCHANGED <<walFlushed, slots, slotsFlushed, acks, acksFlushed, dirty, lost,
                   op, cp, durability, made, promised, safe, based>>

RetryCleanup ==
    /\ retry.due /\ phase = "open" /\ ~poisoned /\ ~Busy /\ cp = NoCheckpoint
    /\ wal' = IF Len(wal) > retry.end THEN SubSeq(wal, 1, retry.end) ELSE wal
    /\ retry' = NoRetry
    /\ UNCHANGED <<walFlushed, slots, slotsFlushed, acks, acksFlushed, dirty, lost,
                   memoryVars, op, cp, countVars, historyVars>>
-------------------------------------------------------------------------------
(* Nothing of the leader's memory survives it. *)
Forget ==
    /\ phase' = "down" /\ core' = <<>> /\ poisoned' = FALSE /\ end' = 0
    /\ newest' = 0 /\ generation' = 0 /\ latest' = Ack(0, 0)
    /\ op' = NoOp /\ cp' = NoCheckpoint /\ retry' = NoRetry

(* shutdown releases the files, whether or not its checkpoint succeeded. *)
Shutdown ==
    /\ phase = "open" /\ ~Busy /\ cp.stage = "none" /\ cp.closing
    /\ Forget
    /\ UNCHANGED <<fileVars, countVars, historyVars>>

Logging == QueueTurn \/ LeaseLane \/ op.stage \in {"staged", "written"}
Publishing == op.stage = "acked" \/ cp.stage \in {"resetting", "keeping"}

(* The tab dies.  What was written stays, and a write in progress is short. *)
TabDies(short, torn) ==
    /\ phase = "open" /\ trouble < MaxTrouble /\ trouble' = trouble + 1
    /\ short => Logging
    /\ torn => Publishing
    /\ wal' = IF short THEN Put(end, Short) ELSE wal
    /\ acks' = IF torn THEN [acks EXCEPT ![latest.seq % 2] = TornAck] ELSE acks
    /\ Forget
    /\ UNCHANGED <<walFlushed, slots, slotsFlushed, acksFlushed, dirty, lost,
                   durability, made, historyVars>>

(* What a power loss may leave of a file whose content is w and was f at    *)
(* its last flush: f, or f's common prefix with w and then some length of   *)
(* the rest, each cell of it written back or still zero, the last perhaps   *)
(* cut short.                                                               *)
Common(w, f) ==
    Max({n \in 0 .. Len(w) : n <= Len(f) /\ \A i \in 1 .. n : w[i] = f[i]})

WrittenBack(w, f) ==
    LET kept == Common(w, f)
        left(n, holes) == [i \in 1 .. n |-> IF i \in holes THEN Zero ELSE w[i]]
    IN  {f} \cup
        UNION {UNION {{left(n, holes), [left(n, holes) EXCEPT ![n] = Short]} :
                      holes \in SUBSET (kept + 1 .. n)} : n \in kept + 1 .. Len(w)}

(* A slot of a file: as flushed, as written, or torn. *)
SlotOutcomes(now, flushed, torn) ==
    LET left(i) == {now[i], flushed[i]} \cup IF now[i] = flushed[i] THEN {} ELSE {torn}
    IN  {[i \in 0 .. 1 |-> IF i = 0 THEN a ELSE b] : a \in left(0), b \in left(1)}

(* Frames of finished operations that no flush has covered, and a slot      *)
(* ahead of a log that was reset or rolled back without them.               *)
UnflushedFrames ==
    \E i \in FramesTo(Len(wal)) : i > Common(wal, walFlushed) /\ wal[i].op # op.id

SlotAhead(s, w) ==
    LET last == Max({0} \cup {w[j].seq : j \in DOMAIN w})
    IN  \E i \in 0 .. 1 : last \in 1 .. Len(s[i].core) - 1

(* The device loses power, with the tab or after it died. *)
PowerLoss ==
    /\ phase \in {"open", "down"} /\ trouble < MaxTrouble /\ trouble' = trouble + 1
    /\ wal' \in WrittenBack(wal, walFlushed) /\ walFlushed' = wal'
    /\ slots' \in SlotOutcomes(slots, slotsFlushed, Torn) /\ slotsFlushed' = slots'
    /\ acks' \in SlotOutcomes(acks, acksFlushed, TornAck) /\ acksFlushed' = acks'
    /\ \E gone \in SUBSET dirty : lost' = lost \cup gone
    /\ dirty' = {}
    /\ Forget
    /\ promised' = IF Strict THEN promised ELSE promised \cap safe
    /\ soft' = (soft \/ (Strict /\ (UnflushedFrames \/ SlotAhead(slots', wal'))))
    /\ UNCHANGED <<durability, made, safe, based>>
-------------------------------------------------------------------------------
Next ==
    \/ LogFlushed
    \/ \E payload \in BOOLEAN : LogUnflushed(payload)
    \/ Stage \/ Complete \/ Unstage
    \/ \E cut \in BOOLEAN : AppendFails(cut)
    \/ FlushFrame
    \/ \E keep \in {op.start, end, end + 1} : FrameFails(keep)
    \/ PublishFrame \/ Acknowledge
    \/ \E torn \in BOOLEAN : PublishFails(torn)
    \/ \E closing \in BOOLEAN : BeginCheckpoint(closing)
    \/ TearSlot \/ WriteSlot \/ FlushSlot
    \/ Mirrored \/ FlushBoundary \/ Reset \/ FlushReset \/ CheckpointFails
    \/ Shutdown \/ Open \/ Reload
    \/ \E short, torn \in BOOLEAN : TabDies(short, torn)
    \/ PowerLoss

Spec == Init /\ [][Next]_vars

(* With refusals of recovery's cleanup, and its retry. *)
NextWithDebt ==
    \/ Next
    \/ \E truncated \in BOOLEAN : CleanupRefused(truncated)
    \/ RetryCleanup

SpecWithDebt == Init /\ [][NextWithDebt]_vars
-------------------------------------------------------------------------------
Idle == phase = "open" /\ ~poisoned /\ ~Busy /\ cp = NoCheckpoint

(* A leader that serves holds every operation it or a leader before it      *)
(* reported done: under strict durability whatever happened to the device,  *)
(* under relaxed durability since the last power loss, and what a           *)
(* checkpoint had flushed before it.                                        *)
AckedSurvive == phase = "open" => promised \subseteq ToSet(core)

(* Recovery refuses a database that still owes anybody an operation only    *)
(* when an update of the acknowledgement file was interrupted, which that   *)
(* file documents, or when a leader had gone on from bytes that a power     *)
(* loss could still take: a strict log's unflushed frames, or a checkpoint  *)
(* slot that a dying tab left unflushed.                                    *)
RecoveryOpens == phase = "refused" /\ promised # {} => AcksRefused \/ soft

(* The served state is a history that happened: every operation in it was   *)
(* applied to exactly the operations before it.                             *)
HistoryIntact ==
    phase = "open" => \A i \in 1 .. Len(core) : based[core[i]] = SubSeq(core, 1, i - 1)

(* Between operations the files describe the leader's memory (unless it is  *)
(* empty, or as above): reloading them changes nothing, and goes on         *)
(* writing at the same place.                                               *)
ReloadIsIdentity ==
    Idle /\ core # <<>> /\ ~AcksRefused /\ ~soft => ~RecoveryRefused /\ RecoveredCore = core
                            /\ LastFrame(Replayed) = end
=============================================================================
