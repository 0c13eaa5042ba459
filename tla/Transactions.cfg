SPECIFICATION Spec
CONSTANTS
    NoRecord = NoRecord
    NoLease = NoLease
    NoJob = NoJob
    Tx = {t1, t2}
    Reserved = {t2}
    Folders = {t2}
    Readers = {r1}
    Genesis = g
    MaxVersion = 3
    MaxNow = 2
    MaxPins = 1
    TTL = 2
    Faulty = {t1, r1}
    RecoveryReads = 2
    MaxRetries = 1
    MaxLate = 1
    MeetNow = 1
CONSTRAINT Scenario
INVARIANTS
    ReadableComplete
    PinsHold
    WitnessKept
    NoLostUpdate
PROPERTIES
    SettledIsFinal
    OutcomeHolds
CHECK_DEADLOCK FALSE
