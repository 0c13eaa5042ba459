SPECIFICATION Spec
CONSTANTS
    Durabilities <- Both
    MaxWork = 4
    MaxTrouble = 2
INVARIANTS
    AckedSurvive
    RecoveryOpens
    HistoryIntact
    ReloadIsIdentity
CHECK_DEADLOCK FALSE
