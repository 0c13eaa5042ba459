SPECIFICATION SpecWithDebt
CONSTANTS
    Durabilities <- Both
    MaxWork = 4
    MaxTrouble = 3
INVARIANTS
    AckedSurvive
CHECK_DEADLOCK FALSE
