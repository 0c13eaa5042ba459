SPECIFICATION KillSpec
CONSTANTS
    Length = 3
    Writers = {w1, w2}
    Pins = {p}
    MaxUnits <- MCMaxUnits
    MaxPublishes = 4
    MaxOpens = 3
    Long = w1
    MaxReleases = 1
    Junk = Junk
    NoPublish = NoPublish
CONSTRAINT Scenario
INVARIANT ResolvedSurvives
CHECK_DEADLOCK FALSE
