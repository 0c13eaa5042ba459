SPECIFICATION Spec
CONSTANTS
    Length = 5
    Writers = {w1, w2}
    Pins = {p}
    MaxUnits <- MCMaxUnits
    MaxPublishes = 3
    MaxOpens = 2
    Long = w1
    MaxReleases = 1
    Junk = Junk
    NoPublish = NoPublish
CONSTRAINT Scenario
INVARIANTS
    KeptRootsIntact
    ResolvedSurvives
    PinnedIntact
    SpaceAccounted
    NothingWaitsInVain
CHECK_DEADLOCK FALSE
