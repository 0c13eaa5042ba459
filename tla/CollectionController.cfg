\* Two writers, three commits, a debt limit of two; collection automatic or not.
SPECIFICATION FairSpec
CONSTANTS
    w1 = w1  w2 = w2
    Writers = {w1, w2}
    Modes = {TRUE, FALSE}
    DebtLimit = 2
    CommitInterval = 2
    MaxCommits = 3
    MaxPasses = 1
    MaxYields = 1
INVARIANTS
    RequestHasOwner
    LeftoverShows
    DebtBounded
    DrainedIsQuiet
PROPERTIES
    BurstCollected
CHECK_DEADLOCK FALSE
