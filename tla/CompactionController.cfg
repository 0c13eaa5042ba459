\* One table, two commits, checks every second commit.
SPECIFICATION FairSpec
CONSTANTS
    t1 = t1
    Tables = {t1}
    CommitInterval = 2
    FailureLimit = 2
    MaxCommits = 2
    MaxBackOffs = 1
    MaxChecks = 1
    StoreFails = TRUE
INVARIANTS
    AsksKept
    DrainedIsQuiet
PROPERTIES
    QuietTableRunsUndisturbed
CHECK_DEADLOCK FALSE
