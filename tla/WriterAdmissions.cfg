\* Two writes and two background folds of one table, one background read;
\* nobody else need ever let the turn go.
SPECIFICATION AdmissionsFairSpec
CONSTANTS
    Nobody = Nobody
    Other = Other
    w1 = w1  w2 = w2  f1 = f1  f2 = f2  r1 = r1
    Writes = {w1, w2}
    Folds = {f1, f2}
    Readers = {r1}
INVARIANTS
    AttemptOnceInsideTurn
    ReadersNotStranded
    ClosedIsQuiet
PROPERTIES
    LendEnds
    CloseCompletes
CHECK_DEADLOCK FALSE
