\* Two tabs that share Web Locks and a context without them.  The second tab may hold the lock for ever, or be unloaded while it holds.
SPECIFICATION FairSpec
CONSTANTS
    None = None
    c1 = c1  c2 = c2  c3 = c3
    k1 = k1  k3 = k3  k4 = k4
    w1 = w1  w3 = w3  w4 = w4  w5 = w5
    Contexts = {c1, c2, c3}
    Connections = {k1, k3, k4}
    Writers = {w1, w3, w4, w5}
    ContextOf <- MCContextOf
    ConnectionOf <- MCConnectionOf
    Maintenance = {w3}
    Abortable = {w1}
    Disposing = {k1, k3}
    Unloadable = {c2}
    Stopped = {c2}
    WebLocks = {c1, c2}
INVARIANTS
    OneWriter
    QueueNeverSplit
    LocalFifo
    RefusedNeverRunsUndisposed
PROPERTIES
    ImplementsTurn
    TurnComes
    DisposingAnswered
CHECK_DEADLOCK FALSE
