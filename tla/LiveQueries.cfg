\* Two result subscribers of one statement, two observers of another, or one of each; two events.
SPECIFICATION FairSpec
CONSTANTS
    None = None
    q1 = q1  q2 = q2
    a = a  b = b
    s1 = s1  s2 = s2
    o1 = o1  o2 = o2
    Queries = {q1, q2}
    Tables = {a, b}
    Subscribers = {s1, s2, o1, o2}
    Casts = {{s1, s2}, {o1, o2}, {s1, o1}}
    QueryOf <- MCQueryOf
    Observers = {o1, o2}
    Quiet = {o2}
    Maintainable = {q1, q2}
    Reads <- MCReads
    Changes <- MCChanges
    MaxEpoch = 1
    MaxEvents = 2
INVARIANTS
    DeliveryTrue
    MapsFit
PROPERTIES
    CommitsArrive
CHECK_DEADLOCK FALSE
