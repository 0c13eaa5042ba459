SPECIFICATION Spec
CONSTANTS
    a = a  b = b  c = c  r1 = r1  r2 = r2
    Nobody = Nobody
    Tabs = {a, b, c}
    Requests = {r1}
    From <- MCFrom
    Crowded = {}
    Mortal = {a}
    Closing = {}
    MaxTerms = 3
    MaxTimeouts = 1
    MaxNow = 0
INVARIANTS AnswersTrue
CHECK_DEADLOCK FALSE
