SPECIFICATION Spec
CONSTANTS
    a = a  b = b  c = c  r1 = r1  r2 = r2
    Nobody = Nobody
    Tabs = {a, b, c}
    Requests = {r1}
    From <- MCFrom
    Crowded = {a, c}
    Mortal = {a}
    Closing = {a, c}
    MaxTerms = 2
    MaxTimeouts = 1
    MaxNow = 1
INVARIANTS AtMostOnce AnswersTrue
CHECK_DEADLOCK FALSE
