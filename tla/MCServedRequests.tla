-------------------------- MODULE MCServedRequests --------------------------
EXTENDS ServedRequests, TLC
CONSTANTS a, b, c, r1, r2
MCFrom == [r \in Requests |-> c]
=============================================================================
