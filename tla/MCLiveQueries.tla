--------------------------- MODULE MCLiveQueries ---------------------------
(* s1, s2 subscribe to q1; o1 observes q2, and o2 does so quietly.  A view *)
(* under each statement is redefined by the change of the schema.  Commits *)
(* to a show in results that read a, those to b never do.                  *)
EXTENDS LiveQueries, TLC

CONSTANTS q1, q2, a, b, s1, s2, o1, o2

MCQueryOf == [s \in Subscribers |-> IF s \in {o1, o2} THEN q2 ELSE q1]
MCChanges == {[table |-> a, shows |-> TRUE], [table |-> b, shows |-> FALSE]}
MCReads ==
    [e \in 0 .. MaxEpoch |->
        [q \in Queries |-> CASE q = q1 /\ e = 0 -> {a} [] q = q1 /\ e # 0 -> {a, b}
                             [] q = q2 /\ e = 0 -> {b} [] OTHER -> {a}]]
=============================================================================
