--------------------------- MODULE MCTransactions ---------------------------
(***************************************************************************)
(* A deferred writer, a folding writer and a reader, two of them at a      *)
(* time.  The two writers meet before anything lapses (up to MeetNow);     *)
(* either of them alone, and the reader with the folding writer, see the   *)
(* whole of the clock.  At most MaxLate requests are on their way          *)
(* unawaited at any time.                                                  *)
(***************************************************************************)
EXTENDS Transactions

CONSTANTS MaxLate, MeetNow

TakesPart(h) ==
    IF h \in Tx THEN client[h].pc # "idle"
    ELSE held[h].mode # "none" \/ \E n \in 0 .. MaxPins : leases[<<h, n>>] # NoLease

Scenario ==
    /\ \A r \in Readers, t \in Tx \ Folders : ~(TakesPart(r) /\ TakesPart(t))
    /\ (\A t \in Tx : TakesPart(t)) => Cardinality(Tx) = 1 \/ now <= MeetNow
    /\ Cardinality(UNION {late[t] : t \in Tx}) <= MaxLate
=============================================================================
