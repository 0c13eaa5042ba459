---------------------------- MODULE MCExtentSpace ----------------------------
(***************************************************************************)
(* The Long writer's extents take up to two units and may be relocated;    *)
(* the other writers' take one.                                            *)
(*                                                                         *)
(* Scenario bounds how much happens at once.  Extents of two units are     *)
(* built before the first publish; two writers are under way together up   *)
(* to the end of the first publish of the first opening, while no pin is   *)
(* held and the space has not failed; nothing fails while a pin is held or *)
(* after the last opening; and at most MaxReleases calls of free are in    *)
(* flight.                                                                 *)
(***************************************************************************)
EXTENDS ExtentSpace

CONSTANTS Long, MaxReleases

MCMaxUnits == [w \in Writers |-> IF w = Long THEN 2 ELSE 1]

Active == {w \in Writers : writers[w].state \notin {"new", "gone"}}
Large == {w \in Active : writers[w].state # "publishing" /\ Cardinality(Held(w)) > 1}
Failing == status = "failed" \/ \E w \in Writers : writers[w].failed
Pinned == \E p \in Pins : pins[p] # Unpinned

Scenario ==
    /\ Large # {} => Current.sequence = 0
    /\ Large # {} \/ Cardinality(Active) > 1 => generation = 0 /\ opens = 1 /\ ~Pinned
    /\ Cardinality(Active) > 1 => status # "failed"
    /\ Failing => ~Pinned /\ opens < MaxOpens
    /\ Cardinality(releasing) <= MaxReleases
=============================================================================
