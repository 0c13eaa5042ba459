------------------------------ MODULE WriterTurn ------------------------------
(***************************************************************************)
(* What writer admission promises, free of how it is done: the writers of  *)
(* one database take turns, at most one of a group runs at a time, and a   *)
(* writer that steps aside or is lost with its tab never runs again.       *)
(* WriteCoordinator implements this with a promise chain per JavaScript    *)
(* context and a Web Lock across contexts (engine/write-coordinator.ts).   *)
(***************************************************************************)
CONSTANTS Writers,      \* calls of admitWriter
          GroupOf       \* the writers that exclude one another share a group

VARIABLE turn           \* turn[w] : where w is with respect to its turn

TurnStates == {"idle", "waiting", "running", "done"}

Init == turn = [w \in Writers |-> "idle"]

Running(g) == {w \in Writers : GroupOf[w] = g /\ turn[w] = "running"}

(* A writer asks for its turn. *)
Arrive(w) ==
    /\ turn[w] = "idle"
    /\ turn' = [turn EXCEPT ![w] = "waiting"]

(* A turn starts only when no writer of the group is inside one. *)
Start(w) ==
    /\ turn[w] = "waiting"
    /\ Running(GroupOf[w]) = {}
    /\ turn' = [turn EXCEPT ![w] = "running"]

(* A turn ends, or a waiting or never-arriving writer steps aside. *)
Leave(w) ==
    /\ turn[w] # "done"
    /\ turn' = [turn EXCEPT ![w] = "done"]

(* A JavaScript context is unloaded with every writer in it. *)
Lose(S) ==
    /\ S \subseteq Writers
    /\ turn' = [w \in Writers |-> IF w \in S THEN "done" ELSE turn[w]]

Next ==
    \/ \E w \in Writers : Arrive(w) \/ Start(w) \/ Leave(w)
    \/ \E S \in SUBSET Writers : Lose(S)

Spec == Init /\ [][Next]_turn
===============================================================================
