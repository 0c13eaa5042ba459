------------------------- MODULE TransactionOutcome -------------------------
(***************************************************************************)
(* What a writer may rely on, whatever the store loses: a transaction is   *)
(* published at most once, its caller is told that it committed only once  *)
(* it is published, and told that it failed only if it never is, not even  *)
(* after the answer.  An uncertain answer promises nothing.                *)
(***************************************************************************)
CONSTANT Tx
VARIABLES published, told

Init == published = {} /\ told = [t \in Tx |-> "nothing"]

Publish(t) ==
    /\ t \notin published /\ told[t] \in {"nothing", "uncertain"}
    /\ published' = published \cup {t}
    /\ UNCHANGED told

Tell(t) ==
    /\ told[t] = "nothing"
    /\ \E answer \in {"committed", "failed", "uncertain"} :
          /\ answer = "committed" => t \in published
          /\ answer = "failed" => t \notin published
          /\ told' = [told EXCEPT ![t] = answer]
    /\ UNCHANGED published

\* A commit whose answer arrives.
PublishAndTell(t) ==
    /\ t \notin published /\ told[t] = "nothing"
    /\ published' = published \cup {t}
    /\ told' = [told EXCEPT ![t] = "committed"]

Next == \E t \in Tx : Publish(t) \/ Tell(t) \/ PublishAndTell(t)

Spec == Init /\ [][Next]_<<published, told>>
=============================================================================
