-------------------------- MODULE MCWriteCoordinator --------------------------
(* Two tabs that share Web Locks and a context without them.  k1 is the     *)
(* connection of the first tab, k3 of the second, k4 of the third context;  *)
(* w3 is a compaction publication, admitted on the maintenance signal.      *)
EXTENDS WriteCoordinator, TLC

CONSTANTS c1, c2, c3, k1, k3, k4, w1, w3, w4, w5

MCContextOf == (k1 :> c1) @@ (k3 :> c2) @@ (k4 :> c3)
MCConnectionOf == (w1 :> k1) @@ (w3 :> k3) @@ (w4 :> k1) @@ (w5 :> k4)
===============================================================================
