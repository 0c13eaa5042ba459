----------------------------- MODULE MCLeaderLog -----------------------------
(* LeaderLog for TLC: both durabilities of a small log. *)
EXTENDS LeaderLog

Both == {"strict", "relaxed"}
=============================================================================
