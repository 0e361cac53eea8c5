----------------------------- MODULE MCHeartbeat -----------------------------
(* Heartbeat with two nodes and the strengths on both sides of each limit. *)
EXTENDS Heartbeat

CONSTANTS n1, n2
MCNodes == {n1, n2}
MCStrengths == {9, 10, 99}
=============================================================================
