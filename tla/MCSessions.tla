----------------------------- MODULE MCSessions -----------------------------
(* Small instances of Sessions.  Each configuration picks its sessions; the    *)
(* host and the policy of a session are the definitions below.                 *)
EXTENDS Sessions

CONSTANTS r1, r2, u1, d1, h1

OneHost == [s \in Sessions |-> h1]
OnlineUps == [u \in Ups |-> "online"]
=============================================================================
