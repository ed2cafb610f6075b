------------------------------ MODULE MCAutoUp ------------------------------
(* Small instances of AutoUp.  Each configuration picks its sessions; the       *)
(* options of tkf down are the definitions below.                               *)
EXTENDS AutoUp, TLC

CONSTANTS a, b, c, u1, s1, d1

PlainDown == [d \in Downs |-> [region |-> Nobody, purge |-> FALSE]]
PurgeA == [d \in Downs |-> [region |-> a, purge |-> TRUE]]

\* Regions differ by their names only where no option of a down names one.
Alike == Permutations(Region)
=============================================================================
