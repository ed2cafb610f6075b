--------------------------- MODULE MCStackUpdates ---------------------------
(* A small instance of StackUpdates: an address alone, one with a mask and one  *)
(* with a mask out of range; idle windows below, at and off the steps.          *)
EXTENDS StackUpdates, TLC

CONSTANTS p1, p2, home, zone

MCCidrLists == {<<>>, <<[ip |-> home, mask |-> Unset]>>, <<[ip |-> home, mask |-> 33]>>}
Alike == Permutations(Clis)
=============================================================================
