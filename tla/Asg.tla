-------------------------------- MODULE Asg --------------------------------
(***************************************************************************)
(* The GPU auto-scaling group of one token-forge stack as the CLI sees it: *)
(* the two capacity requests of src/cli/aws.ts, what getAsgStatus lets a   *)
(* caller tell apart, the idle guard's Lambda and the EC2 side.  The group *)
(* never has more than one requested instance, so its instances are        *)
(* abstracted to the set of lifecycle states that are present.             *)
(***************************************************************************)
EXTENDS Naturals

CONSTANTS Nobody,   \* no session
          Guard     \* the idle guard, as the author of a capacity change

VARIABLES asg,      \* [min, desired, inst] of the group
          by        \* history: who last changed the desired capacity

Lifecycle == {"Pending", "InService", "Terminating"}

Group == [min : {0, 1}, desired : {0, 1}, inst : SUBSET Lifecycle]

EmptyGroup == [min |-> 0, desired |-> 0, inst |-> {}]

\* Fault: the zero request is a plain SetDesiredCapacity.
SetDesiredKeepsMin(g, n) == [g EXCEPT !.desired = n]

\* The zero request also drops the minimum; a request for one leaves it alone.
SetDesired(g, n) == IF n = 0 THEN [g EXCEPT !.min = 0, !.desired = 0]
                             ELSE [g EXCEPT !.desired = n]

SetCapacity(g, m, n) == [g EXCEPT !.min = m, !.desired = n]

\* Fault: the ownership test is left out.
NeverBusy(g) == FALSE

\* The ownership test on a getAsgStatus answer: pending and terminating
\* instances count as activity too.
Busy(g) == g.desired > 0 \/ g.inst # {}

\* w's request takes effect at the service.
Request(w, g) == /\ asg' = g
                 /\ by' = IF g.desired # asg.desired THEN w ELSE by

\* A call that fails at the caller: the request was lost, or only its answer was.
RequestFails(w, g) == Request(w, g) \/ UNCHANGED <<asg, by>>

\* EC2: a launch, possibly a replacement beside the old instance
\* (capacityRebalance); a launch coming into service; a spot interruption, a
\* failed launch or a scale-in; the end of a termination.
Launch == /\ asg.desired = 1
          /\ "Pending" \notin asg.inst
          /\ asg' = [asg EXCEPT !.inst = @ \cup {"Pending"}]
          /\ UNCHANGED by

EnterService == /\ "Pending" \in asg.inst
                /\ asg' = [asg EXCEPT !.inst = (@ \ {"Pending"}) \cup {"InService"}]
                /\ UNCHANGED by

Withdraw == /\ \E s \in {"Pending", "InService"} \cap asg.inst :
                  asg' = [asg EXCEPT !.inst = (@ \ {s}) \cup {"Terminating"}]
            /\ UNCHANGED by

Terminated == /\ "Terminating" \in asg.inst
              /\ asg' = [asg EXCEPT !.inst = @ \ {"Terminating"}]
              /\ UNCHANGED by

Ec2 == Launch \/ EnterService \/ Withdraw \/ Terminated
=============================================================================
