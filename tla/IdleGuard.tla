------------------------------ MODULE IdleGuard ------------------------------
(***************************************************************************)
(* The idle guard of token-forge-stack.ts: an alarm on the request count   *)
(* of the load balancer, the rule that forwards its changes to ALARM, and  *)
(* the Lambda that lowers the group.  One session at a time uses the GPU:  *)
(* a tkf run with its heartbeat, or a tkf up and then a person.  What the  *)
(* sessions do besides is in Sessions.                                     *)
(***************************************************************************)
EXTENDS Naturals

CONSTANTS Periods,   \* idleMinutes / 5
          Slots      \* invocations of the Lambda that can be pending at once

ASSUME PeriodsAssumption == Periods \in Nat \ {0}

VARIABLES alarm,     \* the state of IdleAlarm
          quiet,     \* the latest complete periods without a request, up to Periods
          counted,   \* a request was counted in the current period
          stop,      \* per slot: [pc, tries] of a pending invocation of IdleStopFn
          asg,       \* [min, desired, inst] of the group
          session,   \* [pc, kind]
          sent,      \* outcomes of the session's own probes in the current period
          whole,     \* history: the session could be heard from the start of this period
          unheard    \* history: the latest complete periods, up to Periods, without a
                     \* session that asked and was heard all the time

vars == <<alarm, quiet, counted, stop, asg, session, sent, whole, unheard>>

metric == <<alarm, quiet, counted>>
history == <<sent, whole, unheard>>

NoSession == [pc |-> "off", kind |-> "none"]
Idle == [pc |-> "none", tries |-> 0]

\* A new stack, deployed by hand with a minimum of one or by the CLI with none.
Init ==
  /\ alarm = "INSUFFICIENT_DATA" /\ quiet = Periods /\ counted = FALSE
  /\ stop = [e \in Slots |-> Idle]
  /\ asg \in {[min |-> n, desired |-> n, inst |-> "none"] : n \in {0, 1}}
  /\ session = NoSession
  /\ sent = {} /\ whole = FALSE /\ unheard = Periods

----------------------------------------------------------------------------
(* The sessions *)

\* A request is counted only if the balancer has a target for it.
Registered == asg.inst \in {"booting", "serving"}

\* The session sends probes of its own: waitReady every 15 seconds, a run with a job
\* every minute.  A person who uses a GPU does not.
Asks == session.pc = "waiting" \/ (session.pc = "ready" /\ session.kind = "run")

SetDesired(n) == asg' = IF n = 0 THEN [asg EXCEPT !.min = 0, !.desired = 0]
                                 ELSE [asg EXCEPT !.desired = n]

\* A run refuses a group that is in use.
Begin(k) ==
  /\ session.pc = "off"
  /\ k = "run" => asg.desired = 0 /\ asg.inst = "none"
  /\ session' = [pc |-> "waiting", kind |-> k] /\ SetDesired(1)
  /\ UNCHANGED <<metric, stop, history>>

\* A probe is answered, or it fails and may or may not have reached the balancer.
Probed(o) == /\ sent' = sent \cup {o}
             /\ counted' \in {counted, TRUE} /\ (o = "answered" => counted')

\* A probe of waitReady: a server that answers is ready.
Probe ==
  /\ session.pc = "waiting" /\ Registered
  /\ \/ Probed("answered") /\ asg.inst = "serving" /\ session' = [session EXCEPT !.pc = "ready"]
     \/ Probed("answered") /\ asg.inst # "serving" /\ UNCHANGED session
     \/ Probed("failed") /\ UNCHANGED session
  /\ UNCHANGED <<alarm, quiet, stop, asg, whole, unheard>>

\* A heartbeat of a run; its failure is ignored.
Heartbeat ==
  /\ session = [pc |-> "ready", kind |-> "run"] /\ Registered
  /\ \E o \in {"answered", "failed"} : Probed(o)
  /\ UNCHANGED <<alarm, quiet, stop, asg, session, whole, unheard>>

Recover ==
  /\ session.pc = "waiting" /\ asg.desired = 0 /\ SetDesired(1)
  /\ UNCHANGED <<metric, stop, session, history>>

\* A request of the job or of a person
Request == /\ session.pc = "ready" /\ Registered /\ counted' = TRUE
           /\ UNCHANGED <<alarm, quiet, stop, asg, session, history>>

\* A run gives the GPU back, as does a wait that fails or a tkf down; a session that
\* dies, and a person who leaves, keep it on.
End == /\ session.pc # "off" /\ session' = NoSession
       /\ whole' = FALSE
       /\ SetDesired(0) \/ UNCHANGED asg
       /\ UNCHANGED <<metric, stop, sent, unheard>>

Down == asg.desired = 1 /\ SetDesired(0) /\ UNCHANGED <<metric, stop, session, history>>

----------------------------------------------------------------------------
(* The alarm *)

\* The session asked, and could be heard, from the start of the period.
Attended == whole /\ Asks

\* Fault: the heartbeat is slower than a period.
SlowHeartbeat == Attended /\ session.pc = "waiting"

\* What is sent every minute or more often is sent in every period of five.
HeartbeatDue == Attended

OneMore(n) == IF n < Periods THEN n + 1 ELSE n

\* A period ends.
Tick ==
  /\ HeartbeatDue => sent # {}
  /\ quiet' = IF counted THEN 0 ELSE OneMore(quiet)
  /\ unheard' = IF Attended /\ sent # {"failed"} THEN 0 ELSE OneMore(unheard)
  /\ counted' = FALSE /\ sent' = {} /\ whole' = (Asks /\ Registered)
  /\ UNCHANGED <<alarm, stop, asg, session>>

\* All of the latest periods breach; no data is a breach.
Evaluated == IF quiet = Periods THEN "ALARM" ELSE "OK"

\* Some time later the alarm is evaluated; only a change is an event, and the rule
\* forwards a change to ALARM.
Evaluate ==
  /\ Evaluated # alarm /\ alarm' = Evaluated
  /\ \/ Evaluated = "OK" /\ UNCHANGED stop
     \/ /\ Evaluated = "ALARM"
        /\ \E e \in Slots : stop[e] = Idle /\ stop' = [stop EXCEPT ![e].pc = "update"]
  /\ UNCHANGED <<quiet, counted, asg, session, history>>

----------------------------------------------------------------------------
(* The Lambda *)

\* Fault: the minimum is left alone, and a capacity below it is refused.
DesiredOnly == IF asg.min = 0 THEN [asg EXCEPT !.desired = 0] ELSE asg

Lowered == [asg EXCEPT !.min = 0, !.desired = 0]

\* A failed invocation is repeated twice, from its beginning.
Again(e) == IF stop[e].tries < 2 THEN [pc |-> "update", tries |-> stop[e].tries + 1] ELSE Idle

\* The event may be delivered late; the capacity request is accepted at the third
\* attempt at the latest.
Update(e) ==
  /\ stop[e].pc = "update"
  /\ \/ asg' = Lowered /\ stop' = [stop EXCEPT ![e].pc = "publish"]
     \/ Again(e) # Idle /\ stop' = [stop EXCEPT ![e] = Again(e)] /\ asg' \in {asg, Lowered}
  /\ UNCHANGED <<metric, session, history>>

Publish(e) ==
  /\ stop[e].pc = "publish" /\ stop' \in {[stop EXCEPT ![e] = Idle], [stop EXCEPT ![e] = Again(e)]}
  /\ UNCHANGED <<metric, asg, session, history>>

----------------------------------------------------------------------------
(* The environment *)

Ec2 ==
  /\ \E i \in {"none", "launching", "booting", "serving"} \ {asg.inst} :
       /\ i = "launching" => asg.desired = 1 /\ asg.inst = "none"
       /\ i = "booting" => asg.inst = "launching"
       /\ i = "serving" => asg.inst = "booting"
       /\ asg' = [asg EXCEPT !.inst = i] /\ whole' = (whole /\ i # "none")
  /\ UNCHANGED <<metric, stop, session, sent, unheard>>

Guard == Evaluate \/ \E e \in Slots : Update(e) \/ Publish(e)

Next == \/ (\E k \in {"run", "up"} : Begin(k)) \/ Probe \/ Heartbeat \/ Recover \/ Request \/ End \/ Down
        \/ Tick \/ Guard \/ Ec2

Spec == Init /\ [][Next]_vars

\* Time passes, the alarm is evaluated, events are delivered and the Lambda runs.  No
\* session needs to start, to go on or to end.
FairSpec == /\ Spec /\ WF_vars(Tick) /\ WF_vars(Evaluate)
            /\ \A e \in Slots : WF_vars(Update(e) \/ Publish(e))
----------------------------------------------------------------------------
(* Properties *)

\* The alarm changes to ALARM only after a window of Periods periods none of which a
\* session attended and was heard in: a wait with a registered instance, and a run
\* with a job, keep it quiet unless their probes failed for whole periods, whose
\* errors nobody looks at (up.ts:112,121, run.ts:42-44,132).
NoAlarmWhileUsed == [][alarm # "ALARM" /\ alarm' = "ALARM" => unheard = Periods]_vars

\* A GPU that nobody uses is switched off unless the alarm is in ALARM already: a
\* session that served a request and died, or a stack deployed with a minimum of one
\* (token-forge-stack.ts:326-329, README "backstop").
OrphanStopped ==
  asg.desired = 1 /\ session.pc = "off" /\ alarm # "ALARM" ~> asg.desired = 0 \/ session.pc # "off"
=============================================================================
