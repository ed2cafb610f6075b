--------------------------- MODULE IdleGuardProofs ---------------------------
(***************************************************************************)
(* Proofs about IdleGuard: for every length of the idle window and any     *)
(* number of pending invocations.                                          *)
(***************************************************************************)
EXTENDS IdleGuard, TLAPS

Typed == /\ quiet \in 0..Periods /\ unheard \in 0..Periods
         /\ counted \in BOOLEAN /\ sent \subseteq {"answered", "failed"}

\* What was answered was counted, ...
AnswersCount == "answered" \in sent => counted

\* ... so that no period is quiet in which a session was heard.
QuietIsUnheard == quiet <= unheard

Inv == Typed /\ AnswersCount /\ QuietIsUnheard

LEMMA InitInv == Init => Inv
<1> SUFFICES ASSUME Init PROVE Inv OBVIOUS
<1>1. quiet = Periods /\ unheard = Periods /\ sent = {} /\ counted = FALSE BY DEF Init
<1>2. Typed
  <2>1. quiet \in 0..Periods /\ unheard \in 0..Periods BY <1>1, PeriodsAssumption
  <2>2. counted \in BOOLEAN /\ sent \subseteq {"answered", "failed"} BY <1>1, Zenon
  <2> QED BY <2>1, <2>2 DEF Typed
<1>3. QuietIsUnheard BY <1>1, PeriodsAssumption DEF QuietIsUnheard
<1>4. AnswersCount BY <1>1 DEF AnswersCount
<1> QED BY <1>2, <1>3, <1>4 DEF Inv

(* Only a period's end touches the two counters, and only a probe of the       *)
(* session what was sent.                                                      *)
LEMMA Steps ==
  ASSUME Inv, [Next]_vars
  PROVE \/ Tick
        \/ /\ UNCHANGED <<quiet, unheard>>
           /\ \/ \E o \in {"answered", "failed"} : Probed(o)
              \/ sent' = sent /\ counted' \in {counted, TRUE}
<1>1. ASSUME NEW k \in {"run", "up"}, Begin(k) PROVE UNCHANGED <<quiet, unheard, sent, counted>>
  BY <1>1 DEF Begin, metric, history
<1>2. CASE Probe BY <1>2 DEF Probe
<1>3. CASE Heartbeat BY <1>3 DEF Heartbeat
<1>4. CASE Request BY <1>4 DEF Request, history
<1>5. CASE Recover \/ End \/ Down \/ Ec2 BY <1>5 DEF Recover, End, Down, Ec2, metric, history
<1>6. CASE Guard BY <1>6 DEF Guard, Evaluate, Update, Publish, metric, history
<1>7. CASE UNCHANGED vars BY <1>7 DEF vars
<1> QED BY <1>1, <1>2, <1>3, <1>4, <1>5, <1>6, <1>7 DEF Next

LEMMA InvPreserved == Inv /\ [Next]_vars => Inv'
<1> SUFFICES ASSUME Inv, [Next]_vars PROVE Inv' OBVIOUS
<1> USE PeriodsAssumption
<1>1. CASE Tick
  <2>1. ASSUME NEW n \in 0..Periods PROVE OneMore(n) \in 0..Periods BY DEF OneMore
  <2>2. OneMore(quiet) <= OneMore(unheard) BY DEF Inv, Typed, QuietIsUnheard, OneMore
  <2>3. Typed'
    <3>1. quiet' \in 0..Periods /\ unheard' \in 0..Periods
      BY <1>1, <2>1 DEF Tick, Inv, Typed
    <3>2. counted' = FALSE /\ sent' = {} BY <1>1 DEF Tick
    <3>3. counted' \in BOOLEAN /\ sent' \subseteq {"answered", "failed"} BY <3>2, Zenon
    <3> QED BY <3>1, <3>3 DEF Typed
  <2>4. AnswersCount'
    <3>1. sent' = {} BY <1>1 DEF Tick
    <3> QED BY <3>1 DEF AnswersCount
  <2>5. QuietIsUnheard'
    <3>1. CASE counted BY <1>1, <2>3, <3>1 DEF Tick, Typed, QuietIsUnheard
    <3>2. CASE ~counted
      <4>1. "answered" \notin sent BY <3>2 DEF Inv, AnswersCount
      <4>2. Attended => sent = {"failed"} BY <1>1, <4>1 DEF Tick, HeartbeatDue, Inv, Typed
      <4>3. quiet' = OneMore(quiet) /\ unheard' = OneMore(unheard)
        BY <1>1, <3>2, <4>2 DEF Tick
      <4> QED BY <2>2, <4>3 DEF QuietIsUnheard
    <3> QED BY <3>1, <3>2
  <2> QED BY <2>3, <2>4, <2>5 DEF Inv
<1>2. CASE UNCHANGED <<quiet, unheard>> /\ \E o \in {"answered", "failed"} : Probed(o)
  <2> PICK o \in {"answered", "failed"} : Probed(o) BY <1>2
  <2>1. Typed' /\ QuietIsUnheard' BY <1>2 DEF Probed, Inv, Typed, QuietIsUnheard
  <2>2. AnswersCount'
    <3>1. CASE o = "answered" BY <3>1 DEF Probed, AnswersCount
    <3>2. CASE o = "failed"
      <4>1. "answered" \in sent' => "answered" \in sent BY <3>2 DEF Probed
      <4>2. counted => counted' = TRUE BY DEF Probed, Inv, Typed
      <4> QED BY <4>1, <4>2 DEF Inv, AnswersCount
    <3> QED BY <3>1, <3>2
  <2> QED BY <2>1, <2>2 DEF Inv
<1>3. CASE UNCHANGED <<quiet, unheard>> /\ sent' = sent /\ counted' \in {counted, TRUE}
  BY <1>3 DEF Inv, Typed, AnswersCount, QuietIsUnheard
<1> QED BY <1>1, <1>2, <1>3, Steps

LEMMA Invariant == Spec => []Inv
BY InitInv, InvPreserved, PTL DEF Spec

(* Probes and heartbeats keep the alarm quiet: it goes off only after a whole  *)
(* window without a period in which a session asked and was heard.             *)
THEOREM RunsAreNotIdle == Spec => NoAlarmWhileUsed
<1>1. Inv /\ [Next]_vars => [alarm # "ALARM" /\ alarm' = "ALARM" => unheard = Periods]_vars
  <2> SUFFICES ASSUME Inv, [Next]_vars, alarm # "ALARM", alarm' = "ALARM" PROVE unheard = Periods
    OBVIOUS
  <2>1. Evaluated = "ALARM"
    BY DEF Next, Begin, Probe, Heartbeat, Recover, Request, End, Down, Tick, Guard, Evaluate,
           Update, Publish, Ec2, metric, history, vars
  <2>2. quiet = Periods BY <2>1 DEF Evaluated
  <2> QED BY <2>2, PeriodsAssumption DEF Inv, Typed, QuietIsUnheard
<1> QED BY <1>1, Invariant, PTL DEF Spec, NoAlarmWhileUsed
=============================================================================
