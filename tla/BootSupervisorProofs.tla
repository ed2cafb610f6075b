------------------------- MODULE BootSupervisorProofs -------------------------
(***************************************************************************)
(* Proofs about BootSupervisor and BootReport.  The invariant lists the    *)
(* places the main thread passes through, in both modes, with the jobs     *)
(* that are active and those not yet started there, and ties the phase     *)
(* events to them.  For the report a second one says what the written      *)
(* events tell of the phases, and that a boot on the way to READY has      *)
(* written each event once and in order.                                   *)
(***************************************************************************)
EXTENDS BootReport, WellFoundedInduction, TLAPS

(* A place: what is still to be done, the jobs active, those not yet started. *)
At(t, a, ahead) == [todo |-> t, active |-> a, ahead |-> ahead]

P0 == At(<<"weights", "image", "await", "container", "await", "health">>, <<>>, Started)
P1 == At(<<"image", "await", "container", "await", "health">>, <<"weights">>, {"image", "container"})
S0 == At(<<"weights", "await", "image", "await", "await", "container", "await", "health">>, <<>>, Started)
S1 == At(<<"await", "image", "await", "await", "container", "await", "health">>, <<"weights">>, {"image", "container"})
S2 == At(<<"await", "image", "await", "await", "container", "await", "health">>, <<>>, {"image", "container"})
S3 == At(<<"image", "await", "await", "container", "await", "health">>, <<>>, {"image", "container"})
S4 == At(<<"await", "await", "container", "await", "health">>, <<"image">>, {"container"})
S5 == At(<<"await", "await", "container", "await", "health">>, <<>>, {"container"})
B1 == At(<<"await", "container", "await", "health">>, <<"weights", "image">>, {"container"})
B2 == At(<<"await", "container", "await", "health">>, <<"weights">>, {"container"})
B3 == At(<<"await", "container", "await", "health">>, <<"image">>, {"container"})
B4 == At(<<"await", "container", "await", "health">>, <<>>, {"container"})
B5 == At(<<"container", "await", "health">>, <<>>, {"container"})
B6 == At(<<"await", "health">>, <<"container">>, {})
B7 == At(<<"await", "health">>, <<>>, {})
B8 == At(<<"health">>, <<>>, {})

Spots == {P0, P1, S0, S1, S2, S3, S4, S5, B1, B2, B3, B4, B5, B6, B7, B8}


Trying == {"run", "poll", "health", "probe"}
Ending == {"cleanup", "done"}

Leaders == {"none", "running", "ok", "failed"}
Statuses == {"none", "start"} \cup Closed

Typed == /\ pc \in Trying \cup {"begin", "except", "status"} \cup Ending
         /\ jobs \in [Jobs -> [leader : Leaders, kids : BOOLEAN, cache : BOOLEAN]]
         /\ phase \in [Phases -> Statuses]
         /\ cancel \in BOOLEAN

\* Processes of the job's group are there.
Live(job) == job.leader = "running" \/ job.kids

\* The events and the jobs agree with the sets of jobs not started and active.
Pace(ahead, on) ==
  \A j \in Started :
    /\ j \in ahead => phase[j] = "none" /\ jobs[j] = NoJob
    /\ j \in on => phase[j] = "start"
    /\ j \notin ahead \cup on =>
         phase[j] = "complete" /\ ~Live(jobs[j]) /\ (j \in Prepare => j \in seen)

Beginning == pc = "begin" => active = <<>> /\ Pace(Started, {}) /\ phase["health"] = "none"

OnWay == pc \in {"run", "poll"} =>
           /\ phase["health"] = "none"
           /\ \E s \in Spots : todo = s.todo /\ active = s.active /\ Pace(s.ahead, Range(active))

\* A pass of await_jobs visits jobs that are active.
Passes == pc = "poll" =>
            /\ Head(todo) = "await"
            /\ left \in {<<"weights">>, <<"image">>, <<"container">>, <<"weights", "image">>}
            /\ Range(left) \subseteq Range(active)

Probing ==
  /\ pc \in {"health", "probe"} =>
       Pace({}, {}) /\ active = IF pc = "probe" THEN <<"probe">> ELSE <<>>
  /\ pc = "done" => active = <<>>

\* What runs is in `active`, where cleanup finds it.
Listed == \A j \in Jobs : Live(jobs[j]) => j \in Range(active)

\* An active job has been announced.
Announced == \A j \in Started \cap Range(active) : phase[j] # "none"

\* A preparation that ended well has written its cache file.
CacheFirst == \A j \in Prepare : jobs[j].leader = "ok" => jobs[j].cache

BothBefore == phase["container"] # "none" =>
  \A j \in Prepare : phase[j] = "complete" /\ ~Live(jobs[j]) /\ j \in seen /\ j \notin Range(active)

Unstarted(p) == p \in Started /\ jobs[p].leader = "none"

\* An open phase will be closed by the except block, or had no process.
Outcomes == \A p \in Phases : phase[p] = "start" =>
              \/ Unstarted(p)
              \/ pc \notin {"status"} \cup Ending /\ p \in Range(active) \cup {"boot", "health"}

Judged ==
  /\ pc \notin {"status"} \cup Ending => code = "one" /\ phase["boot"] = "start"
  /\ pc = "status" => /\ phase["boot"] \in {"cancelled", "timeout", "failed"}
                      /\ phase["boot"] = "cancelled" => cancel
  /\ pc \in Ending =>
       /\ phase["boot"] \in {"ready", "cancelled", "timeout", "failed"}
       /\ code = "zero" <=> phase["boot"] = "ready"
       /\ phase["boot"] = "ready" =>
            phase["health"] = "ready" /\ \A j \in Started : phase[j] = "complete"
       /\ phase["boot"] = "cancelled" => code = "signal"

Inv == Typed /\ Beginning /\ OnWay /\ Passes /\ Probing /\ Listed /\ Announced
       /\ CacheFirst /\ BothBefore /\ Outcomes /\ Judged
-----------------------------------------------------------------------------
(* The places *)

LEMMA RangeOf ==
  /\ Range(<<>>) = {}
  /\ \A a : Range(<<a>>) = {a}
  /\ \A a, b : Range(<<a, b>>) = {a, b}
  BY DEF Range

(* Taking a job out of `active` *)
LEMMA WithoutOne == ASSUME NEW a, active = <<a>> PROVE Without(a) = <<>>
  BY DEF Without

LEMMA WithoutOfTwo ==
  ASSUME NEW a, NEW b, a # b, active = <<a, b>>
  PROVE Without(a) = <<b>> /\ Without(b) = <<a>>
<1>1. (CHOOSE k \in DOMAIN active : active[k] = a) = 1 OBVIOUS
<1>2. (CHOOSE k \in DOMAIN active : active[k] = b) = 2 OBVIOUS
<1>3. Without(a) = <<b>> BY <1>1 DEF Without
<1>4. Without(b) = <<a>> BY <1>2 DEF Without
<1> QED BY <1>3, <1>4

LEMMA PlanSpot == \A mode \in {"serial", "parallel"} : At(Plan(mode), <<>>, Started) \in Spots
  BY DEF Plan, Spots, At, P0, S0

LEMMA Heads ==
  /\ \A s \in {P0, S0} : Head(s.todo) = "weights"
  /\ \A s \in {P1, S3} : Head(s.todo) = "image"
  /\ Head(B5.todo) = "container"
  /\ Head(B8.todo) = "health"
  /\ \A s \in Spots \ {P0, S0, P1, S3, B5, B8} : Head(s.todo) = "await"
  BY DEF Spots, P0, P1, S0, S1, S2, S3, S4, S5, B1, B2, B3, B4, B5, B6, B7, B8, At

Launched(s, j) == At(Tail(s.todo), Append(s.active, j), s.ahead \ {j})
LEMMA Launches ==
  /\ Launched(P0, "weights") = P1
  /\ Launched(P1, "image") = B1
  /\ Launched(S0, "weights") = S1
  /\ Launched(S3, "image") = S4
  /\ Launched(B5, "container") = B6
<1>1. Launched(P0, "weights") = P1 BY DEF Launched, At, P0, P1, Started, Prepare
<1>2. Launched(P1, "image") = B1 BY DEF Launched, At, P1, B1
<1>3. Launched(S0, "weights") = S1 BY DEF Launched, At, S0, S1, Started, Prepare
<1>4. Launched(S3, "image") = S4 BY DEF Launched, At, S3, S4
<1>5. Launched(B5, "container") = B6 BY DEF Launched, At, B5, B6
<1> QED BY <1>1, <1>2, <1>3, <1>4, <1>5

Awaited(s) == At(Tail(s.todo), <<>>, s.ahead)
LEMMA Awaits ==
  /\ Awaited(S2) = S3
  /\ Awaited(S5) = B4
  /\ Awaited(B4) = B5
  /\ Awaited(B7) = B8
  BY DEF Awaited, At, S2, S3, S5, B4, B5, B7, B8

Actives == {<<>>, <<"weights">>, <<"image">>, <<"container">>, <<"weights", "image">>}

LEMMA ActiveAt ==
  /\ \A s \in {P0, S0, S2, S3, S5, B4, B5, B7, B8} : s.active = <<>>
  /\ \A s \in {P1, S1, B2} : s.active = <<"weights">>
  /\ \A s \in {S4, B3} : s.active = <<"image">>
  /\ B1.active = <<"weights", "image">>
  /\ B6.active = <<"container">>
  BY DEF P0, P1, S0, S1, S2, S3, S4, S5, B1, B2, B3, B4, B5, B6, B7, B8, At

LEMMA SpotShape ==
  ASSUME NEW s \in Spots
  PROVE /\ s.active \in Actives
        /\ s.ahead \cap Range(s.active) = {}
  BY RangeOf DEF Spots, P0, P1, S0, S1, S2, S3, S4, S5, B1, B2, B3, B4, B5, B6, B7, B8, At,
                 Started, Prepare, Actives

(* Starting a job leads from a place to a place; the container is started at   *)
(* the place where both preparations are done.                                 *)
LEMMA LaunchSpot ==
  ASSUME NEW s \in Spots, NEW j \in Started, Head(s.todo) = j
  PROVE /\ Launched(s, j) \in Spots
        /\ Range(Append(s.active, j)) = Range(s.active) \cup {j}
        /\ j \in s.ahead
        /\ j = "container" => s.active = <<>> /\ s.ahead = {"container"}
<1>1. \/ s \in {P0, S0} /\ j = "weights"
      \/ s \in {P1, S3} /\ j = "image"
      \/ s = B5 /\ j = "container"
  BY Heads DEF Spots, Started, Prepare
<1>2. Launched(s, j) \in Spots BY <1>1, Launches DEF Spots
<1>3. \/ s.active = <<>>
      \/ s.active = <<"weights">> /\ j = "image"
  BY <1>1 DEF P0, S0, P1, S3, B5, At
<1>4. Range(Append(s.active, j)) = Range(s.active) \cup {j}
  <2>1. CASE s.active = <<>>
    <3>1. Append(<<>>, j) = <<j>> OBVIOUS
    <3> QED BY <2>1, <3>1, RangeOf
  <2>2. CASE s.active = <<"weights">> /\ j = "image"
    <3>1. P1.active = <<"weights">> /\ B1.active = <<"weights", "image">> BY ActiveAt
    <3>2. Launched(P1, "image").active = Append(P1.active, "image") BY DEF Launched, At
    <3>3. Append(<<"weights">>, "image") = <<"weights", "image">> BY <3>1, <3>2, Launches
    <3>4. Range(<<"weights", "image">>) = {"weights", "image"} /\ Range(<<"weights">>) = {"weights"}
      BY RangeOf
    <3>5. Append(s.active, j) = <<"weights", "image">> BY <2>2, <3>3
    <3> QED BY <2>2, <3>4, <3>5
  <2> QED BY <1>3, <2>1, <2>2
<1>5. j \in s.ahead BY <1>1 DEF P0, S0, P1, S3, B5, At, Started, Prepare
<1>6. j = "container" => s.active = <<>> /\ s.ahead = {"container"} BY <1>1 DEF B5, At
<1> QED BY <1>2, <1>4, <1>5, <1>6

LEMMA AwaitSpot ==
  ASSUME NEW s \in Spots, Head(s.todo) = "await", s.active = <<>>
  PROVE Awaited(s) \in Spots
<1>1. s \in {S1, S2, S4, S5, B1, B2, B3, B4, B6, B7} BY Heads DEF Spots
<1>2. s \in {S2, S5, B4, B7}
  <2>1. \A a, b : <<a>> # <<>> /\ <<a, b>> # <<>> OBVIOUS
  <2> QED BY <1>1, <2>1, ActiveAt
<1> QED BY <1>2, Awaits DEF Spots

(* A job that has ended leaves its place for another one. *)
LEMMA PollSpot ==
  ASSUME NEW s \in Spots, Head(s.todo) = "await", active = s.active,
         NEW j \in Range(active)
  PROVE /\ At(s.todo, Without(j), s.ahead) \in Spots
        /\ Range(Without(j)) = Range(active) \ {j}
<1>1. s \in {S1, S2, S4, S5, B1, B2, B3, B4, B6, B7}
  BY Heads DEF Spots
<1>2. CASE s \in {S2, S5, B4, B7} BY <1>2, ActiveAt, RangeOf
<1>3. CASE s \in {S1, S4, B2, B3, B6}
  <2>1. active = <<j>>
    <3>1. PICK a : active = <<a>> BY <1>3, ActiveAt
    <3> QED BY <3>1, RangeOf
  <2>2. Without(j) = <<>> BY <2>1, WithoutOne
  <2>3. At(s.todo, <<>>, s.ahead) \in {S2, S5, B4, B7}
    <3>1. CASE s = S1 BY <3>1 DEF S1, S2, At
    <3>2. CASE s = S4 BY <3>2 DEF S4, S5, At
    <3>3. CASE s = B2 BY <3>3 DEF B2, B4, At
    <3>4. CASE s = B3 BY <3>4 DEF B3, B4, At
    <3>5. CASE s = B6 BY <3>5 DEF B6, B7, At
    <3> QED BY <1>3, <3>1, <3>2, <3>3, <3>4, <3>5
  <2> QED BY <2>1, <2>2, <2>3, RangeOf DEF Spots
<1>4. CASE s = B1
  <2>1. active = <<"weights", "image">> BY <1>4, ActiveAt
  <2>2. j \in {"weights", "image"} BY <2>1, RangeOf
  <2>3. "weights" # "image" OBVIOUS
  <2>4. Without("weights") = <<"image">> /\ Without("image") = <<"weights">>
    BY <2>1, <2>3, WithoutOfTwo
  <2>5. At(s.todo, <<"weights">>, s.ahead) = B2 /\ At(s.todo, <<"image">>, s.ahead) = B3
    BY <1>4 DEF B1, B2, B3, At
  <2> QED BY <2>1, <2>2, <2>3, <2>4, <2>5, RangeOf DEF Spots
<1> QED BY <1>1, <1>2, <1>3, <1>4

LEMMA HealthSpot ==
  ASSUME NEW s \in Spots, Head(s.todo) = "health"
  PROVE s.active = <<>> /\ s.ahead = {}
  BY Heads DEF Spots, B8, At

-----------------------------------------------------------------------------
(* Steps *)

Job == [leader : Leaders, kids : BOOLEAN, cache : BOOLEAN]

LEMMA InitInv == Init => Inv
<1> SUFFICES ASSUME Init PROVE Inv OBVIOUS
<1> USE DEF Init
<1>1. Typed
  BY DEF Typed, NoJob, Leaders, Statuses, Closed, Jobs, Phases, Started, Prepare
<1>2. \A j \in Jobs : jobs[j] = NoJob /\ ~Live(jobs[j]) /\ jobs[j].leader = "none"
  BY DEF Live, NoJob
<1>3. Beginning BY DEF Beginning, Pace, Jobs, Phases, Started, Prepare
<1>4. Listed /\ CacheFirst BY <1>2 DEF Listed, CacheFirst, NoJob, Jobs, Started
<1>5. BothBefore /\ Outcomes /\ Judged
  BY DEF BothBefore, Outcomes, Judged, Phases, Started, Prepare, Ending
<1>6. OnWay /\ Passes /\ Probing BY DEF OnWay, Passes, Probing
<1>7. Announced BY RangeOf DEF Announced
<1> QED BY <1>1, <1>3, <1>4, <1>5, <1>6, <1>7 DEF Inv

(* What a job does by itself: one that is over stays as it is, and none begins. *)
LEMMA JobMoves ==
  ASSUME Typed, CacheFirst, NEW j \in Jobs, JobStep(j)
  PROVE /\ jobs' \in [Jobs -> Job]
        /\ \A k \in Jobs : ~Live(jobs[k]) => jobs'[k] = jobs[k]
        /\ \A k \in Jobs : jobs'[k].leader = "none" <=> jobs[k].leader = "none"
        /\ CacheFirst'
<1>1. jobs \in [Jobs -> Job] BY DEF Typed, Job
<1>2. PICK new : /\ new \in Job /\ jobs' = [jobs EXCEPT ![j] = new]
                 /\ new.leader = "none" <=> jobs[j].leader = "none"
                 /\ j \in Prepare /\ new.leader = "ok" => new.cache
  <2>1. jobs[j] \in Job BY <1>1
  <2>2. CASE jobs' = [jobs EXCEPT ![j].kids = TRUE] \/ jobs' = [jobs EXCEPT ![j].kids = FALSE]
    <3>1. PICK b \in BOOLEAN : jobs' = [jobs EXCEPT ![j] = [jobs[j] EXCEPT !.kids = b]] BY <2>2
    <3>2. [jobs[j] EXCEPT !.kids = b] \in Job BY <2>1 DEF Job
    <3>3. /\ [jobs[j] EXCEPT !.kids = b].leader = jobs[j].leader
          /\ [jobs[j] EXCEPT !.kids = b].cache = jobs[j].cache
      BY <2>1 DEF Job
    <3>4. j \in Prepare /\ jobs[j].leader = "ok" => jobs[j].cache BY DEF CacheFirst
    <3> QED BY <3>1, <3>2, <3>3, <3>4
  <2>3. CASE j \in Prepare /\ jobs' = [jobs EXCEPT ![j].cache = TRUE]
    <3>1. jobs' = [jobs EXCEPT ![j] = [jobs[j] EXCEPT !.cache = TRUE]] BY <2>3
    <3>2. [jobs[j] EXCEPT !.cache = TRUE] \in Job BY <2>1 DEF Job
    <3> QED BY <2>1, <3>1, <3>2 DEF CacheFirst, Job
  <2>4. CASE /\ jobs[j].leader = "running"
             /\ \/ (j \in Prepare => jobs[j].cache) /\ jobs' = [jobs EXCEPT ![j].leader = "ok"]
                \/ jobs' = [jobs EXCEPT ![j].leader = "failed"]
    <3>1. PICK l \in {"ok", "failed"} :
            /\ jobs' = [jobs EXCEPT ![j] = [jobs[j] EXCEPT !.leader = l]]
            /\ l = "ok" /\ j \in Prepare => jobs[j].cache
      BY <2>4
    <3>2. [jobs[j] EXCEPT !.leader = l] \in Job BY <2>1 DEF Job, Leaders
    <3> QED BY <2>1, <2>4, <3>1, <3>2 DEF Job
  <2> QED BY <2>2, <2>3, <2>4 DEF JobStep
<1>3. Live(jobs[j]) BY DEF JobStep, Live
<1>4. CacheFirst' BY <1>1, <1>2 DEF CacheFirst, Jobs, Started
<1> QED BY <1>1, <1>2, <1>3, <1>4

LEMMA QuietSteps ==
  ASSUME Inv, (\E j \in Jobs : JobStep(j)) \/ Signal \/ Expire \/ UNCHANGED vars
  PROVE Inv'
<1>1. UNCHANGED <<pc, todo, left, active, phase, seen, code>> /\ (cancel => cancel')
  BY DEF JobStep, Signal, Expire, vars
<1>2. /\ jobs' \in [Jobs -> Job] /\ CacheFirst'
      /\ \A k \in Jobs : ~Live(jobs[k]) => jobs'[k] = jobs[k]
      /\ \A k \in Jobs : jobs'[k].leader = "none" <=> jobs[k].leader = "none"
  BY JobMoves DEF Inv, Typed, Job, Signal, Expire, vars, CacheFirst
<1>3. \A k \in Jobs : ~Live(jobs[k]) => ~Live(jobs'[k]) BY <1>2
<1>4. ~Live(NoJob) BY DEF Live, NoJob
<1>5. Started \subseteq Jobs /\ Prepare \subseteq Jobs BY DEF Jobs, Started
<1>6. \A a, o : Pace(a, o) => Pace(a, o)' BY <1>1, <1>2, <1>4, <1>5 DEF Pace
<1>7. Typed'
  <2>1. cancel' \in BOOLEAN BY DEF Inv, Typed, JobStep, Signal, Expire, vars
  <2> QED BY <1>1, <1>2, <2>1 DEF Inv, Typed, Job
<1>8. Beginning' BY <1>1, <1>6 DEF Inv, Beginning
<1>9. OnWay' BY <1>1, <1>6 DEF Inv, OnWay
<1>10. Passes' /\ Judged' /\ Announced' BY <1>1 DEF Inv, Passes, Judged, Announced
<1>11. Probing' BY <1>1, <1>6 DEF Inv, Probing
<1>12. Listed' BY <1>1, <1>3 DEF Inv, Listed
<1>13. BothBefore' BY <1>1, <1>3, <1>5 DEF Inv, BothBefore
<1>14. Outcomes' BY <1>1, <1>2, <1>5 DEF Inv, Outcomes, Unstarted
<1> QED BY <1>2, <1>7, <1>8, <1>9, <1>10, <1>11, <1>12, <1>13, <1>14 DEF Inv

(* Leaving the try block with nothing else changed *)
LEMMA Raised ==
  ASSUME Inv, pc \in Trying \cup {"begin"}, pc' = "except",
         UNCHANGED <<active, jobs, phase, code, cancel>>, seen \subseteq seen'
  PROVE Inv'
<1>1. Typed' BY DEF Inv, Typed
<1>2. Beginning' /\ OnWay' /\ Passes' /\ Probing' BY DEF Beginning, OnWay, Passes, Probing
<1>3. Listed' /\ Announced' /\ CacheFirst' /\ BothBefore'
  BY DEF Inv, Listed, Announced, CacheFirst, BothBefore
<1>4. Outcomes' BY DEF Inv, Outcomes, Unstarted, Trying, Ending
<1>5. Judged' BY DEF Inv, Judged, Trying, Ending
<1> QED BY <1>1, <1>2, <1>3, <1>4, <1>5 DEF Inv

LEMMA BeginStep == ASSUME Inv, Begin PROVE Inv'
<1>1. CASE pc' = "except" BY <1>1, Raised DEF Begin
<1>2. CASE /\ pc' = "run" /\ \E mode \in {"serial", "parallel"} : todo' = Plan(mode)
  <2>1. UNCHANGED <<left, active, jobs, phase, seen, cancel, late, code, error>>
    BY <1>2 DEF Begin, Raise, Continue
  <2>2. active = <<>> /\ Pace(Started, {}) /\ phase["health"] = "none"
    BY DEF Inv, Beginning, Begin
  <2>3. Typed' BY <1>2, <2>1 DEF Inv, Typed, Trying
  <2>4. Beginning' /\ Passes' /\ Probing' BY <1>2 DEF Beginning, Passes, Probing
  <2>5. OnWay'
    <3>1. PICK mode \in {"serial", "parallel"} : todo' = Plan(mode) BY <1>2
    <3>2. At(Plan(mode), <<>>, Started) \in Spots BY PlanSpot
    <3>3. Pace(Started, Range(<<>>))' BY <2>1, <2>2, RangeOf DEF Pace
    <3> DEFINE s == At(Plan(mode), <<>>, Started)
    <3>4. todo' = s.todo /\ active' = s.active /\ Pace(s.ahead, Range(active))'
      BY <2>1, <2>2, <3>1, <3>3 DEF At
    <3> HIDE DEF s
    <3> QED BY <1>2, <2>1, <2>2, <3>2, <3>4 DEF OnWay, s
  <2>6. Listed' /\ Announced' /\ CacheFirst' /\ BothBefore'
    BY <2>1 DEF Inv, Listed, Announced, CacheFirst, BothBefore
  <2>7. Outcomes' BY <1>2, <2>1 DEF Inv, Outcomes, Unstarted, Ending, Begin
  <2>8. Judged' BY <1>2, <2>1 DEF Inv, Judged, Ending, Begin
  <2> QED BY <2>3, <2>4, <2>5, <2>6, <2>7, <2>8 DEF Inv
<1> QED BY <1>1, <1>2 DEF Begin, Raise, Continue

LEMMA LaunchStep == ASSUME Inv, NEW j \in Started, Launch(j) PROVE Inv'
<1>1. PICK s \in Spots : todo = s.todo /\ active = s.active /\ Pace(s.ahead, Range(active))
  BY DEF Inv, OnWay, Launch, Doing
<1>2. /\ Launched(s, j) \in Spots
      /\ Range(Append(active, j)) = Range(active) \cup {j}
      /\ j \in s.ahead
      /\ j = "container" => active = <<>> /\ s.ahead = {"container"}
  BY <1>1, LaunchSpot DEF Launch, Doing
<1>3. phase[j] = "none" /\ jobs[j] = NoJob BY <1>1, <1>2 DEF Pace
<1>4. /\ phase' = [phase EXCEPT ![j] = "start"] /\ pc = "run" /\ seen \subseteq seen'
      /\ UNCHANGED <<cancel, late, code>>
  BY DEF Launch, Doing, Noted, Observed
<1>5. j \in Jobs /\ j \in Phases /\ j # "boot" /\ j # "health" /\ j # "probe"
  BY DEF Jobs, Phases, Started, Prepare
<1>6. /\ phase' \in [Phases -> Statuses] /\ phase'[j] = "start"
      /\ \A p \in Phases \ {j} : phase'[p] = phase[p]
      /\ phase'["boot"] = phase["boot"] /\ phase'["health"] = phase["health"]
  BY <1>4, <1>5 DEF Inv, Typed, Statuses, Phases
<1>7. BothBefore' \/ ~(\A k \in Prepare : jobs'[k] = jobs[k] \/ k = j)
                  \/ Range(active') \notin {Range(active), Range(active) \cup {j}}
  <2> SUFFICES ASSUME phase'["container"] # "none",
                      \A k \in Prepare : jobs'[k] = jobs[k] \/ k = j,
                      Range(active') \in {Range(active), Range(active) \cup {j}},
                      NEW k \in Prepare
               PROVE phase'[k] = "complete" /\ ~Live(jobs'[k]) /\ k \in seen'
                     /\ k \notin Range(active')
    BY DEF BothBefore
  <2>1. CASE j = "container"
    <3>1. Range(active) = {} /\ k # j /\ k \in Phases /\ k \in Started
      BY <1>2, <2>1, RangeOf DEF Prepare, Phases, Started
    <3>2. phase[k] = "complete" /\ ~Live(jobs[k]) /\ k \in seen
      BY <1>1, <1>2, <2>1, <3>1 DEF Pace, Prepare
    <3> QED BY <1>4, <1>6, <2>1, <3>1, <3>2
  <2>2. CASE j # "container"
    <3>1. j \in Prepare /\ phase["container"] # "none"
      BY <1>4, <1>6, <2>2 DEF Started, Phases
    <3>2. phase[j] = "complete" BY <3>1 DEF Inv, BothBefore
    <3> QED BY <1>3, <3>2
  <2> QED BY <2>1, <2>2
<1>8. Judged' \/ pc' \in {"status"} \cup Ending
  BY <1>4, <1>6 DEF Inv, Judged, Ending
<1>9. CASE Spawned(j) /\ todo' = Tail(todo) /\ Continue("run")
  <2> DEFINE r == [NoJob EXCEPT !.leader = "running"]
  <2>1. pc' = "run" /\ jobs' = [jobs EXCEPT ![j] = r] /\ active' = Append(active, j)
        /\ todo' = Tail(todo)
    BY <1>9 DEF Spawned, Continue
  <2>2. r \in Job /\ r.leader = "running" /\ r.leader # "ok"
    BY DEF NoJob, Job, Leaders
  <2> HIDE DEF r
  <2>3. /\ jobs' \in [Jobs -> Job] /\ jobs'[j] = r
        /\ \A k \in Jobs \ {j} : jobs'[k] = jobs[k]
    BY <1>5, <2>1, <2>2 DEF Inv, Typed, Job
  <2>4. Range(active') = Range(active) \cup {j} BY <1>2, <2>1
  <2>5. Started \subseteq Jobs /\ Prepare \subseteq Jobs /\ Started \subseteq Phases
    BY DEF Jobs, Started, Phases
  <2>6. Typed' BY <1>4, <1>6, <2>1, <2>3 DEF Inv, Typed, Trying, Job
  <2>7. Beginning' /\ Passes' /\ Probing' BY <2>1 DEF Beginning, Passes, Probing
  <2>8. Pace(s.ahead \ {j}, Range(active))'
    BY <1>1, <1>4, <1>6, <2>3, <2>4, <2>5 DEF Pace
  <2>9. OnWay'
    <3>1. /\ todo' = Launched(s, j).todo /\ active' = Launched(s, j).active
          /\ Launched(s, j).ahead = s.ahead \ {j}
      BY <1>1, <2>1 DEF Launched, At
    <3> QED BY <1>2, <1>4, <1>6, <2>8, <3>1 DEF Inv, OnWay
  <2>10. Listed' /\ Announced' BY <1>6, <2>3, <2>4, <2>5 DEF Inv, Listed, Announced
  <2>11. CacheFirst' BY <2>2, <2>3, <2>5 DEF Inv, CacheFirst
  <2>12. BothBefore' BY <1>7, <2>3, <2>4, <2>5
  <2>13. Outcomes' BY <1>4, <1>6, <2>1, <2>3, <2>4, <2>5 DEF Inv, Outcomes, Unstarted, Ending
  <2> QED BY <1>8, <2>1, <2>6, <2>7, <2>9, <2>10, <2>11, <2>12, <2>13 DEF Inv, Ending
<1>10. CASE Raise("failed") /\ UNCHANGED <<todo, active, jobs>>
  <2>1. pc' = "except" /\ UNCHANGED <<active, jobs>> BY <1>10 DEF Raise
  <2>2. Typed' BY <1>4, <1>6, <2>1 DEF Inv, Typed
  <2>3. Beginning' /\ OnWay' /\ Passes' /\ Probing' BY <2>1 DEF Beginning, OnWay, Passes, Probing
  <2>4. Listed' /\ Announced' /\ CacheFirst'
    BY <1>6, <2>1 DEF Inv, Listed, Announced, CacheFirst, Phases
  <2>5. BothBefore' BY <1>7, <2>1
  <2>6. Outcomes'
    <3>1. jobs'[j].leader = "none" BY <1>3, <2>1 DEF NoJob
    <3> QED BY <1>4, <1>6, <2>1, <3>1 DEF Inv, Outcomes, Unstarted, Ending
  <2> QED BY <1>8, <2>1, <2>2, <2>3, <2>4, <2>5, <2>6 DEF Inv, Ending
<1> QED BY <1>9, <1>10 DEF Launch

LEMMA AwaitStep == ASSUME Inv, Await PROVE Inv'
<1>1. PICK s \in Spots : todo = s.todo /\ active = s.active /\ Pace(s.ahead, Range(active))
  BY DEF Inv, OnWay, Await, Doing
<1>2. pc = "run" /\ Head(todo) = "await" /\ phase["health"] = "none"
      /\ UNCHANGED <<active, jobs, phase, cancel, late, code>> /\ seen \subseteq seen'
  BY DEF Inv, OnWay, Await, Doing, Observed
<1>3. CASE pc' = "except" BY <1>2, <1>3, Raised DEF Trying
<1>4. CASE pc' \in {"run", "poll"} /\ OnWay' /\ Passes'
  <2>1. Typed' BY <1>2, <1>4 DEF Inv, Typed, Trying
  <2>2. Beginning' /\ Probing' BY <1>4 DEF Beginning, Probing
  <2>3. Listed' /\ Announced' /\ CacheFirst' /\ BothBefore'
    BY <1>2 DEF Inv, Listed, Announced, CacheFirst, BothBefore
  <2>4. Outcomes' BY <1>2, <1>4 DEF Inv, Outcomes, Unstarted, Ending
  <2>5. Judged' BY <1>2, <1>4 DEF Inv, Judged, Ending
  <2> QED BY <1>4, <2>1, <2>2, <2>3, <2>4, <2>5 DEF Inv
<1>5. Pace(s.ahead, Range(active))' BY <1>1, <1>2 DEF Pace
<1>6. CASE active = <<>> /\ todo' = Tail(todo) /\ Continue("run")
  <2>1. Awaited(s) \in Spots BY <1>1, <1>2, <1>6, AwaitSpot
  <2>2. todo' = Awaited(s).todo /\ active' = Awaited(s).active /\ Awaited(s).ahead = s.ahead
    BY <1>1, <1>2, <1>6 DEF Awaited, At
  <2>3. pc' = "run" /\ OnWay' BY <1>2, <1>5, <1>6, <2>1, <2>2 DEF OnWay, Continue
  <2> QED BY <1>4, <2>3 DEF Passes
<1>7. CASE active # <<>> /\ UNCHANGED todo /\ Continue("poll") /\ left' = active
  <2>1. pc' = "poll" /\ OnWay' BY <1>1, <1>2, <1>5, <1>7 DEF OnWay, Continue
  <2>2. left' \in Actives \ {<<>>} BY <1>1, <1>7, SpotShape
  <2>3. Passes' BY <1>2, <1>7, <2>2 DEF Passes, Actives
  <2> QED BY <1>4, <2>1, <2>3
<1> QED BY <1>3, <1>6, <1>7 DEF Await, Raise

(* What Poll and Probe leave of a group whose leader has ended *)
LEMMA KilledJob ==
  ASSUME NEW job \in Job, job.leader # "running"
  PROVE /\ Killed(job) \in Job /\ ~Live(Killed(job))
        /\ Killed(job).leader = job.leader /\ Killed(job).cache = job.cache
<1>1. Killed(job) \in Job BY DEF Killed, Job, Leaders
<1>2. Killed(job).leader = job.leader /\ Killed(job).cache = job.cache BY DEF Killed, Job
<1>3. Killed(job).kids = FALSE BY DEF Killed, Job
<1>4. ~Live(Killed(job)) BY <1>2, <1>3 DEF Live
<1> QED BY <1>1, <1>2, <1>4

LEMMA Reaped ==
  ASSUME Inv, NEW j \in Jobs, jobs[j].leader # "running",
         jobs' = [jobs EXCEPT ![j] = Killed(jobs[j])],
         Range(active') = Range(active) \ {j}
  PROVE /\ jobs' \in [Jobs -> Job] /\ Listed' /\ CacheFirst'
        /\ ~Live(jobs'[j]) /\ jobs'[j].leader = jobs[j].leader
        /\ \A k \in Jobs \ {j} : jobs'[k] = jobs[k]
<1>1. jobs \in [Jobs -> Job] BY DEF Inv, Typed, Job
<1>2. jobs' \in [Jobs -> Job] BY <1>1, KilledJob
<1>3. ~Live(jobs'[j]) /\ jobs'[j].leader = jobs[j].leader /\ jobs'[j].cache = jobs[j].cache
      /\ \A k \in Jobs \ {j} : jobs'[k] = jobs[k]
  BY <1>1, KilledJob
<1>4. Listed' BY <1>3 DEF Inv, Listed
<1>5. CacheFirst' BY <1>3 DEF Inv, CacheFirst, Jobs, Started
<1> QED BY <1>2, <1>3, <1>4, <1>5

LEMMA PollStep == ASSUME Inv, Poll PROVE Inv'
<1> DEFINE j == Head(left)
<1>1. PICK s \in Spots : todo = s.todo /\ active = s.active /\ Pace(s.ahead, Range(active))
  BY DEF Inv, OnWay, Poll
<1>2. pc = "poll" /\ Head(todo) = "await" /\ phase["health"] = "none"
      /\ UNCHANGED <<todo, cancel, late, code>>
  BY DEF Inv, OnWay, Passes, Poll
<1>3. /\ left \in {<<"weights">>, <<"image">>, <<"container">>, <<"weights", "image">>}
      /\ Range(left) \subseteq Range(active)
  BY DEF Inv, Passes, Poll
<1>4. j \in Range(left) /\ j \in Started
  BY <1>3, RangeOf DEF Started, Prepare
<1>5. /\ j \in Range(active) /\ j \in Jobs /\ j \in Phases /\ j \notin {"boot", "health", "probe"}
  BY <1>3, <1>4 DEF Jobs, Phases, Started, Prepare
\* What is left to visit is still active.
<1>6. ASSUME Len(left) # 1, left' = Tail(left), Range(active) \ {j} \subseteq Range(active')
      PROVE left' = <<"image">> /\ Range(left') \subseteq Range(active')
  <2>1. left = <<"weights", "image">>
    <3>1. \A a : Len(<<a>>) = 1 OBVIOUS
    <3> QED BY <1>3, <1>6, <3>1
  <2>2. left' = <<"image">> /\ j = "weights" BY <1>6, <2>1
  <2>3. "image" \in Range(active) BY <1>3, <2>1, RangeOf
  <2>4. "image" \in Range(active') BY <1>6, <2>2, <2>3
  <2>5. Range(<<"image">>) = {"image"} BY RangeOf
  <2> QED BY <2>2, <2>4, <2>5
<1> HIDE DEF j
<1>7. ASSUME Continue(IF Len(left) = 1 THEN "run" ELSE "poll"), left' = Tail(left),
             Range(active) \ {j} \subseteq Range(active')
      PROVE pc' \in {"run", "poll"} /\ Passes'
  <2>1. pc' = IF Len(left) = 1 THEN "run" ELSE "poll" BY <1>7 DEF Continue
  <2> QED BY <1>2, <1>6, <1>7, <2>1 DEF Passes
<1>8. CASE /\ Continue(IF Len(left) = 1 THEN "run" ELSE "poll") /\ left' = Tail(left)
           /\ UNCHANGED <<active, jobs, phase, seen>>
  <2>1. pc' \in {"run", "poll"} /\ Passes' BY <1>7, <1>8
  <2>2. OnWay' BY <1>1, <1>2, <1>8 DEF OnWay, Pace
  <2>3. Typed' BY <1>2, <1>8, <2>1 DEF Inv, Typed, Trying
  <2>4. Beginning' /\ Probing' BY <2>1 DEF Beginning, Probing
  <2>5. Listed' /\ Announced' /\ CacheFirst' /\ BothBefore'
    BY <1>8 DEF Inv, Listed, Announced, CacheFirst, BothBefore
  <2>6. Outcomes' BY <1>2, <1>8, <2>1 DEF Inv, Outcomes, Unstarted, Ending
  <2>7. Judged' BY <1>2, <1>8, <2>1 DEF Inv, Judged, Ending
  <2> QED BY <2>1, <2>2, <2>3, <2>4, <2>5, <2>6, <2>7 DEF Inv
<1>9. CASE /\ jobs[j].leader # "running"
           /\ jobs' = [jobs EXCEPT ![j] = Killed(jobs[j])]
           /\ active' = Without(j) /\ seen' = Observed
           /\ \/ /\ jobs[j].leader = "ok" /\ Noted(j, "complete") /\ left' = Tail(left)
                 /\ Continue(IF Len(left) = 1 THEN "run" ELSE "poll")
              \/ jobs[j].leader = "failed" /\ Noted(j, "failed") /\ Raise("failed")
  <2>1. /\ At(s.todo, active', s.ahead) \in Spots
        /\ Range(active') = Range(active) \ {j}
    BY <1>1, <1>2, <1>5, <1>9, PollSpot
  <2>2. /\ jobs' \in [Jobs -> Job] /\ Listed' /\ CacheFirst'
        /\ ~Live(jobs'[j]) /\ jobs'[j].leader = jobs[j].leader
        /\ \A k \in Jobs \ {j} : jobs'[k] = jobs[k]
    BY <1>5, <1>9, <2>1, Reaped
  <2>3. PICK st \in {"complete", "failed"} :
           phase' = [phase EXCEPT ![j] = st] /\ (st = "complete" <=> jobs[j].leader = "ok")
    BY <1>9 DEF Noted
  <2>4. /\ phase' \in [Phases -> Statuses] /\ phase'[j] = st
        /\ \A p \in Phases \ {j} : phase'[p] = phase[p]
        /\ phase'["boot"] = phase["boot"] /\ phase'["health"] = phase["health"]
    BY <1>5, <2>3 DEF Inv, Typed, Statuses, Closed, Phases
  <2>5. pc' \in {"run", "poll", "except"} /\ Passes'
    <3>1. CASE pc' = "except" BY <3>1 DEF Passes
    <3>2. CASE pc' # "except"
      <4>1. Continue(IF Len(left) = 1 THEN "run" ELSE "poll") /\ left' = Tail(left)
        BY <1>9, <3>2 DEF Raise
      <4> QED BY <1>7, <2>1, <4>1
    <3> QED BY <3>1, <3>2
  <2>6. /\ Started \subseteq Jobs /\ Started \subseteq Phases /\ Prepare \subseteq Started
        /\ seen \subseteq seen'
    BY <1>9 DEF Jobs, Phases, Started, Observed
  <2>7. phase[j] = "start" BY <1>1, <1>4, <1>5 DEF Pace
  <2>8. Typed' BY <1>2, <2>2, <2>4, <2>5 DEF Inv, Typed, Trying, Job
  <2>9. Beginning' /\ Probing' BY <2>5 DEF Beginning, Probing
  <2>10. OnWay'
    <3>1. CASE pc' = "except" BY <3>1 DEF OnWay
    <3>2. CASE pc' # "except"
      <4>1. st = "complete" /\ (j \in Prepare => jobs[j].cache)
        BY <1>9, <2>3, <3>2 DEF Raise, Inv, CacheFirst
      <4>2. j \in Prepare => j \in seen' BY <1>9, <4>1 DEF Observed
      <4>3. j \notin s.ahead BY <1>1, <1>5, SpotShape
      <4>4. Pace(s.ahead, Range(active))'
        BY <1>1, <2>1, <2>2, <2>4, <2>6, <4>1, <4>2, <4>3 DEF Pace
      <4> DEFINE t == At(s.todo, active', s.ahead)
      <4>5. todo' = t.todo /\ active' = t.active /\ t.ahead = s.ahead BY <1>1, <1>2 DEF At
      <4> HIDE DEF t
      <4> QED BY <1>2, <2>1, <2>4, <4>4, <4>5 DEF OnWay, t
    <3> QED BY <3>1, <3>2
  <2>11. BothBefore'
    <3> SUFFICES ASSUME phase'["container"] # "none", NEW k \in Prepare
                 PROVE phase'[k] = "complete" /\ ~Live(jobs'[k]) /\ k \in seen'
                       /\ k \notin Range(active')
      BY DEF BothBefore
    <3>1. phase["container"] # "none" BY <1>5, <2>4, <2>7 DEF Phases, Started
    <3>2. phase[k] = "complete" /\ ~Live(jobs[k]) /\ k \in seen /\ k \notin Range(active)
      BY <3>1 DEF Inv, BothBefore
    <3>3. k # j BY <1>5, <3>2
    <3> QED BY <2>1, <2>2, <2>4, <2>6, <3>2, <3>3
  <2>12. Outcomes' BY <1>2, <2>1, <2>2, <2>4, <2>5, <2>6 DEF Inv, Outcomes, Unstarted, Ending
  <2>13. Judged' BY <1>2, <2>4, <2>5 DEF Inv, Judged, Ending
  <2>14. Announced' BY <2>1, <2>4, <2>6 DEF Inv, Announced
  <2> QED BY <2>2, <2>5, <2>8, <2>9, <2>10, <2>11, <2>12, <2>13, <2>14 DEF Inv
<1> QED BY <1>8, <1>9 DEF Poll, j

LEMMA HealthStartsStep == ASSUME Inv, HealthStarts PROVE Inv'
<1>1. PICK s \in Spots : todo = s.todo /\ active = s.active /\ Pace(s.ahead, Range(active))
  BY DEF Inv, OnWay, HealthStarts, Doing
<1>2. active = <<>> /\ Pace({}, {})
  <2>1. s.active = <<>> /\ s.ahead = {} BY <1>1, HealthSpot DEF HealthStarts, Doing
  <2> QED BY <1>1, <2>1, RangeOf
<1>3. /\ pc' = "health" /\ phase' = [phase EXCEPT !["health"] = "start"] /\ pc = "run"
      /\ UNCHANGED <<todo, left, active, jobs, seen, cancel, late, code>>
  BY DEF HealthStarts, Noted, Continue, Doing
<1>4. /\ phase' \in [Phases -> Statuses] /\ phase'["boot"] = phase["boot"]
      /\ \A p \in Phases \ {"health"} : phase'[p] = phase[p]
      /\ Started \subseteq Phases \ {"health"}
  BY <1>3 DEF Inv, Typed, Statuses, Phases, Started, Prepare
<1>5. Typed' BY <1>3, <1>4 DEF Inv, Typed, Trying
<1>6. Beginning' /\ OnWay' /\ Passes' BY <1>3 DEF Beginning, OnWay, Passes
<1>7. Probing' BY <1>2, <1>3, <1>4 DEF Probing, Pace
<1>8. Listed' /\ Announced' /\ CacheFirst' /\ BothBefore'
  BY <1>3, <1>4 DEF Inv, Listed, Announced, CacheFirst, BothBefore, Started
<1>9. Outcomes' BY <1>3, <1>4 DEF Inv, Outcomes, Unstarted, Ending
<1>10. Judged' BY <1>3, <1>4 DEF Inv, Judged, Ending
<1> QED BY <1>5, <1>6, <1>7, <1>8, <1>9, <1>10 DEF Inv

LEMMA HealthStep == ASSUME Inv, Health PROVE Inv'
<1>1. /\ pc = "health" /\ active = <<>> /\ Pace({}, {})
      /\ UNCHANGED <<todo, phase, seen, cancel, late, code>>
  BY DEF Inv, Probing, Health
<1>2. CASE pc' = "except" /\ UNCHANGED <<active, jobs>> BY <1>1, <1>2, Raised DEF Trying
<1>3. CASE Spawned("probe") /\ Continue("probe")
  <2> DEFINE r == [NoJob EXCEPT !.leader = "running"]
  <2>1. pc' = "probe" /\ jobs' = [jobs EXCEPT !["probe"] = r] /\ active' = Append(active, "probe")
    BY <1>3 DEF Spawned, Continue
  <2>2. r \in Job BY DEF NoJob, Job, Leaders
  <2> HIDE DEF r
  <2>3. active' = <<"probe">> /\ Range(active') = {"probe"} /\ Range(active) = {}
    <3>1. Append(<<>>, "probe") = <<"probe">> OBVIOUS
    <3> QED BY <1>1, <2>1, <3>1, RangeOf
  <2>4. jobs' \in [Jobs -> Job] /\ \A k \in Jobs \ {"probe"} : jobs'[k] = jobs[k]
    BY <2>1, <2>2 DEF Inv, Typed, Job
  <2>5. Started \subseteq Jobs \ {"probe"} /\ Prepare \subseteq Started BY DEF Jobs, Started, Prepare
  <2>6. Typed' BY <1>1, <2>1, <2>4 DEF Inv, Typed, Trying, Job
  <2>7. Beginning' /\ OnWay' /\ Passes' BY <2>1 DEF Beginning, OnWay, Passes
  <2>8. Probing' BY <1>1, <2>1, <2>3, <2>4, <2>5 DEF Probing, Pace
  <2>9. Listed' BY <2>3, <2>4 DEF Inv, Listed
  <2>10. Announced' BY <2>3, <2>5 DEF Announced
  <2>11. CacheFirst' /\ BothBefore'
    BY <1>1, <2>3, <2>4, <2>5 DEF Inv, CacheFirst, BothBefore
  <2>12. Outcomes' BY <1>1, <2>1, <2>3, <2>4, <2>5 DEF Inv, Outcomes, Unstarted, Ending
  <2>13. Judged' BY <1>1, <2>1 DEF Inv, Judged, Ending
  <2> QED BY <2>6, <2>7, <2>8, <2>9, <2>10, <2>11, <2>12, <2>13 DEF Inv
<1> QED BY <1>2, <1>3 DEF Health, Raise

LEMMA ProbeStep == ASSUME Inv, Probe PROVE Inv'
<1>1. /\ pc = "probe" /\ active = <<"probe">> /\ Pace({}, {})
      /\ UNCHANGED <<todo, seen, cancel, late>>
  BY DEF Inv, Probing, Probe
<1>2. CASE pc' = "except" /\ UNCHANGED <<active, jobs, phase, code>>
  BY <1>1, <1>2, Raised DEF Trying
<1>3. CASE /\ jobs["probe"].leader # "running"
           /\ jobs' = [jobs EXCEPT !["probe"] = Killed(jobs["probe"])]
           /\ active' = Without("probe")
           /\ \/ /\ code' = "zero" /\ Continue("cleanup")
                 /\ phase' = [phase EXCEPT !["health"] = "ready", !["boot"] = "ready"]
              \/ Continue("health") /\ UNCHANGED <<phase, code>>
  <2>1. active' = <<>> BY <1>1, <1>3, WithoutOne
  <2>2. Range(active) = {"probe"} /\ Range(active') = {} /\ Range(active') = Range(active) \ {"probe"}
    BY <1>1, <2>1, RangeOf
  <2>3. /\ jobs' \in [Jobs -> Job] /\ Listed' /\ CacheFirst'
        /\ \A k \in Jobs \ {"probe"} : jobs'[k] = jobs[k]
    <3>1. "probe" \in Jobs BY DEF Jobs
    <3> QED BY <1>3, <2>2, <3>1, Reaped
  <2>4. Started \subseteq Jobs \ {"probe"} /\ Prepare \subseteq Started
        /\ Started \subseteq Phases \ {"health", "boot"} /\ Phases = Started \cup {"health", "boot"}
    BY DEF Jobs, Started, Prepare, Phases
  <2>5. Announced' BY <2>2 DEF Announced
  <2>6. CASE Continue("health") /\ UNCHANGED <<phase, code>>
    <3>1. pc' = "health" BY <2>6 DEF Continue
    <3>2. Typed' BY <1>1, <2>3, <2>6, <3>1 DEF Inv, Typed, Trying, Job
    <3>3. Beginning' /\ OnWay' /\ Passes' BY <3>1 DEF Beginning, OnWay, Passes
    <3>4. Probing' BY <1>1, <2>1, <2>3, <2>4, <2>6, <3>1 DEF Probing, Pace
    <3>5. BothBefore' BY <1>1, <2>2, <2>3, <2>4, <2>6 DEF Inv, BothBefore
    <3>6. Outcomes' BY <1>1, <2>2, <2>3, <2>4, <2>6, <3>1 DEF Inv, Outcomes, Unstarted, Ending
    <3>7. Judged' BY <1>1, <2>6, <3>1 DEF Inv, Judged, Ending
    <3> QED BY <2>3, <2>5, <3>2, <3>3, <3>4, <3>5, <3>6, <3>7 DEF Inv
  <2>7. CASE /\ code' = "zero" /\ Continue("cleanup")
             /\ phase' = [phase EXCEPT !["health"] = "ready", !["boot"] = "ready"]
    <3>1. pc' = "cleanup" BY <2>7 DEF Continue
    <3>2. /\ phase' \in [Phases -> Statuses] /\ phase'["health"] = "ready" /\ phase'["boot"] = "ready"
          /\ \A p \in Started : phase'[p] = phase[p]
      BY <2>4, <2>7 DEF Inv, Typed, Statuses, Closed
    <3>3. Typed' BY <1>1, <2>3, <3>1, <3>2 DEF Inv, Typed, Ending, Job
    <3>4. Beginning' /\ OnWay' /\ Passes' /\ Probing' BY <3>1 DEF Beginning, OnWay, Passes, Probing
    <3>5. BothBefore'
      <4>1. "container" \in Started BY DEF Started
      <4> QED BY <1>1, <2>2, <2>3, <2>4, <3>2, <4>1 DEF Inv, BothBefore
    <3>6. \A p \in Started : phase'[p] = "complete" BY <1>1, <3>2 DEF Pace
    <3>7. Outcomes' BY <2>4, <3>2, <3>6 DEF Outcomes
    <3>8. Judged' BY <2>7, <3>1, <3>2, <3>6 DEF Judged, Ending
    <3> QED BY <2>3, <2>5, <3>3, <3>4, <3>5, <3>7, <3>8 DEF Inv
  <2> QED BY <1>3, <2>6, <2>7
<1> QED BY <1>2, <1>3 DEF Probe, Raise

LEMMA ExceptStep == ASSUME Inv, Except PROVE Inv'
<1>1. /\ pc = "except" /\ pc' = "status"
      /\ phase' = [p \in Phases |-> IF p \in Open THEN Status ELSE phase[p]]
      /\ UNCHANGED <<todo, left, active, jobs, seen, cancel, late, code>>
  BY DEF Except, Continue
<1>2. Status \in {"cancelled", "timeout", "failed"} /\ (Status = "cancelled" => cancel)
  BY DEF Status
<1>3. /\ phase' \in [Phases -> Statuses]
      /\ \A p \in Phases : phase'[p] = IF p \in Open THEN Status ELSE phase[p]
  BY <1>1, <1>2 DEF Inv, Typed, Statuses, Closed
<1>4. Started \subseteq Phases /\ Prepare \subseteq Started /\ "boot" \in Phases
      /\ \A p \in Started : p \in Open <=> p \in Range(active)
  BY DEF Started, Prepare, Phases, Open
<1>5. Typed' BY <1>1, <1>3 DEF Inv, Typed
<1>6. Beginning' /\ OnWay' /\ Passes' /\ Probing' BY <1>1 DEF Beginning, OnWay, Passes, Probing
<1>7. Listed' /\ CacheFirst' BY <1>1 DEF Inv, Listed, CacheFirst
<1>8. Announced' BY <1>1, <1>2, <1>3, <1>4 DEF Announced
<1>9. BothBefore'
  <2>1. phase'["container"] # "none" => phase["container"] # "none"
    <3>1. "container" \in Started BY DEF Started
    <3> QED BY <1>3, <1>4, <3>1 DEF Inv, Announced
  <2> QED BY <1>1, <1>3, <1>4, <2>1 DEF Inv, BothBefore
<1>10. Outcomes'
  <2> SUFFICES ASSUME NEW p \in Phases, phase'[p] = "start" PROVE Unstarted(p)'
    BY DEF Outcomes
  <2>1. p \notin Open /\ phase[p] = "start" BY <1>2, <1>3
  <2>2. p \notin Range(active) \cup {"boot", "health"} BY <2>1 DEF Open
  <2> QED BY <1>1, <2>1, <2>2 DEF Inv, Outcomes, Unstarted
<1>11. Judged' 
  <2>1. phase'["boot"] = Status BY <1>3, <1>4 DEF Open
  <2> QED BY <1>1, <1>2, <2>1 DEF Judged, Ending
<1> QED BY <1>5, <1>6, <1>7, <1>8, <1>9, <1>10, <1>11 DEF Inv

LEMMA ExitCodeStep == ASSUME Inv, ExitCode PROVE Inv'
<1>1. /\ pc = "status" /\ pc' = "cleanup" /\ code' = IF cancel THEN "signal" ELSE "one"
      /\ UNCHANGED <<todo, left, active, jobs, phase, seen, cancel, late>>
  BY DEF ExitCode, Continue
<1>2. Typed' BY <1>1 DEF Inv, Typed, Ending
<1>3. Beginning' /\ OnWay' /\ Passes' /\ Probing' BY <1>1 DEF Beginning, OnWay, Passes, Probing
<1>4. Listed' /\ Announced' /\ CacheFirst' /\ BothBefore'
  BY <1>1 DEF Inv, Listed, Announced, CacheFirst, BothBefore
<1>5. Outcomes' BY <1>1 DEF Inv, Outcomes, Unstarted, Ending
<1>6. Judged' BY <1>1 DEF Inv, Judged, Ending
<1> QED BY <1>2, <1>3, <1>4, <1>5, <1>6 DEF Inv

LEMMA CleanupStep == ASSUME Inv, Cleanup PROVE Inv'
<1>1. /\ pc = "cleanup" /\ pc' = "done" /\ active' = <<>> /\ code' = code
      /\ jobs' = [j \in Jobs |-> IF j \in Range(active) THEN Killed(jobs[j]) ELSE jobs[j]]
      /\ UNCHANGED <<todo, left, phase, seen, cancel, late>>
  BY DEF Cleanup, Continue, FinalCode
<1>2. Range(active') = {} BY <1>1, RangeOf
<1>3. /\ \A job \in Job : Killed(job) \in Job /\ Killed(job).kids = FALSE
      /\ \A job \in Job : Killed(job).leader = IF job.leader = "running" THEN "failed" ELSE job.leader
      /\ \A job \in Job : Killed(job).cache = job.cache
  <2> SUFFICES ASSUME NEW job \in Job
               PROVE /\ Killed(job) \in Job /\ Killed(job).kids = FALSE
                     /\ Killed(job).leader = IF job.leader = "running" THEN "failed" ELSE job.leader
                     /\ Killed(job).cache = job.cache
    OBVIOUS
  <2>1. Killed(job) \in Job BY DEF Killed, Job, Leaders
  <2>2. Killed(job).leader = IF job.leader = "running" THEN "failed" ELSE job.leader
    BY DEF Killed, Job
  <2>3. Killed(job).kids = FALSE /\ Killed(job).cache = job.cache BY DEF Killed, Job
  <2> QED BY <2>1, <2>2, <2>3
<1>4. \A job \in Job : ~Live(Killed(job)) BY <1>3 DEF Live
<1>5. jobs \in [Jobs -> Job] /\ jobs' \in [Jobs -> Job] BY <1>1, <1>3 DEF Inv, Typed, Job
<1>6. \A j \in Jobs : ~Live(jobs'[j])
  <2> SUFFICES ASSUME NEW j \in Jobs PROVE ~Live(jobs'[j]) OBVIOUS
  <2>1. CASE j \in Range(active)
    <3>1. jobs'[j] = Killed(jobs[j]) BY <1>1, <2>1
    <3> QED BY <1>4, <1>5, <3>1
  <2>2. CASE j \notin Range(active)
    <3>1. jobs'[j] = jobs[j] BY <1>1, <2>2
    <3> QED BY <2>2, <3>1 DEF Inv, Listed
  <2> QED BY <2>1, <2>2
<1>7. /\ \A j \in Jobs : jobs'[j].leader = "none" <=> jobs[j].leader = "none"
      /\ \A j \in Jobs : jobs'[j].leader = "ok" => jobs[j].leader = "ok"
      /\ \A j \in Jobs : jobs'[j].cache = jobs[j].cache
  BY <1>1, <1>3, <1>5
<1>8. Prepare \subseteq Jobs /\ Started \subseteq Jobs BY DEF Jobs, Started
<1>9. Typed' BY <1>1, <1>5 DEF Inv, Typed, Ending, Job
<1>10. Beginning' /\ OnWay' /\ Passes' /\ Probing' BY <1>1 DEF Beginning, OnWay, Passes, Probing
<1>11. Listed' /\ Announced' BY <1>2, <1>6 DEF Listed, Announced
<1>12. CacheFirst' BY <1>7, <1>8 DEF Inv, CacheFirst
<1>13. BothBefore' BY <1>1, <1>2, <1>6, <1>8 DEF Inv, BothBefore
<1>14. Outcomes' BY <1>1, <1>7, <1>8 DEF Inv, Outcomes, Unstarted, Ending
<1>15. Judged' BY <1>1 DEF Inv, Judged, Ending
<1> QED BY <1>9, <1>10, <1>11, <1>12, <1>13, <1>14, <1>15 DEF Inv

LEMMA InvPreserved == Inv /\ [Next]_vars => Inv'
<1> SUFFICES ASSUME Inv, [Next]_vars PROVE Inv' OBVIOUS
<1>1. CASE MainStep
  BY <1>1, BeginStep, LaunchStep, AwaitStep, PollStep, HealthStartsStep, HealthStep, ProbeStep,
     ExceptStep, ExitCodeStep, CleanupStep DEF MainStep
<1>2. CASE (\E j \in Jobs : JobStep(j)) \/ Signal \/ Expire \/ UNCHANGED vars
  BY <1>2, QuietSteps
<1> QED BY <1>1, <1>2 DEF Next

LEMMA Invariant == Spec => []Inv
BY InitInv, InvPreserved, PTL DEF Spec

-----------------------------------------------------------------------------

(* However the jobs end, signals come and time runs out: the container is      *)
(* started only when both preparations have succeeded and are gone.            *)
THEOREM ContainerWaitsForBoth == Spec => []ContainerNeedsBoth
<1>1. Inv => ContainerNeedsBoth BY DEF Inv, BothBefore, ContainerNeedsBoth, Live, Alive
<1> QED BY <1>1, Invariant, PTL

(* The exit status and the event of the boot agree, also when a signal comes   *)
(* between the two.                                                            *)
THEOREM VerdictIsConsistent == Spec => []BootVerdict
<1>1. Inv => BootVerdict BY DEF Inv, Judged, BootVerdict, Over, Ending
<1> QED BY <1>1, Invariant, PTL

(* Every started phase has an outcome when the boot is over.                   *)
THEOREM PhasesAreClosed == Spec => []PhasesClosed
<1>1. Inv => PhasesClosed BY DEF Inv, Outcomes, Unstarted, PhasesClosed, Over, Ending
<1> QED BY <1>1, Invariant, PTL

(* No process of a job outlives the boot: what runs is in `active`, and        *)
(* nothing is active at the end.                                               *)
THEOREM NothingIsLeft == Spec => []NothingLeft
<1>1. Inv => NothingLeft
  BY RangeOf DEF Inv, Probing, Listed, NothingLeft, Over, Live, Alive
<1> QED BY <1>1, Invariant, PTL

-----------------------------------------------------------------------------
(* The events that a step writes *)

Rank == [weights |-> 1, image |-> 2, container |-> 3, health |-> 4, boot |-> 5]

AnyEvent == [phase : Phases, status : Statuses \cup {"cache"}]

\* The sequence s holds the events of ps, as far as they are among the first n phases.
Telling(ps, st, n, s) ==
  /\ s \in Seq(AnyEvent)
  /\ \A k \in DOMAIN s : \E p \in ps : s[k] = Event(p, st[p]) /\ Rank[p] \in 1..n
  /\ \A p \in ps : Rank[p] \in 1..n => \E k \in DOMAIN s : s[k] = Event(p, st[p])
  /\ \A k, l \in DOMAIN s : k < l => Rank[s[k].phase] < Rank[s[l].phase]

LEMMA Ranks ==
  /\ Rank["weights"] = 1 /\ Rank["image"] = 2 /\ Rank["container"] = 3
  /\ Rank["health"] = 4 /\ Rank["boot"] = 5
  /\ Phases = {"weights", "image", "container", "health", "boot"}
BY DEF Rank, Phases, Started, Prepare

Of(p, ps, st) == IF p \in ps THEN <<Event(p, st[p])>> ELSE <<>>

\* The events of one more phase, and of all of them
LEMMA TellingOne ==
  ASSUME NEW ps \in SUBSET Phases, NEW st \in [Phases -> Statuses \cup {"cache"}],
         NEW p \in Phases, NEW n \in Nat, Rank[p] = n + 1, NEW s, Telling(ps, st, n, s)
  PROVE Telling(ps, st, Rank[p], s \o Of(p, ps, st))
<1> DEFINE e == Event(p, st[p])
<1>1. \A q \in Phases : Rank[q] \in 1..(n + 1) <=> Rank[q] \in 1..n \/ q = p
  BY Ranks
<1>2. CASE p \notin ps
  <2>1. s \o Of(p, ps, st) = s BY <1>2 DEF Telling, Of
  <2> QED BY <1>1, <1>2, <2>1 DEF Telling
<1>3. CASE p \in ps
  <2>1. e \in AnyEvent /\ e.phase = p BY DEF Event, AnyEvent
  <2> HIDE DEF e
  <2>2. s \in Seq(AnyEvent) BY DEF Telling
  <2> DEFINE t == s \o <<e>>
  <2>3. /\ t \in Seq(AnyEvent) /\ Len(t) = Len(s) + 1 /\ t[Len(s) + 1] = e
        /\ \A k \in DOMAIN s : t[k] = s[k]
        /\ DOMAIN s = 1..Len(s) /\ DOMAIN t = 1..Len(t) /\ Len(s) \in Nat
    BY <2>1, <2>2
  <2> HIDE DEF t
  <2>4. DOMAIN t = DOMAIN s \cup {Len(s) + 1} BY <2>3
  <2>5. \A k \in DOMAIN t : \E q \in ps : t[k] = Event(q, st[q]) /\ Rank[q] \in 1..(n + 1)
    <3> SUFFICES ASSUME NEW k \in DOMAIN t
                 PROVE \E q \in ps : t[k] = Event(q, st[q]) /\ Rank[q] \in 1..(n + 1)
      OBVIOUS
    <3>1. CASE k \in DOMAIN s BY <1>1, <2>3, <3>1 DEF Telling
    <3>2. CASE k = Len(s) + 1 BY <1>1, <1>3, <2>3, <3>2 DEF e
    <3> QED BY <2>4, <3>1, <3>2
  <2>6. \A q \in ps : Rank[q] \in 1..(n + 1) => \E k \in DOMAIN t : t[k] = Event(q, st[q])
    <3> SUFFICES ASSUME NEW q \in ps, Rank[q] \in 1..(n + 1)
                 PROVE \E k \in DOMAIN t : t[k] = Event(q, st[q])
      OBVIOUS
    <3>1. CASE q = p BY <2>3, <2>4, <3>1 DEF e
    <3>2. CASE q # p
      <4>1. PICK k \in DOMAIN s : s[k] = Event(q, st[q]) BY <1>1, <3>2 DEF Telling
      <4> QED BY <2>3, <2>4, <4>1
    <3> QED BY <3>1, <3>2
  <2>7. \A k, l \in DOMAIN t : k < l => Rank[t[k].phase] < Rank[t[l].phase]
    <3> SUFFICES ASSUME NEW k \in DOMAIN t, NEW l \in DOMAIN t, k < l
                 PROVE Rank[t[k].phase] < Rank[t[l].phase]
      OBVIOUS
    <3>1. k \in DOMAIN s /\ t[k] = s[k] BY <2>3
    <3>2. CASE l \in DOMAIN s BY <2>3, <3>1, <3>2 DEF Telling
    <3>3. CASE l = Len(s) + 1
      <4>1. PICK q \in ps : s[k] = Event(q, st[q]) /\ Rank[q] \in 1..n BY <3>1 DEF Telling
      <4>2. t[k].phase = q BY <3>1, <4>1 DEF Event
      <4>3. t[l].phase = p BY <2>1, <2>3, <3>3
      <4>4. Rank[q] < n + 1 BY <4>1
      <4> QED BY <4>2, <4>3, <4>4
    <3> QED BY <2>4, <3>2, <3>3
  <2>8. Telling(ps, st, n + 1, t) BY <2>3, <2>5, <2>6, <2>7 DEF Telling
  <2> QED BY <1>3, <2>8 DEF t, e, Of
<1> QED BY <1>2, <1>3

LEMMA TellingAll ==
  ASSUME NEW ps \in SUBSET Phases, NEW st \in [Phases -> Statuses \cup {"cache"}]
  PROVE Telling(ps, st, 5, Events(ps, st))
<1> DEFINE e1 == Of("weights", ps, st)
           e2 == e1 \o Of("image", ps, st)
           e3 == e2 \o Of("container", ps, st)
           e4 == e3 \o Of("health", ps, st)
           e5 == e4 \o Of("boot", ps, st)
<1>1. Telling(ps, st, 0, <<>>)
  <2>1. <<>> \in Seq(AnyEvent) OBVIOUS
  <2>2. 1..0 = {} /\ DOMAIN <<>> = {} OBVIOUS
  <2> QED BY <2>1, <2>2 DEF Telling
<1>2. Events(ps, st) = e5 BY DEF Events, Of
<1>3. Telling(ps, st, 1, e1)
  <2> DEFINE p == "weights"
             s == <<>>
  <2>1. p \in Phases /\ Rank[p] = 0 + 1 /\ Rank[p] = 1 /\ Telling(ps, st, 0, s) BY <1>1, Ranks
  <2> HIDE DEF p, s
  <2>2. Telling(ps, st, Rank[p], s \o Of(p, ps, st)) BY <2>1, TellingOne
  <2>3. Telling(ps, st, 1, <<>> \o e1) BY <2>1, <2>2 DEF s, p
  <2>4. <<>> \o e1 = e1 BY DEF Of
  <2> QED BY <2>3, <2>4
<1> HIDE DEF e1
<1>4. Telling(ps, st, 2, e2) BY <1>3, Ranks, TellingOne
<1> HIDE DEF e2
<1>5. Telling(ps, st, 3, e3) BY <1>4, Ranks, TellingOne
<1> HIDE DEF e3
<1>6. Telling(ps, st, 4, e4) BY <1>5, Ranks, TellingOne
<1> HIDE DEF e4
<1>7. Telling(ps, st, 5, e5) BY <1>6, Ranks, TellingOne
<1> QED BY <1>2, <1>7

Fresh == DOMAIN records' \ DOMAIN records

\* The event of each phase that changes is written, after those of the caches and in
\* the order of the phases.
LEMMA Appended ==
  ASSUME records \in Seq(AnyEvent), phase' \in [Phases -> Statuses], seen' \ seen \subseteq Phases,
         Record
  PROVE /\ records' \in Seq(AnyEvent) /\ DOMAIN records \subseteq DOMAIN records'
        /\ \A i \in DOMAIN records : records'[i] = records[i]
        /\ \A i \in Fresh :
             /\ \A k \in DOMAIN records : k < i
             /\ \/ records'[i].status = "cache" /\ seen' # seen
                \/ \E p \in Phases : phase'[p] # phase[p] /\ records'[i] = Event(p, phase'[p])
        /\ \A p \in Phases : phase'[p] # phase[p] => \E i \in Fresh : records'[i] = Event(p, phase'[p])
        /\ \A i, j \in Fresh : i < j /\ records'[i].status # "cache"
             => records'[j].status # "cache" /\ Rank[records'[i].phase] < Rank[records'[j].phase]
<1> DEFINE cs == seen' \ seen
           cst == [p \in Phases |-> "cache"]
           ps == {p \in Phases : phase'[p] # phase[p]}
           C == CacheEvents
           P == PhaseEvents
           n == Len(records)
<1>1. Telling(cs, cst, 5, C)
  <2> DEFINE c == "cache"
  <2>1. cst \in [Phases -> Statuses \cup {"cache"}] OBVIOUS
  <2>2. cs \in SUBSET Phases OBVIOUS
  <2> HIDE DEF cs, cst
  <2>3. Telling(cs, cst, 5, Events(cs, cst)) BY <2>1, <2>2, TellingAll
  <2> QED BY <2>3 DEF CacheEvents, cs, cst
<1>2. Telling(ps, phase', 5, P)
  <2> DEFINE st == phase'
  <2>1. st \in [Phases -> Statuses \cup {"cache"}] OBVIOUS
  <2>2. ps \in SUBSET Phases OBVIOUS
  <2> HIDE DEF ps, st
  <2>3. Telling(ps, st, 5, Events(ps, st)) BY <2>1, <2>2, TellingAll
  <2> QED BY <2>3 DEF PhaseEvents, ps, st
<1>3. records' = (records \o C) \o P BY DEF Record
<1>4. C \in Seq(AnyEvent) /\ P \in Seq(AnyEvent) BY <1>1, <1>2 DEF Telling
<1>5. /\ \A k \in DOMAIN C : C[k].status = "cache" /\ seen' # seen
      /\ \A k \in DOMAIN P : \E p \in ps : P[k] = Event(p, phase'[p])
      /\ \A p \in ps : \E k \in DOMAIN P : P[k] = Event(p, phase'[p])
      /\ \A k, l \in DOMAIN P : k < l => Rank[P[k].phase] < Rank[P[l].phase]
  <2>1. \A p \in cs : Event(p, cst[p]).status = "cache" BY DEF Event
  <2>2. \A p \in ps : Rank[p] \in 1..5 BY Ranks
  <2> HIDE DEF ps, C, P, cst
  <2>3. \A k \in DOMAIN C : \E p \in cs : C[k] = Event(p, cst[p]) BY <1>1 DEF Telling
  <2>4. cs # {} => seen' # seen OBVIOUS
  <2> HIDE DEF cs
  <2>5. \A k \in DOMAIN C : C[k].status = "cache" /\ seen' # seen BY <2>1, <2>3, <2>4
  <2>6. \A k \in DOMAIN P : \E p \in ps : P[k] = Event(p, phase'[p]) BY <1>2 DEF Telling
  <2>7. \A p \in ps : \E k \in DOMAIN P : P[k] = Event(p, phase'[p]) BY <1>2, <2>2 DEF Telling
  <2>8. \A k, l \in DOMAIN P : k < l => Rank[P[k].phase] < Rank[P[l].phase]
    BY <1>2 DEF Telling
  <2> QED BY <2>5, <2>6, <2>7, <2>8
<1> HIDE DEF C, P
<1>6. /\ records' \in Seq(AnyEvent) /\ Len(records') = n + Len(C) + Len(P)
      /\ n \in Nat /\ Len(C) \in Nat /\ Len(P) \in Nat
      /\ DOMAIN records = 1..n /\ DOMAIN records' = 1..Len(records')
      /\ DOMAIN C = 1..Len(C) /\ DOMAIN P = 1..Len(P)
      /\ \A i \in 1..n : records'[i] = records[i]
      /\ \A i \in 1..Len(C) : records'[n + i] = C[i]
      /\ \A i \in 1..Len(P) : records'[n + Len(C) + i] = P[i]
  BY <1>3, <1>4
<1> HIDE DEF n, ps, cs, cst
\* A new event is one of the caches, or one of the phases.
<1>7. \A i \in Fresh : i \in Nat /\ n < i
                       /\ \/ i - n \in DOMAIN C /\ records'[i] = C[i - n]
                          \/ i - n - Len(C) \in DOMAIN P /\ records'[i] = P[i - n - Len(C)]
  <2> SUFFICES ASSUME NEW i \in Fresh
               PROVE i \in Nat /\ n < i
                       /\ \/ i - n \in DOMAIN C /\ records'[i] = C[i - n]
                          \/ i - n - Len(C) \in DOMAIN P /\ records'[i] = P[i - n - Len(C)]
    OBVIOUS
  <2>1. i \in Nat /\ n < i /\ i <= n + Len(C) + Len(P) BY <1>6 DEF Fresh
  <2>2. CASE i <= n + Len(C)
    <3>1. i - n \in 1..Len(C) /\ n + (i - n) = i BY <1>6, <2>1, <2>2
    <3> QED BY <1>6, <2>1, <3>1
  <2>3. CASE n + Len(C) < i
    <3>1. i - n - Len(C) \in 1..Len(P) /\ n + Len(C) + (i - n - Len(C)) = i
      BY <1>6, <2>1, <2>3
    <3> QED BY <1>6, <2>1, <3>1
  <2> QED BY <1>6, <2>1, <2>2, <2>3
<1>8. \A i \in Fresh : \/ records'[i].status = "cache" /\ seen' # seen
                       \/ \E p \in Phases : phase'[p] # phase[p] /\ records'[i] = Event(p, phase'[p])
  BY <1>5, <1>7 DEF ps
<1>9. \A p \in Phases : phase'[p] # phase[p] => \E i \in Fresh : records'[i] = Event(p, phase'[p])
  <2> SUFFICES ASSUME NEW p \in ps PROVE \E i \in Fresh : records'[i] = Event(p, phase'[p])
    BY DEF ps
  <2>1. PICK k \in DOMAIN P : P[k] = Event(p, phase'[p]) BY <1>5
  <2>2. n + Len(C) + k \in Fresh BY <1>6 DEF Fresh
  <2> QED BY <1>6, <2>1, <2>2
<1>10. \A i, j \in Fresh : i < j /\ records'[i].status # "cache"
         => records'[j].status # "cache" /\ Rank[records'[i].phase] < Rank[records'[j].phase]
  <2> SUFFICES ASSUME NEW i \in Fresh, NEW j \in Fresh, i < j, records'[i].status # "cache"
               PROVE /\ records'[j].status # "cache"
                     /\ Rank[records'[i].phase] < Rank[records'[j].phase]
    OBVIOUS
  <2>1. i - n - Len(C) \in DOMAIN P /\ records'[i] = P[i - n - Len(C)] BY <1>5, <1>7
  <2>2. j - n \notin DOMAIN C BY <1>6, <1>7, <2>1
  <2>3. j - n - Len(C) \in DOMAIN P /\ records'[j] = P[j - n - Len(C)] BY <1>7, <2>2
  <2>4. i - n - Len(C) < j - n - Len(C) BY <1>6, <1>7
  <2>5. \A p \in Phases : phase'[p] # "cache" /\ Event(p, phase'[p]).status = phase'[p]
    BY DEF Event, Statuses, Closed
  <2>6. records'[j].status # "cache" BY <1>5, <2>3, <2>5 DEF ps
  <2> QED BY <1>5, <2>1, <2>3, <2>4, <2>6
<1> QED BY <1>6, <1>7, <1>8, <1>9, <1>10

-----------------------------------------------------------------------------
(* How the phases change on the way to READY *)

Good == pc \in {"begin"} \cup Trying \/ phase["boot"] = "ready"

Last(p) == IF p \in Started THEN "complete" ELSE "ready"

HealthOn == pc \in {"health", "probe"} => phase["health"] = "start"

\* A phase starts and is completed, each once; the container and the health phase begin
\* after what they need.
Advances ==
  /\ \A p \in Phases : phase'[p] # phase[p] =>
       \/ phase[p] = "none" /\ phase'[p] = "start"
       \/ phase[p] = "start" /\ phase'[p] = Last(p)
  /\ \A p \in Prepare : phase'[p] # phase[p] /\ phase'[p] = "complete" => phase["container"] = "none"
  /\ phase'["container"] # phase["container"] /\ phase'["container"] = "complete"
       => phase["health"] = "none"
  /\ phase'["health"] # phase["health"] => phase["boot"] = "start"

LEMMA Seen == ASSUME [Next]_vars PROVE seen' \ seen \subseteq Phases
BY DEF Next, MainStep, Begin, Launch, Await, Poll, HealthStarts, Health, Probe, Except, ExitCode,
       Cleanup, JobStep, Signal, Expire, Observed, Phases, Started, vars

LEMMA AdvanceOne ==
  ASSUME Inv, NEW p \in Phases, NEW s, phase' = [phase EXCEPT ![p] = s],
         \/ phase[p] = "none" /\ s = "start"
         \/ phase[p] = "start" /\ s = Last(p),
         p \in Prepare /\ s = "complete" => phase["container"] = "none",
         p = "container" /\ s = "complete" => phase["health"] = "none",
         p = "health" => phase["boot"] = "start"
  PROVE Advances
<1>1. phase'[p] = s /\ \A q \in Phases \ {p} : phase'[q] = phase[q] BY DEF Inv, Typed
<1>2. Prepare \subseteq Phases /\ {"container", "health", "boot"} \subseteq Phases
  BY DEF Phases, Started, Prepare
<1> QED BY <1>1, <1>2 DEF Advances

\* Who is completed is active, and nothing that needs it has begun.
LEMMA PollAdvances == ASSUME Inv, Poll, pc' # "except" PROVE Advances
<1>1. CASE UNCHANGED phase BY <1>1 DEF Advances, Prepare, Phases, Started
<1>2. CASE phase' = [phase EXCEPT ![Head(left)] = "complete"]
  <2> DEFINE j == Head(left)
  <2>1. PICK s \in Spots : todo = s.todo /\ active = s.active /\ Pace(s.ahead, Range(active))
    BY DEF Inv, OnWay, Poll
  <2>2. /\ left \in {<<"weights">>, <<"image">>, <<"container">>, <<"weights", "image">>}
        /\ Range(left) \subseteq Range(active) /\ phase["health"] = "none"
    BY DEF Inv, Passes, OnWay, Poll
  <2>3. j \in Range(left) /\ j \in Started BY <2>2, RangeOf DEF Started, Prepare
  <2>4. j \in Phases /\ j # "health" BY <2>3 DEF Phases, Started, Prepare
  <2> HIDE DEF j
  <2>5. phase[j] = "start" BY <2>1, <2>2, <2>3 DEF Pace
  <2>6. j \in Prepare => phase["container"] = "none" BY <2>5 DEF Inv, BothBefore
  <2>7. Last(j) = "complete" BY <2>3 DEF Last
  <2>8. phase' = [phase EXCEPT ![j] = "complete"] BY <1>2 DEF j
  <2> QED BY <2>2, <2>4, <2>5, <2>6, <2>7, <2>8, AdvanceOne
<1> QED BY <1>1, <1>2 DEF Poll, Noted, Raise

LEMMA Changes == ASSUME Inv, HealthOn, Good, Good', [Next]_vars PROVE Advances /\ HealthOn'
<1>1. /\ pc \notin {"status"} \cup Ending => phase["boot"] = "start"
      /\ pc = "status" => phase["boot"] # "ready"
  BY DEF Inv, Judged
<1>2. CASE UNCHANGED phase /\ (pc' \in {"health", "probe"} => pc \in {"health", "probe"})
  <2>1. Advances BY <1>2 DEF Advances, Prepare, Phases, Started
  <2> QED BY <1>2, <2>1 DEF HealthOn
<1>3. CASE \E j \in Started : Launch(j)
  <2>1. PICK j \in Started : Launch(j) BY <1>3
  <2>2. PICK s \in Spots : todo = s.todo /\ active = s.active /\ Pace(s.ahead, Range(active))
    BY <2>1 DEF Inv, OnWay, Launch, Doing
  <2>3. phase[j] = "none" BY <2>1, <2>2, LaunchSpot DEF Launch, Doing, Pace
  <2>4. phase' = [phase EXCEPT ![j] = "start"] /\ pc' \in {"run", "except"} /\ j \in Phases
        /\ j # "health"
    BY <2>1 DEF Launch, Noted, Continue, Raise, Phases, Started, Prepare
  <2>5. Advances BY <2>3, <2>4, AdvanceOne
  <2> QED BY <2>4, <2>5 DEF HealthOn
<1>4. CASE Poll
  <2>1. pc = "poll" /\ pc' \in {"run", "poll", "except"} BY <1>4 DEF Poll, Continue, Raise
  <2>2. pc' # "except"
    <3> SUFFICES ASSUME pc' = "except" PROVE FALSE OBVIOUS
    <3>1. Inv' BY <1>4, PollStep
    <3>2. phase'["boot"] = "start" BY <3>1 DEF Inv, Judged, Ending
    <3> QED BY <3>2 DEF Good, Trying
  <2>3. Advances BY <1>4, <2>2, PollAdvances
  <2> QED BY <2>1, <2>3 DEF HealthOn
<1>5. CASE HealthStarts
  <2>1. pc = "run" /\ pc' = "health" /\ phase' = [phase EXCEPT !["health"] = "start"]
    BY <1>5 DEF HealthStarts, Doing, Noted, Continue
  <2>2. phase["health"] = "none" /\ phase["boot"] = "start" BY <1>1, <2>1 DEF Inv, OnWay, Ending
  <2>3. "health" \in Phases /\ "health" \notin Prepare BY DEF Phases, Prepare
  <2>4. Advances BY <2>1, <2>2, <2>3, AdvanceOne
  <2>5. phase'["health"] = "start" BY <2>1, <2>3 DEF Inv, Typed
  <2> QED BY <2>4, <2>5 DEF HealthOn
<1>6. CASE phase' = [phase EXCEPT !["health"] = "ready", !["boot"] = "ready"] /\ Probe
  <2>1. pc = "probe" /\ pc' \in {"cleanup", "health", "except"} /\ phase["health"] = "start"
    BY <1>6 DEF Probe, Continue, Raise, HealthOn
  <2>2. phase["boot"] = "start" BY <1>1, <2>1 DEF Ending
  <2>3. /\ phase'["health"] = "ready" /\ phase'["boot"] = "ready"
        /\ \A p \in Phases \ {"health", "boot"} : phase'[p] = phase[p]
        /\ Prepare \subseteq Phases \ {"health", "boot"} /\ "container" \in Phases \ {"health", "boot"}
        /\ "health" \notin Started /\ "boot" \notin Started
    BY <1>6 DEF Inv, Typed, Phases, Started, Prepare
  <2>4. Advances BY <2>1, <2>2, <2>3 DEF Advances, Last
  <2>5. pc' \notin {"health", "probe"}
    <3>1. Inv' BY <1>6, ProbeStep
    <3> QED BY <2>3, <3>1 DEF Inv, Judged, Ending
  <2> QED BY <2>4, <2>5 DEF HealthOn
<1>7. CASE Except
  <2>1. pc = "except" /\ pc' = "status" BY <1>7 DEF Except, Continue
  <2>2. Inv' BY <1>7, ExceptStep
  <2> QED BY <2>1, <2>2 DEF Good, Trying, Inv, Judged
<1>8. ASSUME Begin \/ Await \/ Health \/ (Probe /\ UNCHANGED phase) \/ ExitCode \/ Cleanup
               \/ (\E j \in Jobs : JobStep(j)) \/ Signal \/ Expire \/ UNCHANGED vars
      PROVE UNCHANGED phase /\ (pc' \in {"health", "probe"} => pc \in {"health", "probe"})
  BY <1>8 DEF Begin, Await, Health, Probe, ExitCode, Cleanup, JobStep, Signal, Expire, vars, Raise,
              Continue
<1>9. Probe => UNCHANGED phase \/ phase' = [phase EXCEPT !["health"] = "ready", !["boot"] = "ready"]
  BY DEF Probe
<1> QED BY <1>2, <1>3, <1>4, <1>5, <1>6, <1>7, <1>8, <1>9 DEF Next, MainStep

-----------------------------------------------------------------------------
(* What the events say *)

Told(x) == \E i \in DOMAIN records : records[i] = x

FirstEvent == 1 \in DOMAIN records /\ records[1] = Event("boot", "start")

Latest == \A p \in Phases : phase[p] # "none" => Told(Event(p, phase[p]))

ReadyLast == \A i \in DOMAIN records :
  records[i] = Event("boot", "ready") => phase["boot"] = "ready" /\ \A j \in DOMAIN records : j <= i

\* On the way to READY: what has started has said so, what is said to have ended has,
\* nothing has failed, and nothing is said twice ...
StartsTold == \A p \in Phases : phase[p] # "none" <=> Told(Event(p, "start"))
EndsTold == \A p \in Phases, s \in {"complete", "ready"} : Told(Event(p, s)) => phase[p] = s
NoneBad == \A i \in DOMAIN records : records[i].status \notin Bad
SaidOnce == \A i, j \in DOMAIN records :
  records[i] = records[j] /\ records[i].status # "cache" => i = j

\* ... and in this order.
Orders == {<<Event(p, "start"), Event(p, Milestone(p))>> : p \in Measured}
          \cup {<<Event(p, "complete"), Event("container", "start")>> : p \in Prepare}
          \cup {<<Event("container", "complete"), Event("health", "start")>>,
                <<Event("health", "ready"), Event("boot", "ready")>>}
InOrder == \A o \in Orders : \A i, j \in DOMAIN records :
  records[i] = o[1] /\ records[j] = o[2] => i < j

RecordInv ==
  /\ records \in Seq(AnyEvent) /\ FirstEvent /\ Latest /\ ReadyLast
  /\ Good => HealthOn /\ StartsTold /\ EndsTold /\ NoneBad /\ SaidOnce /\ InOrder

LEMMA EventIs ==
  ASSUME NEW p, NEW s
  PROVE Event(p, s).phase = p /\ Event(p, s).status = s
BY DEF Event

LEMMA EventOf ==
  ASSUME NEW e \in AnyEvent
  PROVE e = Event(e.phase, e.status) /\ e.phase \in Phases /\ e.status \in Statuses \cup {"cache"}
BY DEF AnyEvent, Event

\* A step only adds events: those of the phases that change, and of caches.
LEMMA Adds ==
  ASSUME Inv, RecordInv, [Next /\ Record]_allvars
  PROVE /\ records' \in Seq(AnyEvent) /\ DOMAIN records \subseteq DOMAIN records'
        /\ \A i \in DOMAIN records : records'[i] = records[i]
        /\ \A i \in Fresh :
             /\ \A k \in DOMAIN records : k < i
             /\ \/ records'[i].status = "cache" /\ seen' # seen
                \/ \E p \in Phases : phase'[p] # phase[p] /\ records'[i] = Event(p, phase'[p])
        /\ \A p \in Phases : phase'[p] # phase[p] => \E i \in Fresh : records'[i] = Event(p, phase'[p])
        /\ \A i, j \in Fresh : i < j /\ records'[i].status # "cache"
             => records'[j].status # "cache" /\ Rank[records'[i].phase] < Rank[records'[j].phase]
        /\ [Next]_vars /\ Inv'
<1>1. [Next]_vars BY DEF allvars, vars
<1>2. Inv' BY <1>1, InvPreserved
<1>3. CASE UNCHANGED allvars BY <1>1, <1>2, <1>3 DEF allvars, vars, RecordInv, Fresh
<1>4. CASE Record
  <2>1. phase' \in [Phases -> Statuses] BY <1>2 DEF Inv, Typed
  <2>2. seen' \ seen \subseteq Phases BY <1>1, Seen
  <2>3. records \in Seq(AnyEvent) BY DEF RecordInv
  <2> QED BY <1>1, <1>2, <1>4, <2>1, <2>2, <2>3, Appended
<1> QED BY <1>3, <1>4

LEMMA KeepsTold ==
  ASSUME Inv, RecordInv, [Next /\ Record]_allvars, NEW x, Told(x)
  PROVE \E i \in DOMAIN records' : records'[i] = x
<1>1. PICK i \in DOMAIN records : records[i] = x BY DEF Told
<1>2. i \in DOMAIN records' /\ records'[i] = records[i] BY Adds
<1> QED BY <1>1, <1>2

\* READY is the end.
LEMMA NothingAfterReady ==
  ASSUME Inv, [Next]_vars, phase["boot"] = "ready"
  PROVE UNCHANGED <<phase, seen>>
<1>1. pc \in Ending BY DEF Inv, Judged, Typed
<1> QED BY <1>1 DEF Next, MainStep, Begin, Launch, Doing, Await, Poll, HealthStarts, Health, Probe,
       Except, ExitCode, Cleanup, JobStep, Signal, Expire, vars, Ending

LEMMA GoodBefore == ASSUME Inv, [Next]_vars, Good' PROVE Good
<1>1. CASE pc' = pc /\ phase' = phase BY <1>1 DEF Good
<1>2. CASE pc \in {"begin"} \cup Trying BY <1>2 DEF Good
<1>3. CASE Except
  <2>1. pc' = "status" /\ Inv' BY <1>3, ExceptStep DEF Except, Continue
  <2> QED BY <2>1 DEF Good, Trying, Inv, Judged
<1>4. CASE ExitCode
  <2>1. pc' = "cleanup" /\ UNCHANGED phase BY <1>4 DEF ExitCode, Continue
  <2> QED BY <2>1 DEF Good, Trying
<1>5. CASE Cleanup
  <2>1. pc' = "done" /\ UNCHANGED phase BY <1>5 DEF Cleanup, Continue
  <2> QED BY <2>1 DEF Good, Trying
<1> QED BY <1>1, <1>2, <1>3, <1>4, <1>5
    DEF Next, MainStep, Begin, Launch, Doing, Await, Poll, HealthStarts, Health, Probe, JobStep,
        Signal, Expire, vars, Trying

LEMMA AlwaysKept ==
  ASSUME Inv, RecordInv, [Next /\ Record]_allvars
  PROVE FirstEvent' /\ Latest' /\ ReadyLast'
<1>1. /\ records' \in Seq(AnyEvent) /\ DOMAIN records \subseteq DOMAIN records'
      /\ \A i \in DOMAIN records : records'[i] = records[i]
  BY Adds
<1>2. FirstEvent' BY <1>1 DEF RecordInv, FirstEvent
<1>3. Latest'
  <2> SUFFICES ASSUME NEW p \in Phases, phase'[p] # "none"
               PROVE \E i \in DOMAIN records' : records'[i] = Event(p, phase'[p])
    BY DEF Latest, Told
  <2>1. CASE phase'[p] = phase[p]
    <3>1. Told(Event(p, phase[p])) BY <2>1 DEF RecordInv, Latest
    <3> QED BY <2>1, <3>1, KeepsTold
  <2>2. CASE phase'[p] # phase[p] BY <2>2, Adds DEF Fresh
  <2> QED BY <2>1, <2>2
<1>4. ReadyLast'
  <2> SUFFICES ASSUME NEW i \in DOMAIN records', records'[i] = Event("boot", "ready")
               PROVE phase'["boot"] = "ready" /\ \A j \in DOMAIN records' : j <= i
    BY DEF ReadyLast
  <2>1. CASE i \in DOMAIN records
    <3>1. phase["boot"] = "ready" /\ \A j \in DOMAIN records : j <= i
      BY <1>1, <2>1 DEF RecordInv, ReadyLast
    <3>2. UNCHANGED <<phase, seen>> BY <3>1, Adds, NothingAfterReady
    <3>3. Fresh = {} BY <3>2, Adds
    <3> QED BY <3>1, <3>2, <3>3 DEF Fresh
  <2>2. CASE i \in Fresh
    <3>1. records'[i].phase = "boot" /\ records'[i].status = "ready" BY EventIs
    <3>2. PICK p \in Phases : phase'[p] # phase[p] /\ records'[i] = Event(p, phase'[p])
      BY <2>2, <3>1, Adds
    <3>3. p = "boot" /\ phase'[p] = "ready" BY <3>1, <3>2, EventIs
    <3>4. \A j \in DOMAIN records : j < i BY <2>2, Adds
    <3>5. ASSUME NEW j \in Fresh, i < j PROVE FALSE
      <4>1. Rank["boot"] < Rank[records'[j].phase] BY <2>2, <3>1, <3>5, Adds
      <4>2. records'[j].phase \in Phases BY <1>1, EventOf DEF Fresh
      <4> QED BY <4>1, <4>2, Ranks
    <3>6. \A j \in DOMAIN records' : j \in Nat BY <1>1
    <3> QED BY <3>3, <3>4, <3>5, <3>6 DEF Fresh
  <2> QED BY <2>1, <2>2 DEF Fresh
<1> QED BY <1>2, <1>3, <1>4

\* A new event of a phase says what the phase has changed to.
LEMMA NewEvent ==
  ASSUME Inv, RecordInv, [Next /\ Record]_allvars, NEW i \in Fresh, records'[i].status # "cache"
  PROVE LET p == records'[i].phase
        IN p \in Phases /\ phase'[p] # phase[p] /\ records'[i] = Event(p, phase'[p])
<1>1. PICK p \in Phases : phase'[p] # phase[p] /\ records'[i] = Event(p, phase'[p]) BY Adds
<1> QED BY <1>1, EventIs

LEMMA NoCacheStatus == "cache" \notin {"start", "complete", "ready"} \cup Bad
BY DEF Bad

\* On the way to READY
LEMMA GoodKept ==
  ASSUME Inv, RecordInv, [Next /\ Record]_allvars, Good'
  PROVE HealthOn' /\ StartsTold' /\ EndsTold' /\ NoneBad' /\ SaidOnce' /\ InOrder'
<1>1. /\ records' \in Seq(AnyEvent) /\ DOMAIN records \subseteq DOMAIN records'
      /\ \A i \in DOMAIN records : records'[i] = records[i]
      /\ [Next]_vars
  BY Adds
<1>2. Good /\ HealthOn /\ StartsTold /\ EndsTold /\ NoneBad /\ SaidOnce /\ InOrder
  BY <1>1, GoodBefore DEF RecordInv
<1>3. Advances /\ HealthOn' BY <1>1, <1>2, Changes
<1>4. \A p \in Phases : Last(p) \in {"complete", "ready"} BY DEF Last
\* What is told: before this step, or now
<1>5. ASSUME NEW p, NEW s \in {"start", "complete", "ready"} \cup Bad,
             NEW i \in Fresh, records'[i] = Event(p, s)
      PROVE p \in Phases /\ phase'[p] # phase[p] /\ s = phase'[p]
  <2>1. records'[i].phase = p /\ records'[i].status = s BY <1>5, EventIs
  <2>2. records'[i].status # "cache" BY <2>1, NoCacheStatus
  <2>3. p \in Phases /\ phase'[p] # phase[p] /\ records'[i] = Event(p, phase'[p])
    BY <2>1, <2>2, NewEvent
  <2> QED BY <2>1, <2>3, EventIs
<1>6. StartsTold'
  <2> SUFFICES ASSUME NEW p \in Phases
               PROVE phase'[p] # "none" <=> \E i \in DOMAIN records' : records'[i] = Event(p, "start")
    BY DEF StartsTold, Told
  <2>1. CASE phase'[p] = phase[p]
    <3>1. ASSUME phase'[p] # "none" PROVE \E i \in DOMAIN records' : records'[i] = Event(p, "start")
      <4>1. Told(Event(p, "start")) BY <1>2, <2>1, <3>1 DEF StartsTold
      <4> QED BY <4>1, KeepsTold
    <3>2. ASSUME NEW i \in DOMAIN records', records'[i] = Event(p, "start") PROVE phase'[p] # "none"
      <4>1. i \in DOMAIN records BY <1>5, <2>1, <3>2 DEF Fresh
      <4>2. Told(Event(p, "start")) BY <1>1, <3>2, <4>1 DEF Told
      <4> QED BY <1>2, <2>1, <4>2 DEF StartsTold
    <3> QED BY <3>1, <3>2
  <2>2. CASE phase'[p] # phase[p]
    <3>1. phase'[p] # "none" BY <1>3, <1>4, <2>2 DEF Advances
    <3>2. CASE phase[p] = "none"
      <4>1. phase'[p] = "start" BY <1>3, <2>2, <3>2 DEF Advances
      <4> QED BY <2>2, <3>1, <4>1, Adds DEF Fresh
    <3>3. CASE phase[p] # "none"
      <4>1. Told(Event(p, "start")) BY <1>2, <3>3 DEF StartsTold
      <4> QED BY <3>1, <4>1, KeepsTold
    <3> QED BY <3>2, <3>3
  <2> QED BY <2>1, <2>2
<1>7. EndsTold'
  <2> SUFFICES ASSUME NEW p \in Phases, NEW s \in {"complete", "ready"},
                      NEW i \in DOMAIN records', records'[i] = Event(p, s)
               PROVE phase'[p] = s
    BY DEF EndsTold, Told
  <2>1. CASE i \in DOMAIN records
    <3>1. Told(Event(p, s)) BY <1>1, <2>1 DEF Told
    <3>2. phase[p] = s BY <1>2, <3>1 DEF EndsTold
    <3> QED BY <1>3, <3>2 DEF Advances
  <2>2. CASE i \in Fresh BY <1>5, <2>2
  <2> QED BY <2>1, <2>2 DEF Fresh
<1>8. NoneBad'
  <2> SUFFICES ASSUME NEW i \in DOMAIN records', records'[i].status \in Bad PROVE FALSE
    BY DEF NoneBad
  <2>1. i \in Fresh BY <1>1, <1>2 DEF NoneBad, Fresh
  <2>2. records'[i].status # "cache" BY NoCacheStatus
  <2> DEFINE p == records'[i].phase
  <2>3. p \in Phases /\ phase'[p] # phase[p] /\ records'[i] = Event(p, phase'[p])
    BY <2>1, <2>2, NewEvent
  <2> HIDE DEF p
  <2>4. phase'[p] \in Bad BY <2>3, EventIs
  <2> QED BY <1>3, <1>4, <2>3, <2>4 DEF Advances, Bad
<1>9. SaidOnce'
  <2> SUFFICES ASSUME NEW i \in DOMAIN records', NEW j \in DOMAIN records',
                      records'[i] = records'[j], records'[i].status # "cache"
               PROVE i = j
    BY DEF SaidOnce
  \* An event that was told is not told again.
  <2>1. ASSUME NEW k \in DOMAIN records, NEW l \in Fresh, records[k] = records'[l],
               records'[l].status # "cache"
        PROVE FALSE
    <3> DEFINE p == records'[l].phase
    <3>1. p \in Phases /\ phase'[p] # phase[p] /\ records'[l] = Event(p, phase'[p])
      BY <2>1, NewEvent
    <3> HIDE DEF p
    <3>2. Told(Event(p, phase'[p])) BY <2>1, <3>1 DEF Told
    <3>3. CASE phase'[p] = "start" BY <1>2, <1>3, <3>1, <3>2, <3>3 DEF StartsTold, Advances
    <3>4. CASE phase'[p] \in {"complete", "ready"} BY <1>2, <3>1, <3>2, <3>4 DEF EndsTold
    <3> QED BY <1>3, <1>4, <3>1, <3>3, <3>4 DEF Advances
  <2>2. ASSUME i \in Fresh, j \in Fresh PROVE i = j
    <3>1. i \in Nat /\ j \in Nat BY <1>1
    <3>2. records'[i].phase \in Phases BY <1>1, EventOf
    <3>3. ~(Rank[records'[i].phase] < Rank[records'[j].phase])
          /\ ~(Rank[records'[j].phase] < Rank[records'[i].phase])
      BY <3>2, Ranks
    <3> QED BY <2>2, <3>1, <3>3, Adds
  <2>3. i \in DOMAIN records /\ j \in DOMAIN records => i = j BY <1>1, <1>2 DEF SaidOnce
  <2> QED BY <1>1, <2>1, <2>2, <2>3 DEF Fresh
<1>10. InOrder'
  <2> SUFFICES ASSUME NEW o \in Orders, NEW i \in DOMAIN records', NEW j \in DOMAIN records',
                      records'[i] = o[1], records'[j] = o[2]
               PROVE i < j
    BY DEF InOrder
  <2>1. PICK p, s, q, t :
          /\ o[1] = Event(p, s) /\ o[2] = Event(q, t)
          /\ \/ p = q /\ p \in Measured /\ s = "start" /\ t = Milestone(p)
             \/ p \in Prepare /\ s = "complete" /\ q = "container" /\ t = "start"
             \/ p = "container" /\ s = "complete" /\ q = "health" /\ t = "start"
             \/ p = "health" /\ s = "ready" /\ q = "boot" /\ t = "ready"
    <3>1. o \in {<<Event(p, "start"), Event(p, Milestone(p))>> : p \in Measured}
          \/ o \in {<<Event(p, "complete"), Event("container", "start")>> : p \in Prepare}
          \/ o = <<Event("container", "complete"), Event("health", "start")>>
          \/ o = <<Event("health", "ready"), Event("boot", "ready")>>
      BY DEF Orders
    <3> QED BY <3>1
  <2>2. /\ s \in {"start", "complete", "ready"} /\ t \in {"start", "complete", "ready"}
        /\ p \in Phases /\ q \in Phases
    BY <2>1 DEF Milestone, Measured, Prepare, Phases, Started
  <2>3. CASE i \in DOMAIN records /\ j \in DOMAIN records BY <1>1, <1>2, <2>3 DEF InOrder
  <2>4. CASE i \in DOMAIN records /\ j \in Fresh BY <2>4, Adds
  <2>5. CASE i \in Fresh /\ j \in DOMAIN records
    <3>1. phase'[p] # phase[p] /\ phase'[p] = s BY <1>5, <2>1, <2>2, <2>5
    <3>2. Told(Event(q, t)) BY <1>1, <2>1, <2>5 DEF Told
    <3>3. t = "start" => phase[q] # "none" BY <1>2, <2>2, <3>2 DEF StartsTold
    <3>4. t # "start" => phase[q] = t BY <1>2, <2>2, <3>2 DEF EndsTold
    <3> QED BY <1>3, <2>1, <2>2, <3>1, <3>3, <3>4 DEF Advances, Milestone
  <2>6. CASE i \in Fresh /\ j \in Fresh
    <3>1. phase'[p] = s /\ phase'[q] = t BY <1>5, <2>1, <2>2, <2>6
    <3>2. p # q BY <2>1, <3>1 DEF Milestone
    <3>3. Rank[p] < Rank[q] BY <2>1, <3>2, Ranks DEF Prepare
    <3>4. records'[i].phase = p /\ records'[j].phase = q /\ records'[j].status # "cache"
      BY <2>1, <2>2, EventIs
    <3>5. ~(j < i) /\ i # j
      <4>1. ~(Rank[q] < Rank[p]) BY <2>2, <3>3, Ranks
      <4> QED BY <2>6, <3>2, <3>4, <4>1, Adds
    <3>6. i \in Nat /\ j \in Nat BY <1>1
    <3> QED BY <3>5, <3>6
  <2> QED BY <2>3, <2>4, <2>5, <2>6 DEF Fresh
<1> QED BY <1>3, <1>6, <1>7, <1>8, <1>9, <1>10

LEMMA RecordPreserved ==
  Inv /\ RecordInv /\ [Next /\ Record]_allvars => Inv' /\ RecordInv'
<1> SUFFICES ASSUME Inv, RecordInv, [Next /\ Record]_allvars PROVE Inv' /\ RecordInv'
  OBVIOUS
<1>1. Inv' /\ records' \in Seq(AnyEvent) BY Adds
<1>2. FirstEvent' /\ Latest' /\ ReadyLast' BY AlwaysKept
<1>3. Good' => HealthOn' /\ StartsTold' /\ EndsTold' /\ NoneBad' /\ SaidOnce' /\ InOrder'
  BY GoodKept
<1> QED BY <1>1, <1>2, <1>3 DEF RecordInv

LEMMA InitRecord == ReportInit => Inv /\ RecordInv
<1> SUFFICES ASSUME ReportInit PROVE Inv /\ RecordInv
  OBVIOUS
<1> DEFINE first == Event("boot", "start")
<1>1. Inv BY InitInv DEF ReportInit
<1>2. /\ pc = "begin" /\ phase["boot"] = "start"
      /\ \A p \in Measured : p \in Phases /\ phase[p] = "none"
      /\ Phases = Measured \cup {"boot"}
  BY DEF ReportInit, Init, Phases, Started, Prepare, Measured
<1>3. first \in AnyEvent BY DEF Event, AnyEvent, Phases, Statuses
<1>4. /\ records \in Seq(AnyEvent) /\ DOMAIN records = {1} /\ records[1] = first
  BY <1>3 DEF ReportInit
<1>5. first.phase = "boot" /\ first.status = "start" BY EventIs
<1>6. \A p, s : first = Event(p, s) => p = "boot" /\ s = "start" BY <1>5, EventIs
<1> HIDE DEF first
<1>7. FirstEvent BY <1>4 DEF FirstEvent, first
<1>8. \A x : Told(x) <=> x = first BY <1>4 DEF Told
<1>9. Latest BY <1>2, <1>8 DEF Latest, first
<1>10. ReadyLast BY <1>4, <1>6 DEF ReadyLast
<1>11. HealthOn BY <1>2 DEF HealthOn
<1>12. StartsTold /\ EndsTold
  <2>1. \A p \in Phases : Told(Event(p, "start")) <=> p = "boot" BY <1>6, <1>8 DEF first
  <2>2. \A p \in Phases, s \in {"complete", "ready"} : ~Told(Event(p, s)) BY <1>6, <1>8
  <2>3. \A p \in Phases : phase[p] # "none" <=> p = "boot" BY <1>2 DEF Measured
  <2> QED BY <2>1, <2>2, <2>3 DEF StartsTold, EndsTold
<1>13. NoneBad BY <1>4, <1>5 DEF NoneBad, Bad
<1>14. SaidOnce BY <1>4 DEF SaidOnce
<1>15. InOrder
  <2>1. \A o \in Orders : \E q, t : o[2] = Event(q, t) /\ (q # "boot" \/ t = "ready")
    <3> SUFFICES ASSUME NEW o \in Orders
                 PROVE \E q, t : o[2] = Event(q, t) /\ (q # "boot" \/ t = "ready")
      OBVIOUS
    <3>1. \/ \E p \in Measured : o = <<Event(p, "start"), Event(p, Milestone(p))>>
          \/ \E p \in Prepare : o = <<Event(p, "complete"), Event("container", "start")>>
          \/ o = <<Event("container", "complete"), Event("health", "start")>>
          \/ o = <<Event("health", "ready"), Event("boot", "ready")>>
      BY DEF Orders
    <3> QED BY <3>1 DEF Measured
  <2> QED BY <1>4, <1>6, <2>1 DEF InOrder
<1> QED BY <1>1, <1>4, <1>7, <1>9, <1>10, <1>11, <1>12, <1>13, <1>14, <1>15 DEF RecordInv

LEMMA RecordInvariant == ReportSpec => [](Inv /\ RecordInv)
BY InitRecord, RecordPreserved, PTL DEF ReportSpec
-----------------------------------------------------------------------------
(* What a report reads from an export *)

Got(kept, jump) == {Line(i, jump) : i \in kept}

\* The verdict from the events that a file holds
Says(kept, jump, damaged) ==
  LET events == Got(kept, jump) IN
    IF Failed(events) THEN "failed"
    ELSE IF \/ Unfinished(events) \/ damaged \/ Gap(events) \/ Jumped(events)
            \/ Twice(events) \/ Disorder(events)
         THEN "incomplete" ELSE "ready"

LEMMA LineSays ==
  ASSUME NEW i, NEW jump
  PROVE Line(i, jump).phase = records[i].phase /\ Line(i, jump).status = records[i].status
BY DEF Line

LEMMA Lines ==
  ASSUME records \in Seq(AnyEvent)
  PROVE /\ Len(records) \in Nat /\ DOMAIN records = 1..Len(records)
        /\ \A i \in DOMAIN records : i \in Nat /\ records[i] = Event(records[i].phase, records[i].status)
        /\ \A i, jump : /\ Line(i, jump).seq = i - 1
                        /\ Line(i, jump).phase = records[i].phase
                        /\ Line(i, jump).status = records[i].status
                        /\ i > jump => Line(i, jump).skew = TRUE
                        /\ ~(i > jump) => Line(i, jump).skew = FALSE
<1>1. \A i \in DOMAIN records : records[i] \in AnyEvent OBVIOUS
<1>2. \A i, jump : /\ Line(i, jump).seq = i - 1 /\ Line(i, jump).phase = records[i].phase
                   /\ Line(i, jump).status = records[i].status
  BY DEF Line
<1>3. ASSUME NEW i, NEW jump
      PROVE (i > jump => Line(i, jump).skew = TRUE) /\ (~(i > jump) => Line(i, jump).skew = FALSE)
  <2> DEFINE later == i > jump
  <2>1. Line(i, jump).skew = later BY DEF Line
  <2>2. later \in BOOLEAN OBVIOUS
  <2> HIDE DEF later
  <2>3. (later => Line(i, jump).skew = TRUE) /\ (~later => Line(i, jump).skew = FALSE)
    BY <2>1, <2>2
  <2> QED BY <2>3 DEF later
<1>4. /\ Len(records) \in Nat /\ DOMAIN records = 1..Len(records)
      /\ \A i \in DOMAIN records : i \in Nat /\ records[i] = Event(records[i].phase, records[i].status)
  BY <1>1, EventOf
<1> QED BY <1>2, <1>3, <1>4, Zenon

LEMMA NatMin == ASSUME NEW T, T \subseteq Nat, T # {} PROVE \E x \in T : \A y \in T : x <= y
<1> DEFINE R == OpToRel(<, Nat)
<1>1. IsWellFoundedOn(R, Nat) BY NatLessThanWellFounded
<1>2. \A ss : ss \in R <=> ss \in Nat \X Nat /\ ss[1] < ss[2] BY DEF OpToRel
<1> HIDE DEF R
<1>3. PICK x \in T : \A y \in T : <<y, x>> \notin R BY <1>1, WFMin
<1>4. \A y \in T : ~(y < x) BY <1>2, <1>3
<1> QED BY <1>4

\* Repetition and order make no difference.
LEMMA Exported ==
  ASSUME records \in Seq(AnyEvent), NEW S \in SUBSET Nat, NEW number \in [S -> DOMAIN records],
         NEW jump
  PROVE BySeq(File(number, jump)) = Got(Range(number), jump) /\ ~Conflict(File(number, jump))
<1> DEFINE X == File(number, jump)
<1>1. DOMAIN X = S /\ \A k \in S : X[k] = Line(number[k], jump) BY DEF File
<1>2. \A i : Line(i, jump).seq = i - 1 BY Lines
<1>3. \A i, j \in DOMAIN records : i - 1 = j - 1 => i = j BY Lines
<1> HIDE DEF X
<1>4. \A k, l \in S : X[k].seq = X[l].seq => number[k] = number[l] BY <1>1, <1>2, <1>3
<1>5. ~Conflict(X) BY <1>1, <1>4 DEF Conflict
<1>6. \A e \in BySeq(X) : e \in Got(Range(number), jump)
  <2>1. \A k \in S : number[k] \in Range(number) BY DEF Range
  <2> QED BY <1>1, <2>1 DEF BySeq, Got
<1>7. ASSUME NEW i \in Range(number) PROVE Line(i, jump) \in BySeq(X)
  <2> DEFINE T == {k \in S : number[k] = i}
  <2>1. T \subseteq Nat /\ T # {} BY DEF Range
  <2>2. PICK l \in T : \A k \in T : l <= k BY <2>1, NatMin
  <2>3. l \in S /\ number[l] = i /\ X[l] = Line(i, jump) BY <1>1, <2>2
  <2>4. \A k \in S : k < l => number[k] # i BY <2>2
  <2>5. \A k \in S : k < l => X[k].seq # X[l].seq BY <1>4, <2>3, <2>4
  <2> QED BY <1>1, <2>3, <2>5 DEF BySeq
<1> QED BY <1>5, <1>6, <1>7 DEF Got, X

LEMMA Reading ==
  ASSUME RecordInv, NEW S \in SUBSET Nat, NEW number \in [S -> DOMAIN records], NEW jump, NEW damaged
  PROVE Verdict(File(number, jump), damaged) = Says(Range(number), jump, damaged)
<1>1. BySeq(File(number, jump)) = Got(Range(number), jump) /\ ~Conflict(File(number, jump))
  BY Exported DEF RecordInv
<1> QED BY <1>1 DEF Verdict, Says

LEMMA SoundReport ==
  ASSUME Inv, RecordInv, NEW kept, kept \subseteq DOMAIN records, NEW jump \in 1..Intact,
         NEW damaged, Says(kept, jump, damaged) = "ready"
  PROVE phase["boot"] = "ready" /\ kept = DOMAIN records /\ jump = Intact /\ ~damaged
<1> DEFINE events == Got(kept, jump)
           n == Len(records)
<1>1. n = Intact /\ jump \in 1..n BY DEF Intact
<1>2. /\ n \in Nat /\ DOMAIN records = 1..n
      /\ \A i \in 1..n : i \in Nat /\ records[i] = Event(records[i].phase, records[i].status)
      /\ \A i : /\ Line(i, jump).seq = i - 1 /\ Line(i, jump).phase = records[i].phase
                /\ Line(i, jump).status = records[i].status
                /\ i > jump => Line(i, jump).skew = TRUE
                /\ ~(i > jump) => Line(i, jump).skew = FALSE
  BY Lines DEF RecordInv
<1> HIDE DEF n, events
<1>3. ~Unfinished(events) /\ ~damaged /\ ~Gap(events) /\ ~Jumped(events)
  BY DEF Says, events
\* READY was received, and is the last event.
<1>4. n \in 1..n /\ n \in kept /\ phase["boot"] = "ready"
  <2>1. With(events, "boot", "ready") # {}
    <3>1. <<"boot", "ready">> \in Once BY DEF Once
    <3> QED BY <1>3, <3>1 DEF Unfinished
  <2>2. PICK e \in events : e.phase = "boot" /\ e.status = "ready" BY <2>1 DEF With
  <2>3. PICK i \in 1..n : i \in kept /\ e = Line(i, jump) BY <1>2, <2>2 DEF events, Got
  <2>4. records[i] = Event("boot", "ready") BY <1>2, <2>2, <2>3
  <2>5. phase["boot"] = "ready" /\ \A j \in 1..n : j <= i
    BY <1>2, <2>4 DEF RecordInv, ReadyLast
  <2>6. n \in 1..n BY <1>2, <2>3
  <2>7. n <= i BY <2>5, <2>6
  <2>8. i = n BY <1>2, <2>3, <2>7
  <2> QED BY <2>3, <2>5, <2>6, <2>8
\* A loss before it leaves a gap, ...
<1>5. kept = 1..n
  <2> SUFFICES ASSUME NEW i \in 1..n, i \notin kept PROVE FALSE
    BY <1>2
  <2>1. Line(n, jump) \in events /\ Line(n, jump).seq = n - 1 BY <1>2, <1>4 DEF events, Got
  <2>2. i - 1 \in 0..(n - 1) BY <1>2
  <2>3. ASSUME NEW f \in events, f.seq = i - 1 PROVE FALSE
    <3>1. PICK j \in 1..n : j \in kept /\ f = Line(j, jump) BY <1>2 DEF events, Got
    <3>2. j - 1 = i - 1 BY <1>2, <2>3, <3>1
    <3>3. j = i BY <1>2, <3>1, <3>2
    <3> QED BY <3>1, <3>3
  <2> QED BY <1>3, <2>1, <2>2, <2>3 DEF Gap
\* ... and a jump of the clock two parts.
<1>6. jump = n
  <2> SUFFICES ASSUME jump # n PROVE FALSE
    OBVIOUS
  <2>1. 1 \in 1..n BY <1>2, <1>4
  <2>2. Line(1, jump) \in events /\ Line(n, jump) \in events
    BY <1>2, <1>4, <1>5, <2>1 DEF events, Got
  <2>3. ~(1 > jump) /\ n > jump BY <1>1, <1>2
  <2>4. Line(1, jump).skew = FALSE /\ Line(n, jump).skew = TRUE BY <1>2, <2>3
  <2> QED BY <1>3, <2>2, <2>4 DEF Jumped
<1> QED BY <1>1, <1>2, <1>3, <1>4, <1>5, <1>6

\* A boot that failed has said so, and nothing says that it was READY.
LEMMA FailureReport ==
  ASSUME Inv, RecordInv, Over, code # "zero", NEW kept, kept \subseteq DOMAIN records,
         NEW jump \in 1..Intact, NEW damaged
  PROVE /\ Says(kept, jump, damaged) \in {"failed", "incomplete"}
        /\ kept = DOMAIN records => Says(kept, jump, damaged) = "failed"
<1> DEFINE s == phase["boot"]
<1>1. s \in Bad /\ s # "none" BY DEF Inv, Judged, Over, Ending, Bad
<1>2. PICK i \in DOMAIN records : records[i] = Event("boot", s)
  BY <1>1 DEF RecordInv, Latest, Told, Phases
<1>3. s # "ready" BY <1>1 DEF Bad
<1> HIDE DEF s
<1>4. Says(kept, jump, damaged) # "ready" BY <1>3, SoundReport DEF s
<1>5. Says(kept, jump, damaged) \in {"failed", "incomplete", "ready"} BY DEF Says
<1>6. ASSUME kept = DOMAIN records PROVE Says(kept, jump, damaged) = "failed"
  <2>1. Line(i, jump) \in Got(kept, jump) BY <1>6 DEF Got
  <2>2. Line(i, jump).status = s BY <1>2, LineSays, EventIs
  <2>3. Failed(Got(kept, jump)) BY <1>1, <2>1, <2>2 DEF Failed
  <2> QED BY <2>3 DEF Says
<1> QED BY <1>4, <1>5, <1>6

\* A boot that was READY has said nothing else, ...
LEMMA NoFailure ==
  ASSUME Inv, RecordInv, Over, code = "zero", NEW kept, kept \subseteq DOMAIN records,
         NEW jump, NEW damaged
  PROVE Says(kept, jump, damaged) \in {"ready", "incomplete"} /\ ~Failed(Got(kept, jump))
<1>1. NoneBad BY DEF Inv, Judged, Over, Ending, RecordInv, Good
<1>2. \A e \in Got(kept, jump) : \E i \in DOMAIN records : e.status = records[i].status
  BY LineSays DEF Got
<1>3. ~Failed(Got(kept, jump)) BY <1>1, <1>2 DEF NoneBad, Failed
<1> QED BY <1>3 DEF Says

\* ... and it once and in order.
LEMMA ReadyReport ==
  ASSUME Inv, RecordInv, Over, code = "zero"
  PROVE Says(DOMAIN records, Intact, FALSE) = "ready"
<1> DEFINE n == Len(records)
           events == Got(DOMAIN records, Intact)
<1>1. /\ phase["boot"] = "ready" /\ phase["health"] = "ready"
      /\ \A j \in Started : phase[j] = "complete"
  BY DEF Inv, Judged, Over, Ending
<1>2. StartsTold /\ NoneBad /\ SaidOnce /\ InOrder /\ FirstEvent /\ Latest
  BY <1>1 DEF RecordInv, Good
<1>3. /\ n \in Nat /\ DOMAIN records = 1..n /\ Intact = n
      /\ \A i \in 1..n : i \in Nat /\ records[i] = Event(records[i].phase, records[i].status)
  BY Lines DEF RecordInv, Intact
<1>4. \A i \in 1..n : /\ Line(i, Intact).seq = i - 1 /\ Line(i, Intact).skew = FALSE
                      /\ records[i] = Event(Line(i, Intact).phase, Line(i, Intact).status)
  <2>1. \A i \in 1..n : ~(i > Intact) BY <1>3
  <2> QED BY <1>3, <2>1, Lines DEF RecordInv
<1>5. ~Failed(events) BY NoFailure DEF events
<1> HIDE DEF n, events
<1>6. \A e \in events : \E i \in 1..n : e = Line(i, Intact)
  BY <1>3 DEF events, Got
<1>7. \A i \in 1..n : Line(i, Intact) \in events BY <1>3 DEF events, Got
\* What is needed of an event with a phase and a status
<1>8. ASSUME NEW p, NEW s, NEW e \in With(events, p, s)
      PROVE \E i \in 1..n : e = Line(i, Intact) /\ records[i] = Event(p, s)
  <2>1. e \in events /\ e.phase = p /\ e.status = s BY DEF With
  <2> QED BY <1>4, <1>6, <2>1
<1>9. \A x \in Once : Told(Event(x[1], x[2])) /\ x[2] \in {"start", "complete", "ready"}
  <2>1. \A p \in Measured : /\ p \in Phases /\ phase[p] = Milestone(p) /\ phase[p] # "none"
                            /\ Milestone(p) \in {"complete", "ready"}
    BY <1>1 DEF Measured, Milestone, Phases, Started, Prepare
  <2>2. "boot" \in Phases /\ phase["boot"] # "none" BY <1>1 DEF Phases
  <2>3. \A p \in Measured \cup {"boot"} :
          Told(Event(p, "start")) /\ Told(Event(p, phase[p]))
    BY <1>2, <2>1, <2>2 DEF StartsTold, Latest
  <2> SUFFICES ASSUME NEW x \in Once
               PROVE Told(Event(x[1], x[2])) /\ x[2] \in {"start", "complete", "ready"}
    OBVIOUS
  <2>4. \/ x = <<"boot", "start">> \/ x = <<"boot", "ready">>
        \/ \E p \in Measured : x = <<p, "start">> \/ x = <<p, Milestone(p)>>
    BY DEF Once
  <2> QED BY <1>1, <2>1, <2>3, <2>4
<1>10. ~Unfinished(events)
  <2> SUFFICES ASSUME NEW x \in Once PROVE With(events, x[1], x[2]) # {}
    BY DEF Unfinished
  <2>1. PICK i \in 1..n : records[i] = Event(x[1], x[2]) BY <1>3, <1>9 DEF Told
  <2>2. Line(i, Intact).phase = x[1] /\ Line(i, Intact).status = x[2]
    BY <2>1, LineSays, EventIs
  <2> QED BY <1>7, <2>2 DEF With
<1>11. ~Gap(events)
  <2> SUFFICES ASSUME NEW e \in events, NEW i \in 0..e.seq PROVE \E f \in events : f.seq = i
    BY DEF Gap
  <2>1. PICK k \in 1..n : e = Line(k, Intact) BY <1>6
  <2>2. e.seq = k - 1 BY <1>4, <2>1
  <2>3. i + 1 \in 1..n /\ (i + 1) - 1 = i BY <1>3, <2>2
  <2> QED BY <1>4, <1>7, <2>3
<1>12. ~Jumped(events) BY <1>4, <1>6 DEF Jumped
<1>13. ~Twice(events)
  <2> SUFFICES ASSUME NEW x \in Once, NEW e \in With(events, x[1], x[2]),
                      NEW f \in With(events, x[1], x[2])
               PROVE e = f
    BY DEF Twice
  <2>1. PICK i \in 1..n : e = Line(i, Intact) /\ records[i] = Event(x[1], x[2]) BY <1>8
  <2>2. PICK j \in 1..n : f = Line(j, Intact) /\ records[j] = Event(x[1], x[2]) BY <1>8
  <2>3. records[i].status # "cache" BY <1>9, <2>1, EventIs
  <2> QED BY <1>2, <1>3, <2>1, <2>2, <2>3 DEF SaidOnce
<1>14. ~Disorder(events)
  <2>1. ASSUME NEW p, NEW s, NEW q, NEW t, <<Event(p, s), Event(q, t)>> \in Orders
        PROVE Before(With(events, p, s), With(events, q, t))
    <3> SUFFICES ASSUME NEW e \in With(events, p, s), NEW f \in With(events, q, t)
                 PROVE e.seq < f.seq
      BY DEF Before
    <3>1. PICK i \in 1..n : e = Line(i, Intact) /\ records[i] = Event(p, s) BY <1>8
    <3>2. PICK j \in 1..n : f = Line(j, Intact) /\ records[j] = Event(q, t) BY <1>8
    <3>3. i < j BY <1>2, <1>3, <2>1, <3>1, <3>2 DEF InOrder
    <3>4. e.seq = i - 1 /\ f.seq = j - 1 BY <1>4, <3>1, <3>2
    <3> QED BY <1>3, <3>3, <3>4
  <2>2. ASSUME NEW e \in With(events, "boot", "start") PROVE e.seq = 0
    <3>1. PICK i \in 1..n : e = Line(i, Intact) /\ records[i] = Event("boot", "start") BY <1>8
    <3>2. Event("boot", "start").status # "cache" BY EventIs
    <3>3. i = 1 BY <1>2, <1>3, <3>1, <3>2 DEF SaidOnce, FirstEvent
    <3> QED BY <1>4, <3>1, <3>3
  <2>3. /\ \A p \in Measured : <<Event(p, "start"), Event(p, Milestone(p))>> \in Orders
        /\ \A p \in Prepare : <<Event(p, "complete"), Event("container", "start")>> \in Orders
        /\ <<Event("container", "complete"), Event("health", "start")>> \in Orders
        /\ <<Event("health", "ready"), Event("boot", "ready")>> \in Orders
    BY DEF Orders
  <2>4. /\ \A p \in Measured : Before(With(events, p, "start"), With(events, p, Milestone(p)))
        /\ \A p \in Prepare : Before(With(events, p, "complete"), With(events, "container", "start"))
        /\ Before(With(events, "container", "complete"), With(events, "health", "start"))
        /\ Before(With(events, "health", "ready"), With(events, "boot", "ready"))
    BY <2>1, <2>3
  <2> QED BY <2>2, <2>4 DEF Disorder
<1> QED BY <1>5, <1>10, <1>11, <1>12, <1>13, <1>14 DEF Says, events

\* Any export of one boot: some of its events, each any number of times and in any
\* order, with a jump of the clock at any place and with damaged lines or none.
EveryReportTrue ==
  \A S \in SUBSET Nat : \A number \in [S -> DOMAIN records], jump \in 1..Intact, damaged \in BOOLEAN :
    Truthful(number, jump, damaged)

\* The report of no export says of a boot what its exit status denies, in any run of the
\* boot (boot-report.ts:71-116, boot.sh:110-124).
THEOREM EveryReportIsTrue == ReportSpec => []EveryReportTrue
<1>1. Inv /\ RecordInv => EveryReportTrue
  <2> SUFFICES ASSUME Inv, RecordInv, NEW S \in SUBSET Nat, NEW number \in [S -> DOMAIN records],
                      NEW jump \in 1..Intact, NEW damaged \in BOOLEAN
               PROVE Truthful(number, jump, damaged)
    BY DEF EveryReportTrue
  <2> DEFINE kept == Range(number)
             verdict == Verdict(File(number, jump), damaged)
             intact == kept = DOMAIN records /\ jump = Intact /\ ~damaged
  <2>1. kept \subseteq DOMAIN records BY DEF Range
  <2>2. verdict = Says(kept, jump, damaged) BY Reading
  <2> HIDE DEF kept, verdict
  <2>3. verdict = "ready" => phase["boot"] = "ready" /\ intact BY <2>1, <2>2, SoundReport
  <2>4. CASE code = "zero"
    <3>1. Over => verdict \in {"ready", "incomplete"} BY <2>1, <2>2, <2>4, NoFailure
    <3>2. Over /\ intact => verdict = "ready"
      <4>1. intact => verdict = Says(DOMAIN records, Intact, FALSE) BY <2>2
      <4> QED BY <2>4, <4>1, ReadyReport
    <3> QED BY <2>3, <2>4, <3>1, <3>2 DEF Truthful, kept, verdict
  <2>5. CASE code # "zero"
    <3>1. Over => /\ verdict \in {"failed", "incomplete"}
                  /\ kept = DOMAIN records => verdict = "failed"
      BY <2>1, <2>2, <2>5, FailureReport
    <3> QED BY <2>3, <2>5, <3>1 DEF Truthful, kept, verdict
  <2> QED BY <2>4, <2>5
<1> QED BY <1>1, RecordInvariant, PTL

\* The exports of the run are among them.
THEOREM ReportIsTrue == ReportSpec => []ReportTrue
<1>1. Inv /\ RecordInv /\ EveryReportTrue => ReportTrue
  <2> SUFFICES ASSUME Inv, RecordInv, EveryReportTrue, NEW l \in Losses, NEW damaged \in BOOLEAN
               PROVE Truthful(Remaining(l[1]), l[2], damaged)
    BY DEF ReportTrue
  <2> DEFINE n == Len(records)
             line(k) == IF k <= n THEN n + 1 - k ELSE k - n
             S == {k \in 1..(2 * n) : line(k) \notin l[1]}
  <2>1. n \in Nat /\ DOMAIN records = 1..n /\ 1 \in 1..n /\ Intact = n
    BY Lines DEF RecordInv, FirstEvent, Intact
  <2>2. l[2] \in 1..Intact BY <2>1 DEF Losses
  <2>3. S \in SUBSET Nat /\ \A k \in S : line(k) \in DOMAIN records BY <2>1
  <2>4. Remaining(l[1]) = [k \in S |-> line(k)] BY DEF Remaining
  <2> HIDE DEF n, line, S
  <2>5. Remaining(l[1]) \in [S -> DOMAIN records] BY <2>3, <2>4
  <2> QED BY <2>2, <2>3, <2>5 DEF EveryReportTrue
<1> QED BY <1>1, RecordInvariant, EveryReportIsTrue, PTL
=============================================================================
