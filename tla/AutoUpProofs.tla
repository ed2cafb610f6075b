---------------------------- MODULE AutoUpProofs ----------------------------
(***************************************************************************)
(* Proofs about AutoUp: for any regions, any number of sessions of every   *)
(* kind, any width of the race and any number of rounds.                   *)
(***************************************************************************)
EXTENDS AutoUp, WellFoundedInduction, TLAPS

Stack == [stack : BOOLEAN, seeded : BOOLEAN, orphans : Nat, desired : {0, 1},
          inst : {"none", "launching", "serving"}, by : Procs \cup {Guard, Nobody}]

FleetOK == fleet \in [Region -> Stack]

Fields == {"pc", "exit", "top", "i", "pending", "started", "winner", "rounds", "reported",
           "used", "snap", "target"}

LocalsOK == DOMAIN me = Procs /\ me = [p \in Procs |-> me[p]]
            /\ \A p \in Procs : DOMAIN me[p] = Fields

\* The regions that are on because p asked for them
On(f, p) == {r \in Region : f[r].desired = 1 /\ f[r].by = p}

\* Before the race, or without one, nothing has been asked for.
Preparations == {"idle", "stack", "saveTarget", "weights", "saveRanking", "solo"}

\* What a session's place in the race says of the entrants that are on
InRace(m, on) ==
  /\ m.pc \in Preparations => m.started = {}
  /\ m.pc = "cancel" => m.started \cap on \subseteq {m.winner} \cup m.pending
  /\ m.pc \in {"saveWinner", "raise", "wait"} \/ (m.pc = "done" /\ m.exit = "zero")
       => m.started \cap on \subseteq {m.winner}
  /\ m.pc = "giveup" => m.started \cap on \subseteq m.pending \cup m.reported
  /\ m.exit = "timeout" => m.started \cap on \subseteq m.reported
  /\ m.exit # "none" => m.pc = "done"
  /\ m.pc # "savePurge"

Ups == Autos \cup Seeds

Inv == FleetOK /\ LocalsOK /\ \A p \in Ups : InRace(me[p], On(fleet, p))

-----------------------------------------------------------------------------
(* The fleet *)

\* A step of w leaves on what others have on, or less, and may add `raised`.
Leaves(w, raised) ==
  /\ fleet' \in [Region -> Stack]
  /\ \A p \in Procs : On(fleet', p) \subseteq On(fleet, p) \cup IF p = w THEN raised ELSE {}

LEMMA Still == ASSUME Inv, NEW p, UNCHANGED fleet PROVE Leaves(p, {}) /\ On(fleet', p) = On(fleet, p)
BY DEF Leaves, Inv, FleetOK

LEMMA AskedLeaves ==
  ASSUME FleetOK, NEW w \in Procs \cup {Guard}, NEW e, NEW n \in {0, 1}, fleet' = Asked(w, e, n)
  PROVE /\ Leaves(w, IF n = 1 THEN {e} ELSE {})
        /\ n = 0 => \A p \in Procs : e \notin On(fleet', p)
<1>1. CASE e \in Region
  <2> DEFINE s == [fleet[e] EXCEPT !.desired = n,
                                   !.by = IF @ # w /\ fleet[e].desired # n THEN w ELSE @]
  <2>1. fleet' = [fleet EXCEPT ![e] = s] BY DEF Asked
  <2>2. fleet[e] \in Stack BY <1>1 DEF FleetOK
  <2>3. /\ s \in Stack /\ s.desired = n
        /\ s.by = IF fleet[e].by # w /\ fleet[e].desired # n THEN w ELSE fleet[e].by
    BY <2>2 DEF Stack
  <2> HIDE DEF s
  <2>4. /\ fleet' \in [Region -> Stack] /\ fleet'[e] = s
        /\ \A r \in Region \ {e} : fleet'[r] = fleet[r]
    BY <1>1, <2>1, <2>3 DEF FleetOK
  <2>5. \A p \in Procs : e \in On(fleet', p) => n = 1 /\ (p = w \/ e \in On(fleet, p))
    BY <1>1, <2>2, <2>3, <2>4 DEF On, Stack
  <2>6. \A p \in Procs : On(fleet', p) \ {e} \subseteq On(fleet, p) BY <2>4 DEF On
  <2>7. \A p \in Procs : On(fleet', p) \subseteq On(fleet, p)
                           \cup IF p = w THEN IF n = 1 THEN {e} ELSE {} ELSE {}
    BY <2>5, <2>6
  <2> QED BY <2>4, <2>5, <2>7 DEF Leaves
<1>2. CASE e \notin Region
  <2>1. fleet' = fleet BY <1>2 DEF Asked, FleetOK
  <2> QED BY <1>2, <2>1 DEF Leaves, On, FleetOK
<1> QED BY <1>1, <1>2

(* Whatever else changes a region leaves on what is on, or less. *)
LEMMA OtherLeaves ==
  ASSUME FleetOK, fleet' \in [Region -> Stack], NEW w,
         \A r \in Region : fleet'[r].desired = 0
           \/ (fleet'[r].desired = fleet[r].desired /\ fleet'[r].by = fleet[r].by)
  PROVE Leaves(w, {})
BY DEF Leaves, On

LEMMA ServedLeaves ==
  ASSUME FleetOK, NEW w \in Procs, NEW e, NEW n \in {0, 1}, Refused(w, e, n)
  PROVE /\ Leaves(w, IF n = 1 THEN {e} ELSE {})
        /\ Served(w, e, 0) => \A p \in Procs : e \notin On(fleet', p)
<1>1. Served(w, e, n) => Leaves(w, IF n = 1 THEN {e} ELSE {}) BY AskedLeaves DEF Served
<1>2. UNCHANGED fleet => Leaves(w, IF n = 1 THEN {e} ELSE {}) BY DEF Leaves, FleetOK
<1>3. ASSUME Served(w, e, 0) PROVE \A p \in Procs : e \notin On(fleet', p)
  BY <1>3, AskedLeaves DEF Served
<1> QED BY <1>1, <1>2, <1>3 DEF Refused

LEMMA EnvLeaves ==
  ASSUME Inv, (\E r \in Region : IdleStop(r) \/ Ec2(r)) \/ UNCHANGED vars
  PROVE /\ fleet' \in [Region -> Stack]
        /\ \A p \in Procs : On(fleet', p) \subseteq On(fleet, p)
<1>1. CASE \E r \in Region : IdleStop(r)
  <2>1. PICK r \in Region : fleet' = Asked(Guard, r, 0) BY <1>1 DEF IdleStop
  <2>2. Leaves(Guard, IF 0 = 1 THEN {r} ELSE {}) BY <2>1, AskedLeaves DEF Inv
  <2> QED BY <2>2 DEF Leaves
<1>2. CASE \E r \in Region : Ec2(r)
  <2>1. PICK r \in Region, now \in {"none", "launching", "serving"} :
          fleet' = [fleet EXCEPT ![r] = [fleet[r] EXCEPT !.inst = now]]
    BY <1>2 DEF Ec2
  <2>2. fleet[r] \in Stack BY DEF Inv, FleetOK
  <2>3. [fleet[r] EXCEPT !.inst = now] \in Stack
        /\ [fleet[r] EXCEPT !.inst = now].desired = fleet[r].desired
        /\ [fleet[r] EXCEPT !.inst = now].by = fleet[r].by
    BY <2>2 DEF Stack
  <2>4. fleet' \in [Region -> Stack] BY <2>1, <2>3 DEF Inv, FleetOK
  <2>5. \A q \in Region : fleet'[q].desired = fleet[q].desired /\ fleet'[q].by = fleet[q].by
    BY <2>1, <2>3 DEF Inv, FleetOK
  <2> QED BY <2>4, <2>5 DEF On
<1>3. CASE UNCHANGED vars BY <1>3 DEF vars, Inv, FleetOK
<1> QED BY <1>1, <1>2, <1>3

\* Stacks and weights do not change what is on.
LEMMA PrepareLeaves ==
  ASSUME Inv, NEW p \in Procs,
         Start(p) \/ EnsureStack(p) \/ EnsureWeights(p) \/ Prepared(p) \/ Solo(p) \/ Write(p)
  PROVE Leaves(p, {})
<1>1. CASE UNCHANGED fleet BY <1>1, Still
<1>2. CASE \E r : fleet' = [fleet EXCEPT ![r].stack = TRUE] \/ fleet' = [fleet EXCEPT ![r].seeded = TRUE]
  <2>1. PICK r : fleet' = [fleet EXCEPT ![r] = [fleet[r] EXCEPT !.stack = TRUE]]
                 \/ fleet' = [fleet EXCEPT ![r] = [fleet[r] EXCEPT !.seeded = TRUE]]
    BY <1>2
  <2>2. CASE r \in Region
    <3>1. fleet[r] \in Stack BY <2>2 DEF Inv, FleetOK
    <3>2. ASSUME NEW s \in Stack, fleet' = [fleet EXCEPT ![r] = s],
                 s.desired = fleet[r].desired, s.by = fleet[r].by
          PROVE Leaves(p, {})
      <4>1. fleet' \in [Region -> Stack] BY <3>2 DEF Inv, FleetOK
      <4>2. \A q \in Region : fleet'[q].desired = fleet[q].desired /\ fleet'[q].by = fleet[q].by
        BY <3>2 DEF Inv, FleetOK
      <4> QED BY <4>1, <4>2, OtherLeaves DEF Inv
    <3>3. LET s == [fleet[r] EXCEPT !.stack = TRUE]
          IN s \in Stack /\ s.desired = fleet[r].desired /\ s.by = fleet[r].by
      BY <3>1 DEF Stack
    <3>4. LET s == [fleet[r] EXCEPT !.seeded = TRUE]
          IN s \in Stack /\ s.desired = fleet[r].desired /\ s.by = fleet[r].by
      BY <3>1 DEF Stack
    <3> QED BY <2>1, <3>2, <3>3, <3>4
  <2>3. CASE r \notin Region
    <3>1. UNCHANGED fleet BY <2>1, <2>3 DEF Inv, FleetOK
    <3> QED BY <3>1, Still
  <2> QED BY <2>2, <2>3
<1> QED BY <1>1, <1>2 DEF Start, EnsureStack, EnsureWeights, Prepared, Seeded, Solo, Write

\* Some requests to switch off arrive at once.
LEMMA CancelLeaves ==
  ASSUME Inv, NEW p \in Procs, NEW lowered,
         fleet' = [r \in Region |-> IF r \in lowered THEN Asked(p, r, 0)[r] ELSE fleet[r]]
  PROVE Leaves(p, {})
<1>1. \A r \in Region : Asked(p, r, 0)[r] \in Stack /\ Asked(p, r, 0)[r].desired = 0
  <2> TAKE r \in Region
  <2>1. fleet[r] \in Stack BY DEF Inv, FleetOK
  <2>2. Asked(p, r, 0)[r] = [fleet[r] EXCEPT !.desired = 0,
                               !.by = IF @ # p /\ fleet[r].desired # 0 THEN p ELSE @]
    BY DEF Asked, Inv, FleetOK
  <2> QED BY <2>1, <2>2 DEF Stack
<1>2. fleet' \in [Region -> Stack] BY <1>1 DEF Inv, FleetOK
<1>3. \A r \in Region : fleet'[r].desired = 0
        \/ (fleet'[r].desired = fleet[r].desired /\ fleet'[r].by = fleet[r].by)
  BY <1>1 DEF Inv, FleetOK
<1> QED BY <1>2, <1>3, OtherLeaves DEF Inv

LEMMA DownLeaves == ASSUME Inv, NEW d \in Downs, DownStep(d) PROVE Leaves(d, {})
<1> d \in Procs BY DEF Procs
<1>1. CASE StartDown(d) \/ DownOutputs(d) \/ Write(d)
  BY Still, <1>1 DEF StartDown, DownOutputs, Write
<1>2. CASE Lower(d)
  <2>1. Refused(d, me[d].target, 0) BY <1>2 DEF Lower, Refused
  <2>2. Leaves(d, IF 0 = 1 THEN {me[d].target} ELSE {}) BY <2>1, ServedLeaves DEF Inv
  <2> QED BY <2>2 DEF Leaves
<1>3. CASE Destroy(d)
  <2> DEFINE t == me[d].target
             gone == [EmptyRegion EXCEPT !.orphans = fleet[t].orphans + 1]
  <2>1. CASE UNCHANGED fleet BY Still, <2>1
  <2>2. CASE fleet' = [fleet EXCEPT ![t] = gone] /\ t \in Region
    <3>1. fleet[t].orphans \in Nat BY <2>2 DEF Inv, FleetOK, Stack
    <3>2. fleet[t].orphans + 1 \in Nat BY <3>1
    <3>3. EmptyRegion \in Stack /\ EmptyRegion.desired = 0 BY DEF EmptyRegion, Stack
    <3>4. \A n \in Nat : /\ [EmptyRegion EXCEPT !.orphans = n] \in Stack
                       /\ [EmptyRegion EXCEPT !.orphans = n].desired = 0
      BY <3>3 DEF Stack
    <3>5. gone \in Stack /\ gone.desired = 0 BY <3>2, <3>4
    <3> HIDE DEF gone
    <3>6. fleet' \in [Region -> Stack] BY <2>2, <3>5 DEF Inv, FleetOK
    <3>7. \A r \in Region : fleet'[r].desired = 0
            \/ (fleet'[r].desired = fleet[r].desired /\ fleet'[r].by = fleet[r].by)
      BY <2>2, <3>5 DEF Inv, FleetOK
    <3> QED BY <3>6, <3>7, OtherLeaves DEF Inv
  <2>3. CASE fleet' = [fleet EXCEPT ![t] = gone] /\ t \notin Region
    <3>1. UNCHANGED fleet BY <2>3 DEF Inv, FleetOK
    <3> QED BY Still, <3>1
  <2> QED BY <1>3, <2>1, <2>2, <2>3 DEF Destroy
<1>4. CASE DeleteBucket(d)
  <2> DEFINE t == me[d].target
             s == [fleet[t] EXCEPT !.orphans = @ - 1]
  <2>1. CASE UNCHANGED fleet BY Still, <2>1
  <2>2. CASE fleet[t].orphans > 0 /\ fleet' = [fleet EXCEPT ![t] = s] /\ t \in Region
    <3>1. fleet[t] \in Stack BY <2>2 DEF Inv, FleetOK
    <3>2. s \in Stack /\ s.desired = fleet[t].desired /\ s.by = fleet[t].by
      BY <2>2, <3>1 DEF Stack
    <3> HIDE DEF s
    <3>3. fleet' \in [Region -> Stack] BY <2>2, <3>2 DEF Inv, FleetOK
    <3>4. \A r \in Region : fleet'[r].desired = fleet[r].desired /\ fleet'[r].by = fleet[r].by
      BY <2>2, <3>2 DEF Inv, FleetOK
    <3> QED BY <3>3, <3>4, OtherLeaves DEF Inv
  <2>3. CASE fleet' = [fleet EXCEPT ![t] = s] /\ t \notin Region
    <3>1. UNCHANGED fleet BY <2>3 DEF Inv, FleetOK
    <3> QED BY Still, <3>1
  <2> QED BY <1>4, <2>1, <2>2, <2>3 DEF DeleteBucket
<1> QED BY <1>1, <1>2, <1>3, <1>4 DEF DownStep

-----------------------------------------------------------------------------
(* The steps of a session *)

\* It is enough to look at the session that moves: the others have no more on.
LEMMA Moves ==
  ASSUME Inv, NEW p \in Procs, NEW m, NEW raised, Leaves(p, raised), Become(p, m),
         DOMAIN m = Fields, p \in Ups => InRace(m, On(fleet', p))
  PROVE Inv'
<1>1. FleetOK' BY DEF Leaves, FleetOK
<1>2. /\ me'[p] = m /\ LocalsOK' /\ \A q \in Procs \ {p} : me'[q] = me[q]
  BY DEF Become, Inv, LocalsOK
<1>3. \A q \in Ups : InRace(me'[q], On(fleet', q))
  <2> SUFFICES ASSUME NEW q \in Ups PROVE InRace(me'[q], On(fleet', q)) OBVIOUS
  <2>1. CASE q = p BY <1>2, <2>1
  <2>2. CASE q # p
    <3>1. me'[q] = me[q] /\ On(fleet', q) \subseteq On(fleet, q)
      BY <1>2, <2>2 DEF Leaves, Ups, Procs
    <3>2. InRace(me[q], On(fleet, q)) BY DEF Inv
    <3> HIDE DEF On
    <3> QED BY <3>1, <3>2 DEF InRace, Preparations
  <2> QED BY <2>1, <2>2
<1> QED BY <1>1, <1>2, <1>3 DEF Inv

\* A save that cannot open the file ends the session.
LEMMA SaveMoves ==
  ASSUME NEW p, NEW m, NEW f, Save(p, m, f)
  PROVE Become(p, m) \/ Throw(p)
BY DEF Save

\* The session goes on with the locals it had.
LEMMA SavedShape ==
  ASSUME NEW m, DOMAIN m = Fields, m.pc \in Saves
  PROVE /\ DOMAIN Saved(m) = Fields
        /\ Saved(m).started = m.started /\ Saved(m).winner = m.winner
        /\ Saved(m).top = m.top /\ Saved(m).pending = m.pending /\ Saved(m).i = m.i
        /\ m.pc = "savePurge" => /\ Saved(m).pc = "done" /\ Saved(m).exit = "zero"
                                /\ Saved(m).snap = m.snap /\ Saved(m).target = m.target
        /\ m.pc # "savePurge" =>
             /\ Saved(m).exit = m.exit
             /\ m.pc = "saveTarget" => Saved(m).pc = "weights"
             /\ m.pc = "saveRanking" => Saved(m).pc \in {"solo", "start"}
             /\ m.pc = "saveWinner" => Saved(m).pc = "raise"
<1>1. CASE m.pc = "saveTarget" BY <1>1 DEF Saved, Fields
<1>2. CASE m.pc = "saveRanking" BY <1>2 DEF Saved, Fields
<1>3. CASE m.pc = "saveWinner" BY <1>3 DEF Saved, Fields
<1>4. CASE m.pc = "savePurge" BY <1>4 DEF Saved, Ended, Fields
<1> QED BY <1>1, <1>2, <1>3, <1>4 DEF Saves

LEMMA Ends ==
  ASSUME Inv, NEW p \in Procs, NEW raised, Leaves(p, raised), Throw(p)
  PROVE Inv'
<1> DEFINE m == Ended(me[p], "one")
<1>1. DOMAIN m = Fields /\ m.pc = "done" /\ m.exit = "one"
  BY DEF Ended, Inv, LocalsOK, Fields
<1>2. InRace(m, On(fleet', p)) BY <1>1 DEF InRace, Preparations
<1>3. Become(p, m) BY DEF Throw
<1> HIDE DEF m
<1> QED BY <1>1, <1>2, <1>3, Moves

LEMMA EnvSteps ==
  ASSUME Inv, (\E r \in Region : IdleStop(r) \/ Ec2(r)) \/ UNCHANGED vars
  PROVE Inv'
<1>1. UNCHANGED me BY DEF IdleStop, Ec2, vars
<1>2. /\ fleet' \in [Region -> Stack]
      /\ \A p \in Procs : On(fleet', p) \subseteq On(fleet, p)
  BY EnvLeaves
<1>3. \A p \in Ups : InRace(me'[p], On(fleet', p))
  <2> SUFFICES ASSUME NEW p \in Ups PROVE InRace(me'[p], On(fleet', p)) OBVIOUS
  <2>1. InRace(me[p], On(fleet, p)) /\ On(fleet', p) \subseteq On(fleet, p) /\ me' = me
    BY <1>1, <1>2 DEF Inv, Ups, Procs
  <2> QED BY <2>1 DEF InRace, Preparations
<1> QED BY <1>1, <1>2, <1>3 DEF Inv, FleetOK, LocalsOK

LEMMA DownSteps == ASSUME Inv, NEW d \in Downs, DownStep(d) PROVE Inv'
<1>1. d \in Procs /\ d \notin Ups BY RegionAssumption DEF Ups, Procs
<1>2. DOMAIN me[d] = Fields BY <1>1 DEF Inv, LocalsOK
\* It is enough that its locals are a record of locals and that it starts nothing.
<1>3. ASSUME NEW m, Become(d, m), DOMAIN m = Fields, Leaves(d, {}) PROVE Inv'
  BY <1>1, <1>3, Moves
<1>4. ASSUME UNCHANGED fleet PROVE Leaves(d, {}) BY <1>4 DEF Leaves, Inv, FleetOK
<1>5. \E m : Become(d, m) /\ DOMAIN m = Fields
  <2>1. /\ DOMAIN Ended(me[d], "one") = Fields /\ DOMAIN Ended(me[d], "zero") = Fields
        /\ \A l : DOMAIN [me[d] EXCEPT !.pc = l] = Fields
        /\ \A l, v, t : DOMAIN [me[d] EXCEPT !.pc = l, !.snap = v, !.target = t] = Fields
        /\ me[d].pc \in Saves => DOMAIN Saved(me[d]) = Fields
    BY <1>2, SavedShape DEF Ended
  <2>2. CASE Throw(d) BY <2>1, <2>2 DEF Throw
  <2>3. CASE StartDown(d)
    <3>1. CASE Throw(d) BY <2>2, <3>1
    <3>2. CASE \E t : Become(d, [me[d] EXCEPT !.pc = "outputs", !.snap = state, !.target = t])
      BY <2>1, <3>2
    <3> QED BY <2>3, <3>1, <3>2 DEF StartDown
  <2>8. CASE Forget(d)
    <3>1. \/ Become(d, Ended(me[d], "zero"))
          \/ Become(d, [me[d] EXCEPT !.pc = "savePurge"])
          \/ Throw(d)
      BY <2>8, SaveMoves DEF Forget
    <3> QED BY <2>1, <2>2, <3>1
  <2>9. CASE Write(d) BY <2>1, <2>2, <2>9 DEF Write
  <2>4. CASE DownOutputs(d) BY <2>1, <2>2, <2>4, <2>8 DEF DownOutputs
  <2>5. CASE Lower(d) BY <2>1, <2>2, <2>5 DEF Lower
  <2>6. CASE Destroy(d) BY <2>1, <2>2, <2>6 DEF Destroy
  <2>7. CASE DeleteBucket(d) BY <2>2, <2>7, <2>8 DEF DeleteBucket
  <2> QED BY <2>3, <2>4, <2>5, <2>6, <2>7, <2>9 DEF DownStep
<1>6. Leaves(d, {}) BY DownLeaves
<1> QED BY <1>3, <1>5, <1>6

LEMMA UpFacts ==
  ASSUME Inv, NEW p \in Ups, me[p].pc # "done"
  PROVE /\ p \in Procs /\ DOMAIN me[p] = Fields /\ InRace(me[p], On(fleet, p))
        /\ me[p].exit = "none"
BY DEF Inv, LocalsOK, Ups, Procs, InRace, Preparations

(* The order in which the entrants are polled does not matter here. *)
LEMMA TurnShape ==
  ASSUME NEW m, NEW k, DOMAIN m = Fields
  PROVE /\ DOMAIN Turn(m, k) = Fields /\ Turn(m, k).pc \in {"nap", "poll"}
        /\ Turn(m, k).exit = m.exit /\ Turn(m, k).started = m.started
        /\ Turn(m, k).top = m.top
BY DEF Turn, Fields

(* A session that goes on at one of the places where the entrants are on *)
LEMMA Racing ==
  ASSUME Inv, NEW p \in Ups, NEW m, NEW raised, Leaves(p, raised), Become(p, m),
         DOMAIN m = Fields, m.exit = "none", m.pc \in {"start", "nap", "poll", "recover"}
  PROVE Inv'
<1>1. InRace(m, On(fleet', p)) BY DEF InRace, Preparations
<1> QED BY <1>1, Moves DEF Ups, Procs

LEMMA Winning ==
  ASSUME Inv, NEW p \in Ups, me[p].pc # "done", NEW m, NEW raised, Leaves(p, raised), Won(p, m),
         DOMAIN m = Fields, m.exit = "none", m.started \cap On(fleet', p) \subseteq {m.winner}
  PROVE Inv'
<1> DEFINE n == [m EXCEPT !.pc = "saveWinner", !.used = Touch(m.used, m.winner)]
<1>1. Become(p, n) \/ Throw(p) BY SaveMoves DEF Won
<1>2. /\ DOMAIN n = Fields /\ n.pc = "saveWinner" /\ n.exit = "none" /\ n.started = m.started
      /\ n.winner = m.winner
  BY DEF Fields
<1> HIDE DEF n
<1>3. InRace(n, On(fleet', p)) BY <1>2 DEF InRace, Preparations
<1>4. CASE Become(p, n) BY <1>2, <1>3, <1>4, Moves DEF Ups, Procs
<1>5. CASE Throw(p) BY <1>5, Ends DEF Ups, Procs
<1> QED BY <1>1, <1>4, <1>5

(* A session that has raced nothing yet goes on so, or has ended well. *)
LEMMA Preparing ==
  ASSUME Inv, NEW p \in Ups, NEW m, Leaves(p, {}), Become(p, m), DOMAIN m = Fields,
         m.started = {}, m.pc # "savePurge", m.exit = "none" \/ (m.exit = "zero" /\ m.pc = "done")
  PROVE Inv'
<1>1. InRace(m, On(fleet', p)) BY DEF InRace, Preparations
<1> QED BY <1>1, Moves DEF Ups, Procs

LEMMA PrepareSteps ==
  ASSUME Inv, NEW p \in Ups, Start(p) \/ EnsureStack(p) \/ EnsureWeights(p) \/ Prepared(p)
  PROVE Inv'
<1>1. me[p].pc \in {"idle", "stack", "weights"}
  BY DEF Start, EnsureStack, EnsureWeights, Prepared, At
<1>2. /\ p \in Procs /\ DOMAIN me[p] = Fields /\ InRace(me[p], On(fleet, p))
      /\ me[p].exit = "none" /\ me[p].started = {}
  BY <1>1, UpFacts DEF InRace, Preparations
<1>3. Leaves(p, {}) BY <1>2, PrepareLeaves
<1>4. CASE Throw(p) BY <1>2, <1>3, <1>4, Ends
<1>5. CASE Become(p, Ended(me[p], "zero"))
  <2> DEFINE m == Ended(me[p], "zero")
  <2>1. DOMAIN m = Fields /\ m.started = {} /\ m.exit = "zero" /\ m.pc = "done"
    BY <1>2 DEF Ended, Fields
  <2> HIDE DEF m
  <2> QED BY <1>3, <1>5, <2>1, Preparing DEF m
<1>6. ASSUME NEW t, Become(p, [me[p] EXCEPT !.pc = "stack", !.top = t]) PROVE Inv'
  <2> DEFINE m == [me[p] EXCEPT !.pc = "stack", !.top = t]
  <2>1. DOMAIN m = Fields /\ m.started = {} /\ m.exit = "none" /\ m.pc = "stack" BY <1>2 DEF Fields
  <2> HIDE DEF m
  <2> QED BY <1>3, <1>6, <2>1, Preparing DEF m
<1>7. ASSUME NEW i, Become(p, [me[p] EXCEPT !.pc = "stack", !.i = i]) PROVE Inv'
  <2> DEFINE m == [me[p] EXCEPT !.pc = "stack", !.i = i]
  <2>1. DOMAIN m = Fields /\ m.started = {} /\ m.exit = "none" /\ m.pc = "stack" BY <1>2 DEF Fields
  <2> HIDE DEF m
  <2> QED BY <1>3, <1>7, <2>1, Preparing DEF m
<1>8. ASSUME NEW l, l # "savePurge", Become(p, [me[p] EXCEPT !.pc = l]) PROVE Inv'
  <2> DEFINE m == [me[p] EXCEPT !.pc = l]
  <2>1. DOMAIN m = Fields /\ m.started = {} /\ m.exit = "none" /\ m.pc = l BY <1>2 DEF Fields
  <2> HIDE DEF m
  <2> QED BY <1>3, <1>8, <2>1, Preparing DEF m
<1>9. CASE Prepared(p)
  <2> DEFINE m == [me[p] EXCEPT !.used = Touch(state.lastUsed, Head(me[p].top))]
             b == RaceBegins(m)
  <2>1. DOMAIN b = Fields /\ b.started = {} /\ b.exit = "none" /\ b.pc = "saveRanking"
    BY <1>2 DEF RaceBegins, Fields
  <2>2. Become(p, Ended(me[p], "zero")) \/ Throw(p) \/ Become(p, b)
    BY <1>9, SaveMoves DEF Prepared
  <2> HIDE DEF m, b
  <2>3. CASE Become(p, b) BY <1>3, <2>1, <2>3, Preparing
  <2> QED BY <1>4, <1>5, <2>2, <2>3
<1>10. CASE Start(p) BY <1>4, <1>5, <1>6, <1>10 DEF Start
<1>11. CASE EnsureStack(p) BY <1>4, <1>8, <1>11, SaveMoves DEF EnsureStack
<1>12. CASE EnsureWeights(p) BY <1>4, <1>7, <1>12 DEF EnsureWeights
<1> QED BY <1>9, <1>10, <1>11, <1>12

LEMMA SaveSteps == ASSUME Inv, NEW p \in Ups, Solo(p) \/ Write(p) PROVE Inv'
<1>1. me[p].pc \in {"solo"} \cup Saves BY DEF Solo, Write, At
<1>2. /\ p \in Procs /\ DOMAIN me[p] = Fields /\ InRace(me[p], On(fleet, p))
      /\ me[p].exit = "none"
  BY <1>1, UpFacts DEF Saves
<1>3. Leaves(p, {}) /\ On(fleet', p) = On(fleet, p) BY <1>2, Still DEF Solo, Write
<1>4. CASE Solo(p)
  <2> DEFINE m == [me[p] EXCEPT !.winner = Head(me[p].top)]
  <2>1. me[p].pc = "solo" BY <1>4 DEF Solo, At
  <2>2. me[p].started = {} BY <1>2, <2>1 DEF InRace, Preparations
  <2>3. DOMAIN m = Fields /\ m.exit = "none" /\ m.started = {} BY <1>2, <2>2 DEF Fields
  <2>4. Won(p, m) BY <1>4 DEF Solo
  <2> HIDE DEF m
  <2> QED BY <1>3, <2>1, <2>3, <2>4, Winning
<1>5. CASE Write(p)
  <2> DEFINE m == Saved(me[p])
  <2>1. me[p].pc \in Saves /\ (Become(p, m) \/ Throw(p)) BY <1>5 DEF Write
  <2>2. CASE Throw(p) BY <1>2, <1>3, <2>2, Ends
  <2>3. CASE Become(p, m)
    <3>1. InRace(m, On(fleet', p)) /\ DOMAIN m = Fields
      <4>1. DOMAIN m = Fields /\ m.started = me[p].started /\ m.winner = me[p].winner
        BY <1>2, <2>1, SavedShape
      <4>2. me[p].pc # "savePurge" BY <1>2 DEF InRace
      <4>3. CASE me[p].pc = "saveTarget"
        <5>1. m.pc = "weights" /\ m.exit = "none" BY <1>2, <2>1, <4>3, SavedShape
        <5> HIDE DEF m
        <5> QED BY <1>2, <4>1, <4>3, <5>1 DEF InRace, Preparations
      <4>4. CASE me[p].pc = "saveRanking"
        <5>1. m.pc \in {"solo", "start"} /\ m.exit = "none" BY <1>2, <2>1, <4>4, SavedShape
        <5> HIDE DEF m
        <5> QED BY <1>2, <4>1, <4>4, <5>1 DEF InRace, Preparations
      <4>5. CASE me[p].pc = "saveWinner"
        <5>1. m.pc = "raise" /\ m.exit = "none" BY <1>2, <2>1, <4>5, SavedShape
        <5> HIDE DEF m
        <5> QED BY <1>2, <1>3, <4>1, <4>5, <5>1 DEF InRace, Preparations
      <4> QED BY <2>1, <4>2, <4>3, <4>4, <4>5 DEF Saves
    <3> HIDE DEF m
    <3> QED BY <1>2, <1>3, <2>3, <3>1, Moves
  <2> QED BY <2>1, <2>2, <2>3
<1> QED BY <1>4, <1>5

-----------------------------------------------------------------------------
(* The race *)

LEMMA StartAnswers == ASSUME Inv, NEW p \in Ups, StartAnswer(p) PROVE Inv'
<1>1. me[p].pc = "start" BY DEF StartAnswer, At
<1>2. p \in Procs /\ DOMAIN me[p] = Fields /\ me[p].exit = "none" BY <1>1, UpFacts
\* Whether the entrant stays or not, the race waits, ends or polls.
<1>3. ASSUME NEW m, NEW raised, DOMAIN m = Fields, m.exit = "none", m.pc = "start",
             Leaves(p, raised), Become(p, StartSettled(m))
      PROVE Inv'
  <2>1. CASE m.pending # {}
    <3>1. StartSettled(m) = m BY <2>1 DEF StartSettled
    <3> QED BY <1>3, <3>1, Racing
  <2>2. CASE m.pending = {} /\ Entrants(m) = {}
    <3> DEFINE n == Ended(m, "one")
    <3>1. StartSettled(m) = n BY <2>2 DEF StartSettled
    <3>2. DOMAIN n = Fields /\ n.pc = "done" /\ n.exit = "one" BY <1>3 DEF Ended, Fields
    <3> HIDE DEF n
    <3>3. InRace(n, On(fleet', p)) BY <3>2 DEF InRace, Preparations
    <3> QED BY <1>2, <1>3, <3>1, <3>2, <3>3, Moves
  <2>3. CASE m.pending = {} /\ Entrants(m) # {}
    <3>1. StartSettled(m) = Turn(m, 1) BY <2>3 DEF StartSettled
    <3>2. /\ DOMAIN Turn(m, 1) = Fields /\ Turn(m, 1).pc \in {"nap", "poll"}
          /\ Turn(m, 1).exit = "none"
      BY <1>3, TurnShape
    <3> QED BY <1>3, <3>1, <3>2, Racing
  <2> QED BY <2>1, <2>2, <2>3
<1>4. PICK e \in me[p].pending :
        LET m == [me[p] EXCEPT !.pending = @ \ {e}] IN
          \/ Served(p, e, 1) /\ Become(p, StartSettled([m EXCEPT !.started = @ \cup {e}]))
          \/ Refused(p, e, 1) /\ Become(p, StartSettled(m))
  BY DEF StartAnswer
<1> DEFINE m == [me[p] EXCEPT !.pending = @ \ {e}]
           n == [m EXCEPT !.started = @ \cup {e}]
<1>5. /\ DOMAIN m = Fields /\ m.exit = "none" /\ m.pc = "start"
      /\ DOMAIN n = Fields /\ n.exit = "none" /\ n.pc = "start"
  BY <1>1, <1>2 DEF Fields
<1>6. Leaves(p, IF 1 = 1 THEN {e} ELSE {})
  BY <1>2, <1>4, ServedLeaves DEF Inv, Refused
<1> HIDE DEF m, n
<1> QED BY <1>3, <1>4, <1>5, <1>6 DEF m, n

LEMMA Polls == ASSUME Inv, NEW p \in Ups, Poll(p) PROVE Inv'
<1>1. me[p].pc = "poll" /\ UNCHANGED fleet BY DEF Poll, At
<1>2. p \in Procs /\ DOMAIN me[p] = Fields /\ me[p].exit = "none" BY <1>1, UpFacts
<1>3. Leaves(p, {}) BY <1>1, Still
<1> DEFINE e == Here(p)
           won == [me[p] EXCEPT !.winner = e, !.pending = Entrants(me[p]) \ {e}]
           losers == [won EXCEPT !.pc = "cancel"]
           again == [me[p] EXCEPT !.pc = "recover"]
           next == Advance(me[p])
<1>4. /\ DOMAIN won = Fields /\ won.exit = "none" /\ won.started = me[p].started
      /\ won.winner = e /\ won.pending = me[p].started \ {e}
  BY <1>2 DEF Fields, Entrants
<1>5. /\ DOMAIN losers = Fields /\ losers.exit = "none" /\ losers.pc = "cancel"
      /\ losers.started = won.started /\ losers.winner = won.winner
      /\ losers.pending = won.pending
  BY <1>4 DEF Fields
<1>6. DOMAIN again = Fields /\ again.exit = "none" /\ again.pc = "recover"
  BY <1>2 DEF Fields
<1>7. DOMAIN next = Fields /\ next.exit = "none" /\ next.pc \in {"nap", "poll"}
  BY <1>2, TurnShape DEF Advance
<1>8. \/ won.pending = {} /\ Won(p, won)
      \/ Become(p, losers)
      \/ Become(p, again)
      \/ Become(p, next)
      \/ Throw(p)
  BY DEF Poll
<1> HIDE DEF e, won, losers, again, next
<1>9. CASE won.pending = {} /\ Won(p, won)
  <2>1. won.started \cap On(fleet', p) \subseteq {won.winner} BY <1>4, <1>9
  <2> QED BY <1>1, <1>3, <1>4, <1>9, <2>1, Winning
<1>10. CASE Become(p, losers)
  <2>1. InRace(losers, On(fleet', p)) BY <1>4, <1>5 DEF InRace, Preparations
  <2> QED BY <1>2, <1>3, <1>5, <1>10, <2>1, Moves
<1>11. CASE Become(p, again) BY <1>3, <1>6, <1>11, Racing
<1>12. CASE Become(p, next) BY <1>3, <1>7, <1>12, Racing
<1>13. CASE Throw(p) BY <1>2, <1>3, <1>13, Ends
<1> QED BY <1>8, <1>9, <1>10, <1>11, <1>12, <1>13

LEMMA Recoveries == ASSUME Inv, NEW p \in Ups, RaceRecover(p) PROVE Inv'
<1>1. me[p].pc = "recover" BY DEF RaceRecover, At
<1>2. p \in Procs /\ DOMAIN me[p] = Fields /\ me[p].exit = "none" BY <1>1, UpFacts
<1>3. Leaves(p, IF 1 = 1 THEN {Here(p)} ELSE {})
  BY <1>2, ServedLeaves DEF RaceRecover, Refused, Inv
<1> DEFINE next == Advance(me[p])
<1>4. DOMAIN next = Fields /\ next.exit = "none" /\ next.pc \in {"nap", "poll"}
  BY <1>2, TurnShape DEF Advance
<1>5. Become(p, next) \/ Throw(p) BY DEF RaceRecover
<1> HIDE DEF next
<1>6. CASE Become(p, next) BY <1>3, <1>4, <1>6, Racing
<1>7. CASE Throw(p) BY <1>2, <1>3, <1>7, Ends
<1> QED BY <1>5, <1>6, <1>7

LEMMA Cancels == ASSUME Inv, NEW p \in Ups, Cancel(p) PROVE Inv'
<1>1. me[p].pc = "cancel" BY DEF Cancel, At
<1>2. /\ p \in Procs /\ DOMAIN me[p] = Fields /\ me[p].exit = "none"
      /\ me[p].started \cap On(fleet, p) \subseteq {me[p].winner} \cup me[p].pending
  BY <1>1, UpFacts DEF InRace, Preparations
<1>3. CASE \E e \in me[p].pending : Served(p, e, 0) /\ LoserAnswered(p, e)
  <2>1. PICK e \in me[p].pending : Served(p, e, 0) /\ LoserAnswered(p, e) BY <1>3
  <2>2. Leaves(p, IF 0 = 1 THEN {e} ELSE {}) /\ e \notin On(fleet', p)
    BY <1>2, <2>1, ServedLeaves DEF Inv, Refused
  <2>3. On(fleet', p) \subseteq On(fleet, p) BY <1>2, <2>2 DEF Leaves
  <2> DEFINE m == [me[p] EXCEPT !.pending = @ \ {e}]
  <2>4. /\ DOMAIN m = Fields /\ m.exit = "none" /\ m.pc = "cancel" /\ m.winner = me[p].winner
        /\ m.started = me[p].started /\ m.pending = me[p].pending \ {e}
    BY <1>1, <1>2 DEF Fields
  <2>5. Become(p, m) \/ (m.pending = {} /\ Won(p, m)) BY <2>1 DEF LoserAnswered
  <2> HIDE DEF m
  <2>6. m.started \cap On(fleet', p) \subseteq {m.winner} \cup m.pending
    BY <1>2, <2>2, <2>3, <2>4
  <2>7. CASE Become(p, m)
    <3>1. InRace(m, On(fleet', p)) BY <2>4, <2>6 DEF InRace, Preparations
    <3> QED BY <1>2, <2>2, <2>4, <2>7, <3>1, Moves
  <2>8. CASE m.pending = {} /\ Won(p, m) BY <1>1, <2>2, <2>4, <2>6, <2>8, Winning
  <2> QED BY <2>5, <2>7, <2>8
<1>4. ASSUME NEW lowered, Throw(p),
             fleet' = [r \in Region |-> IF r \in lowered THEN Asked(p, r, 0)[r] ELSE fleet[r]]
      PROVE Inv'
  <2>1. Leaves(p, {}) BY <1>2, <1>4, CancelLeaves
  <2> QED BY <1>2, <1>4, <2>1, Ends
<1> QED BY <1>3, <1>4 DEF Cancel

LEMMA Naps == ASSUME Inv, NEW p \in Ups, Nap(p) PROVE Inv'
<1>1. me[p].pc = "nap" /\ UNCHANGED fleet BY DEF Nap, At
<1>2. p \in Procs /\ DOMAIN me[p] = Fields /\ me[p].exit = "none" BY <1>1, UpFacts
<1>3. Leaves(p, {}) BY <1>1, Still
<1> DEFINE round == RoundOver(me[p])
           next == Turn(round, 1)
           off == [me[p] EXCEPT !.pc = "giveup", !.pending = Entrants(me[p])]
<1>4. DOMAIN round = Fields /\ round.exit = "none" BY <1>2 DEF RoundOver, Fields
<1>5. DOMAIN next = Fields /\ next.exit = "none" /\ next.pc \in {"nap", "poll"}
  BY <1>4, TurnShape
<1>6. /\ DOMAIN off = Fields /\ off.exit = "none" /\ off.pc = "giveup"
      /\ off.started = me[p].started /\ off.pending = me[p].started
  BY <1>2 DEF Fields, Entrants
<1>7. Become(p, next) \/ Become(p, off) BY DEF Nap
<1> HIDE DEF round, next, off
<1>8. CASE Become(p, next) BY <1>3, <1>5, <1>8, Racing
<1>9. CASE Become(p, off)
  <2>1. InRace(off, On(fleet', p)) BY <1>6 DEF InRace, Preparations
  <2> QED BY <1>2, <1>3, <1>6, <1>9, <2>1, Moves
<1> QED BY <1>7, <1>8, <1>9

LEMMA GiveUps == ASSUME Inv, NEW p \in Ups, GiveUp(p) PROVE Inv'
<1>1. me[p].pc = "giveup" BY DEF GiveUp, At
<1>2. /\ p \in Procs /\ DOMAIN me[p] = Fields /\ me[p].exit = "none"
      /\ me[p].started \cap On(fleet, p) \subseteq me[p].pending \cup me[p].reported
  BY <1>1, UpFacts DEF InRace, Preparations
<1>3. PICK e \in me[p].pending :
        LET m == [me[p] EXCEPT !.pending = @ \ {e}]
            settled(n) == IF n.pending = {} THEN Ended(n, "timeout") ELSE n
        IN \/ Served(p, e, 0) /\ Become(p, settled(m))
           \/ Refused(p, e, 0) /\ Become(p, settled(ReportFailed(m, e)))
  BY DEF GiveUp
<1> DEFINE m == [me[p] EXCEPT !.pending = @ \ {e}]
           f == ReportFailed(m, e)
           settled(n) == IF n.pending = {} THEN Ended(n, "timeout") ELSE n
<1>4. /\ DOMAIN m = Fields /\ m.exit = "none" /\ m.pc = "giveup" /\ m.started = me[p].started
      /\ m.pending = me[p].pending \ {e} /\ m.reported = me[p].reported
  BY <1>1, <1>2 DEF Fields
<1>5. /\ DOMAIN f = Fields /\ f.exit = "none" /\ f.pc = "giveup" /\ f.started = me[p].started
      /\ f.pending = me[p].pending \ {e} /\ f.reported = me[p].reported \cup {e}
  BY <1>4 DEF Fields, ReportFailed
<1>6. Leaves(p, IF 0 = 1 THEN {e} ELSE {}) BY <1>2, <1>3, ServedLeaves DEF Inv, Refused
<1>7. Served(p, e, 0) => e \notin On(fleet', p)
  BY <1>2, <1>3, ServedLeaves DEF Inv, Refused
<1>8. On(fleet', p) \subseteq On(fleet, p) BY <1>2, <1>6 DEF Leaves
\* Either it is off, or it is reported.
<1>9. ASSUME NEW n, DOMAIN n = Fields, n.exit = "none", n.pc = "giveup",
             n.started \cap On(fleet', p) \subseteq n.pending \cup n.reported,
             Become(p, settled(n))
      PROVE Inv'
  <2>1. CASE n.pending # {}
    <3>1. InRace(n, On(fleet', p)) /\ settled(n) = n BY <1>9, <2>1 DEF InRace, Preparations
    <3> QED BY <1>2, <1>6, <1>9, <3>1, Moves
  <2>2. CASE n.pending = {}
    <3> DEFINE end == Ended(n, "timeout")
    <3>1. /\ DOMAIN end = Fields /\ end.pc = "done" /\ end.exit = "timeout"
          /\ end.started = n.started /\ end.reported = n.reported
      BY <1>9 DEF Ended, Fields
    <3>2. settled(n) = end BY <2>2
    <3> HIDE DEF end, settled
    <3>3. InRace(end, On(fleet', p)) BY <1>9, <2>2, <3>1 DEF InRace, Preparations
    <3> QED BY <1>2, <1>6, <1>9, <3>1, <3>2, <3>3, Moves
  <2> QED BY <2>1, <2>2
<1>10. (Served(p, e, 0) /\ Become(p, settled(m))) \/ Become(p, settled(f)) BY <1>3
<1> HIDE DEF m, f, settled
<1>11. CASE Served(p, e, 0) /\ Become(p, settled(m))
  <2>1. m.started \cap On(fleet', p) \subseteq m.pending \cup m.reported
    BY <1>2, <1>4, <1>7, <1>8, <1>11
  <2> QED BY <1>4, <1>9, <1>11, <2>1
<1>12. CASE Become(p, settled(f))
  <2>1. f.started \cap On(fleet', p) \subseteq f.pending \cup f.reported
    BY <1>2, <1>5, <1>8
  <2> QED BY <1>5, <1>9, <1>12, <2>1
<1> QED BY <1>10, <1>11, <1>12

-----------------------------------------------------------------------------
(* After the race *)

LEMMA Raises == ASSUME Inv, NEW p \in Ups, Raise(p) \/ Wait(p) PROVE Inv'
<1>1. me[p].pc \in {"raise", "wait"} BY DEF Raise, Wait, At
<1>2. /\ p \in Procs /\ DOMAIN me[p] = Fields /\ me[p].exit = "none"
      /\ me[p].started \cap On(fleet, p) \subseteq {me[p].winner}
  BY <1>1, UpFacts DEF InRace, Preparations
<1> DEFINE w == me[p].winner
\* Only the winner is asked for again.
<1>3. Leaves(p, {w})
  <2>1. CASE UNCHANGED fleet BY <2>1, Still DEF Leaves
  <2>2. CASE Refused(p, w, 1)
    <3>1. Leaves(p, IF 1 = 1 THEN {w} ELSE {}) BY <1>2, <2>2, ServedLeaves DEF Inv
    <3> QED BY <3>1
  <2>3. CASE Refused(p, w, 0)
    <3>1. Leaves(p, IF 0 = 1 THEN {w} ELSE {}) BY <1>2, <2>3, ServedLeaves DEF Inv
    <3> QED BY <3>1 DEF Leaves
  <2> QED BY <2>1, <2>2, <2>3 DEF Raise, Wait, Refused
<1>4. me[p].started \cap On(fleet', p) \subseteq {w} BY <1>2, <1>3 DEF Leaves
<1>5. ASSUME NEW m, Become(p, m), DOMAIN m = Fields, m.started = me[p].started,
             m.winner = w, (m.pc = "wait" /\ m.exit = "none") \/ (m.pc = "done" /\ m.exit = "zero")
      PROVE Inv'
  <2>1. InRace(m, On(fleet', p)) BY <1>4, <1>5 DEF InRace, Preparations
  <2> QED BY <1>2, <1>3, <1>5, <2>1, Moves
<1> DEFINE waits == [me[p] EXCEPT !.pc = "wait", !.rounds = 0]
           again == [me[p] EXCEPT !.rounds = @ + 1]
           ready == Ended(me[p], "zero")
<1>6. /\ DOMAIN waits = Fields /\ waits.started = me[p].started /\ waits.winner = w
      /\ waits.pc = "wait" /\ waits.exit = "none"
  BY <1>2 DEF Fields
<1>7. /\ DOMAIN again = Fields /\ again.started = me[p].started /\ again.winner = w
      /\ again.pc = me[p].pc /\ again.exit = "none"
  BY <1>2 DEF Fields
<1>8. /\ DOMAIN ready = Fields /\ ready.started = me[p].started /\ ready.winner = w
      /\ ready.pc = "done" /\ ready.exit = "zero"
  BY <1>2 DEF Ended, Fields
<1>9. \/ Become(p, waits)
      \/ me[p].pc = "wait" /\ Become(p, again)
      \/ Become(p, ready)
      \/ Throw(p)
  BY DEF Raise, Wait, At
<1> HIDE DEF waits, again, ready
<1>10. CASE Throw(p) BY <1>2, <1>3, <1>10, Ends
<1> QED BY <1>5, <1>6, <1>7, <1>8, <1>9, <1>10

LEMMA Crashes == ASSUME Inv, NEW p \in Procs, Crash(p) PROVE Inv'
<1> DEFINE m == [Locals EXCEPT !.pc = "crashed"]
<1>1. DOMAIN m = Fields /\ m.pc = "crashed" /\ m.exit = "none" BY DEF Locals, Fields
<1>2. Leaves(p, {}) /\ Become(p, m) BY Still DEF Crash
<1> HIDE DEF m
<1>3. InRace(m, On(fleet', p)) BY <1>1 DEF InRace, Preparations
<1> QED BY <1>1, <1>2, <1>3, Moves

-----------------------------------------------------------------------------
(* The invariant *)

LEMMA InitInv == ASSUME Init PROVE Inv
<1>1. EmptyRegion \in Stack BY DEF EmptyRegion, Stack
<1>2. /\ DOMAIN Locals = Fields /\ Locals.pc = "idle" /\ Locals.exit = "none"
      /\ Locals.started = {}
  BY DEF Locals, Fields
<1>3. FleetOK BY <1>1 DEF Init, FleetOK
<1>4. LocalsOK BY <1>2 DEF Init, LocalsOK
<1>5. \A p \in Ups : me[p] = Locals BY DEF Init, Ups, Procs
<1>6. \A on : InRace(Locals, on) BY <1>2 DEF InRace, Preparations
<1> QED BY <1>3, <1>4, <1>5, <1>6 DEF Inv

LEMMA InvPreserved == ASSUME Inv, [Next]_vars PROVE Inv'
<1>1. CASE \E p \in Procs : ProcStep(p)
  <2>1. PICK p \in Procs : ProcStep(p) BY <1>1
  <2>2. CASE p \in Downs BY <2>1, <2>2, DownSteps DEF ProcStep
  <2>3. CASE p \notin Downs
    <3>1. p \in Ups /\ UpStep(p) BY <2>1, <2>3 DEF ProcStep, Ups, Procs
    <3> QED BY <3>1, PrepareSteps, SaveSteps, StartAnswers, Polls, Recoveries, Cancels, Naps, GiveUps, Raises
        DEF UpStep, RaceStep
  <2> QED BY <2>2, <2>3
<1>2. CASE \E p \in Procs : Crash(p) BY <1>2, Crashes
<1>3. CASE (\E r \in Region : IdleStop(r) \/ Ec2(r)) \/ UNCHANGED vars BY <1>3, EnvSteps
<1> QED BY <1>1, <1>2, <1>3 DEF Next

LEMMA Invariant == Spec => []Inv
<1>1. Init => Inv BY InitInv
<1>2. Inv /\ [Next]_vars => Inv' BY InvPreserved
<1> QED BY <1>1, <1>2, PTL DEF Spec

\* However the requests to switch on, to switch off and the guard's own interleave,
\* a race that has returned a winner has none of its other entrants on
\* (race.ts:40-44, up.ts:224-227).
THEOREM LosersAreOff == Spec => []OneRegionLeft
<1>1. Inv => OneRegionLeft
  <2> SUFFICES ASSUME Inv, NEW p \in Autos, NEW r \in Region,
                      me[p].pc \in {"saveWinner", "raise", "wait"} \/ Succeeded(p),
                      r \in Entrants(me[p]) \ {me[p].winner}, OnBy(r, p)
               PROVE FALSE
    BY DEF OneRegionLeft
  <2>1. InRace(me[p], On(fleet, p)) BY DEF Inv, Ups
  <2>2. r \in On(fleet, p) BY DEF OnBy, On
  <2> QED BY <2>1, <2>2 DEF InRace, Succeeded, At, Entrants
<1> QED BY <1>1, Invariant, PTL

\* A race that ends at its deadline names, in its error, every entrant that it has
\* switched on and could not switch off (race.ts:54-60).
THEOREM FailuresAreReported == Spec => []TimeoutReported
<1>1. Inv => TimeoutReported
  <2> SUFFICES ASSUME Inv, NEW p \in Autos, NEW r \in Region,
                      me[p].exit = "timeout", r \in Entrants(me[p]), OnBy(r, p)
               PROVE r \in me[p].reported
    BY DEF TimeoutReported
  <2>1. InRace(me[p], On(fleet, p)) BY DEF Inv, Ups
  <2>2. r \in On(fleet, p) BY DEF OnBy, On
  <2> QED BY <2>1, <2>2 DEF InRace, Entrants
<1> QED BY <1>1, Invariant, PTL

-----------------------------------------------------------------------------
(* What is on is recorded, if one automatic up has no other beside it *)

\* Two of them overwrite each other's record.
OneAuto == \A p, q \in Autos : p = q

\* A purge writes the file as well.
Purging == \E d \in Downs : DownOptions[d].purge

Races == {"start", "poll", "recover", "cancel", "nap", "giveup"}
Marks == {"empty", "torn"}
Broken(m) == m.pc = "crashed" \/ (m.pc = "done" /\ m.exit = "one")

\* What the purges that are over have left in the file
Left == {Forgotten(me[d].snap, me[d].target) :
           d \in {e \in Downs : DownOptions[e].purge /\ Succeeded(e)}}

\* At each place of the session m, its locals and the regions it has on
Ranked(m, on) ==
  /\ m.pc \in Preparations => on = {}
  /\ m.pc = "idle" => m.i = 1
  /\ m.pc \in (Preparations \ {"idle"}) \cup Races => m.top \in Seq(Region) /\ m.top # <<>>
  /\ m.pc \in {"stack", "saveTarget", "weights", "poll", "recover"} => m.i \in DOMAIN m.top
  /\ m.pc \in Races \cup {"saveRanking"} =>
       m.pending \subseteq Range(m.top) /\ m.started \subseteq Range(m.top)
  /\ m.pc \in Races \cup {"saveWinner"} => on \subseteq Range(m.top)
  /\ m.pc = "cancel" => m.winner \in Range(m.top)

\* What the file f, if it is the session's, says of them
Says(m, f, on) ==
  /\ on \subseteq {f.region} \cup f.standby
  /\ m.pc \in Races => f.standby = Range(m.top)
  /\ m.pc \in {"raise", "wait"} \/ (m.pc = "done" /\ m.exit = "zero") => f.region = m.winner

\* It is not the session's, or not readable.
Spoilt(m, f, left) ==
  \/ Purging /\ f \in left
  \/ f \in Unreadable /\ (Purging \/ m.pc \in Saves \/ Broken(m))

\* What it is about to write
Text(m, s) ==
  \A f \in s : /\ f.region \notin Marks
               /\ m.pc \in {"saveRanking", "saveWinner"} => f.standby = Range(m.top)
               /\ m.pc = "saveWinner" => f.region = m.winner

Named(m, f, s, left, on) ==
  /\ Ranked(m, on) /\ Text(m, s)
  /\ m.pc \in Saves => Spoilt(m, f, left) /\ (Purging \/ (f = Empty /\ s # {}))
  /\ m.pc \notin Saves => Says(m, f, on) \/ Spoilt(m, f, left)

NamedUp(p) == Named(me[p], state, saving[p], Left, On(fleet, p))

\* A down that goes on has read a file; what it writes back is that file.
Aim(d, m, s) ==
  /\ m.pc \in {"destroy", "bucket", "savePurge"} => DownOptions[d].purge
  /\ m.pc \in {"outputs", "lower", "destroy", "bucket", "savePurge"} => m.snap.region \notin Marks
  /\ m.pc = "savePurge" => m.snap.region # m.target /\ s \subseteq {Forgotten(m.snap, m.target)}
  /\ m.pc \in Saves => m.pc = "savePurge"

SeedPlaces == {"idle", "stack", "weights", "done", "crashed"}

\* An unreadable file has a reason.
FileInv ==
  /\ saving = [p \in Procs |-> saving[p]]
  /\ state \in Unreadable \/ state.region \notin Marks
  /\ state = Empty => \E q \in Procs : \/ me[q].pc \in Saves /\ saving[q] # {}
                                       \/ Broken(me[q])
  /\ state = Torn => \/ \E q \in Procs : Broken(me[q])
                     \/ \E d \in Downs : DownOptions[d].purge /\ Succeeded(d)

NamedInv == /\ \A p \in Autos : NamedUp(p)
            /\ \A p \in Seeds : me[p].pc \in SeedPlaces
            /\ \A d \in Downs : Aim(d, me[d], saving[d])
            /\ FileInv

LEMMA NatMin == ASSUME NEW T, T \subseteq Nat, T # {} PROVE \E x \in T : \A y \in T : x <= y
<1> DEFINE R == OpToRel(<, Nat)
<1>1. IsWellFoundedOn(R, Nat) BY NatLessThanWellFounded
<1>2. \A ss : ss \in R <=> ss \in Nat \X Nat /\ ss[1] < ss[2] BY DEF OpToRel
<1> HIDE DEF R
<1>3. PICK x \in T : \A y \in T : <<y, x>> \notin R BY <1>1, WFMin
<1>4. \A y \in T : ~(y < x) BY <1>2, <1>3
<1> QED BY <1>4

(* The entrant that is polled next is one of the ranking. *)
LEMMA TurnPlace ==
  ASSUME NEW m, DOMAIN m = Fields, m.top \in Seq(Region), NEW k \in Nat \ {0}
  PROVE /\ Turn(m, k).pc = "poll" => Turn(m, k).i \in DOMAIN m.top
        /\ Turn(m, k).pending = m.pending
<1> DEFINE rest == {j \in k..Len(m.top) : m.top[j] \in Entrants(m)}
           next == CHOOSE j \in rest : \A l \in rest : j <= l
<1>1. Len(m.top) \in Nat /\ DOMAIN m.top = 1..Len(m.top) OBVIOUS
<1>2. rest \subseteq Nat /\ rest \subseteq DOMAIN m.top BY <1>1
<1>3. Turn(m, k) = IF rest = {} THEN [m EXCEPT !.pc = "nap"] ELSE [m EXCEPT !.pc = "poll", !.i = next]
  BY DEF Turn
<1>4. rest # {} => next \in rest
  <2> HIDE DEF rest
  <2>1. rest # {} => \E j \in rest : \A l \in rest : j <= l BY <1>2, NatMin
  <2> QED BY <2>1
<1> HIDE DEF rest, next
<1> QED BY <1>2, <1>3, <1>4 DEF Fields

\* The regions that the session m may switch on with its next call
Asks(m) == IF m.pc = "start" THEN m.pending
           ELSE IF m.pc = "recover" THEN {m.top[m.i]}
           ELSE IF m.pc \in {"raise", "wait"} THEN {m.winner} ELSE {}

LEMMA UpLeaves ==
  ASSUME Inv, NEW p \in Ups, UpStep(p)
  PROVE Leaves(p, Asks(me[p]))
<1>1. p \in Procs BY DEF Ups, Procs
<1> USE <1>1
<1>2. ASSUME NEW e, Refused(p, e, 0) PROVE Leaves(p, Asks(me[p]))
  <2>1. Leaves(p, IF 0 = 1 THEN {e} ELSE {}) BY <1>2, ServedLeaves DEF Inv
  <2> QED BY <2>1 DEF Leaves
<1>3. ASSUME NEW e \in Asks(me[p]), Refused(p, e, 1) PROVE Leaves(p, Asks(me[p]))
  <2>1. Leaves(p, IF 1 = 1 THEN {e} ELSE {}) BY <1>3, ServedLeaves DEF Inv
  <2> QED BY <1>3, <2>1 DEF Leaves
<1>4. ASSUME Leaves(p, {}) PROVE Leaves(p, Asks(me[p])) BY <1>4 DEF Leaves
<1>5. CASE Start(p) \/ EnsureStack(p) \/ EnsureWeights(p) \/ Prepared(p) \/ Solo(p) \/ Write(p)
  BY <1>4, <1>5, PrepareLeaves
<1>6. CASE StartAnswer(p) BY <1>3, <1>6 DEF StartAnswer, Asks, At, Refused
<1>7. CASE Poll(p) \/ Nap(p) BY <1>4, <1>7, Still DEF Poll, Nap
<1>8. CASE RaceRecover(p) BY <1>3, <1>8 DEF RaceRecover, Asks, At, Refused, Here
<1>9. CASE Cancel(p)
  <2>1. CASE \E e \in me[p].pending : Served(p, e, 0) BY <1>2, <2>1 DEF Refused
  <2>2. ASSUME NEW lowered,
               fleet' = [r \in Region |-> IF r \in lowered THEN Asked(p, r, 0)[r] ELSE fleet[r]]
        PROVE Leaves(p, {})
    BY <2>2, CancelLeaves
  <2> QED BY <1>4, <1>9, <2>1, <2>2 DEF Cancel
<1>10. CASE GiveUp(p) BY <1>2, <1>10 DEF GiveUp, Refused
<1>11. CASE Raise(p) BY <1>3, <1>11 DEF Raise, Asks, At, Refused
<1>12. CASE Wait(p)
  <2>1. CASE UNCHANGED fleet BY <1>4, <2>1, Still
  <2>2. CASE Served(p, me[p].winner, 1) BY <1>3, <1>12, <2>2 DEF Wait, Asks, At, Refused
  <2>3. CASE Refused(p, me[p].winner, 0) BY <1>2, <2>3
  <2> QED BY <1>12, <2>1, <2>2, <2>3 DEF Wait
<1> QED BY <1>5, <1>6, <1>7, <1>8, <1>9, <1>10, <1>11, <1>12 DEF UpStep, RaceStep

\* A step of p leaves the others as they are, and on what they have on, or less.
Alone(p) == \A q \in Procs \ {p} : me'[q] = me[q] /\ On(fleet', q) \subseteq On(fleet, q)

LEMMA StepsAlone == ASSUME Inv, NEW p \in Procs, ProcStep(p) \/ Crash(p) PROVE Alone(p)
<1>1. \E m : me' = [me EXCEPT ![p] = m]
  <2>1. CASE Throw(p) BY <2>1 DEF Throw, Become
  <2>0. ASSUME NEW m, NEW f, Save(p, m, f) PROVE \E n : me' = [me EXCEPT ![p] = n]
    BY <2>0, <2>1, SaveMoves DEF Become
  <2>2. CASE \E m : Won(p, m) BY <2>0, <2>2 DEF Won
  <2>17. CASE Write(p) BY <2>1, <2>17 DEF Write, Become
  <2>18. CASE Forget(p) BY <2>0, <2>1, <2>18 DEF Forget, Become
  <2>3. CASE DownStep(p)
    BY <2>1, <2>3, <2>17, <2>18
    DEF DownStep, StartDown, DownOutputs, Lower, Destroy, DeleteBucket, Become
  <2>4. CASE Start(p) BY <2>1, <2>4 DEF Start, Become
  <2>5. CASE EnsureStack(p) BY <2>1, <2>0, <2>5 DEF EnsureStack, Become
  <2>6. CASE EnsureWeights(p) BY <2>1, <2>6 DEF EnsureWeights, Become
  <2>7. CASE Prepared(p) BY <2>0, <2>1, <2>7 DEF Prepared, Become
  <2>19. CASE Solo(p) BY <2>2, <2>19 DEF Solo
  <2>8. CASE StartAnswer(p) BY <2>8 DEF StartAnswer, Become
  <2>9. CASE Poll(p) BY <2>1, <2>2, <2>9 DEF Poll, Become
  <2>10. CASE RaceRecover(p) BY <2>1, <2>10 DEF RaceRecover, Become
  <2>11. CASE Cancel(p) BY <2>1, <2>2, <2>11 DEF Cancel, LoserAnswered, Become
  <2>12. CASE Nap(p) BY <2>12 DEF Nap, Become
  <2>13. CASE GiveUp(p) BY <2>13 DEF GiveUp, Become
  <2>14. CASE Raise(p) BY <2>1, <2>14 DEF Raise, Become
  <2>15. CASE Wait(p) BY <2>1, <2>15 DEF Wait, Become
  <2>16. CASE Crash(p) BY <2>16 DEF Crash, Become
  <2> QED BY <2>3, <2>4, <2>5, <2>6, <2>7, <2>8, <2>9, <2>10, <2>11, <2>12, <2>13, <2>14,
             <2>15, <2>16, <2>17, <2>19 DEF ProcStep, UpStep, RaceStep
<1>2. \A q \in Procs \ {p} : me'[q] = me[q] BY <1>1 DEF Inv, LocalsOK
<1>3. \A q \in Procs \ {p} : On(fleet', q) \subseteq On(fleet, q)
  <2>1. CASE p \in Downs /\ DownStep(p) BY <2>1, DownLeaves DEF Leaves
  <2>2. CASE p \notin Downs /\ UpStep(p)
    <3>1. Leaves(p, Asks(me[p])) BY <2>2, UpLeaves DEF Ups, Procs
    <3> QED BY <3>1 DEF Leaves
  <2>3. CASE Crash(p) BY <2>3 DEF Crash
  <2> QED BY <2>1, <2>2, <2>3 DEF ProcStep
<1> QED BY <1>2, <1>3 DEF Alone

\* Where a session is after its step
LEMMA Becomes ==
  ASSUME Inv, NEW p \in Procs, NEW m, Become(p, m)
  PROVE me'[p] = m
BY DEF Become, Inv, LocalsOK


LEMMA Markers ==
  /\ Empty # Torn /\ NoState # Empty /\ NoState # Torn
  /\ NoState.region \notin Marks /\ Region \cap Marks = {}
  /\ \A f : f.region \notin Marks => f \notin Unreadable
<1>1. /\ NoState.region = Nobody /\ Empty.region = "empty" /\ Torn.region = "torn"
  BY DEF NoState, Empty, Torn
<1>2. Nobody \notin Marks /\ Region \cap Marks = {} BY RegionAssumption DEF Marks
<1> QED BY <1>1, <1>2 DEF Unreadable, Marks

\* A session that has ended takes no step.
LEMMA Stopped ==
  ASSUME NEW p \in Procs, ProcStep(p) \/ Crash(p)
  PROVE me[p].pc \notin {"done", "crashed"}
BY DEF ProcStep, DownStep, StartDown, DownOutputs, Lower, Destroy, DeleteBucket, UpStep, RaceStep,
       Start, EnsureStack, EnsureWeights, Prepared, Write, Solo, StartAnswer, Poll, RaceRecover,
       Cancel, Nap, GiveUp, Raise, Wait, Crash, At, Saves

\* What a purge has left stays so until the file is written again.
LEMMA LeftGrows ==
  ASSUME Inv, NEW p \in Procs, ProcStep(p) \/ Crash(p)
  PROVE Left \subseteq Left'
<1>1. \A q \in Procs \ {p} : me'[q] = me[q] BY StepsAlone DEF Alone
<1>2. \A d \in Downs : Succeeded(d) => me'[d] = me[d]
  BY <1>1, Stopped DEF Succeeded, At, Procs
<1> QED BY <1>2 DEF Left, Succeeded, At

\* What an automatic up may rely on before its step
LEMMA NamedFacts ==
  ASSUME Inv, NamedInv, NEW p \in Autos, UpStep(p)
  PROVE /\ p \in Procs /\ DOMAIN me[p] = Fields /\ NamedUp(p)
        /\ Ranked(me[p], On(fleet, p)) /\ Text(me[p], saving[p])
        /\ me[p].exit = "none" /\ me[p].pc \notin {"done", "crashed"} /\ Left \subseteq Left'
        /\ On(fleet', p) \subseteq On(fleet, p) \cup Asks(me[p])
<1>1. p \in Ups /\ p \in Procs /\ ProcStep(p) BY RegionAssumption DEF Ups, Procs, ProcStep
<1>2. me[p].pc \notin {"done", "crashed"} /\ Left \subseteq Left' BY <1>1, Stopped, LeftGrows
<1>3. Leaves(p, Asks(me[p])) BY <1>1, UpLeaves
<1> QED BY <1>1, <1>2, <1>3, UpFacts DEF NamedInv, NamedUp, Named, Leaves

\* In the race, a session asks only for regions of its ranking ...
LEMMA RacersRanked ==
  ASSUME NEW m, NEW on, Ranked(m, on), m.pc \in Races
  PROVE Asks(m) \subseteq Range(m.top)
<1>1. m.pc = "recover" => m.top[m.i] \in Range(m.top) BY DEF Ranked, Range
<1> QED BY <1>1 DEF Asks, Ranked, Races

\* ... and at any time only for regions that its file names.
LEMMA AskedIsNamed ==
  ASSUME NEW m, NEW f, NEW on, Ranked(m, on), Says(m, f, on)
  PROVE Asks(m) \subseteq {f.region} \cup f.standby
<1>1. m.pc \in Races => Asks(m) \subseteq f.standby BY RacersRanked DEF Says
<1>2. m.pc \in {"raise", "wait"} => Asks(m) = {f.region} BY DEF Asks, Says
<1>3. m.pc \notin Races \cup {"raise", "wait"} => Asks(m) = {} BY DEF Asks, Races
<1> QED BY <1>1, <1>2, <1>3

\* It goes on without a save.
LEMMA NamedStays ==
  ASSUME Inv, NamedInv, NEW p \in Autos, UpStep(p), UNCHANGED file, me[p].pc \notin Saves,
         NEW m, Become(p, m), m.pc \notin Saves, Ranked(m, On(fleet', p)),
         Says(me[p], state, On(fleet, p)) => Says(m, state, On(fleet', p))
  PROVE NamedUp(p)'
<1>1. /\ p \in Procs /\ NamedUp(p) /\ Text(me[p], saving[p]) /\ Left \subseteq Left'
      /\ me[p].pc \notin {"done", "crashed"}
  BY NamedFacts
<1>2. me'[p] = m /\ state' = state /\ saving'[p] = saving[p] BY <1>1, Becomes DEF file
<1>3. Says(me[p], state, On(fleet, p)) \/ Spoilt(me[p], state, Left)
  BY <1>1 DEF NamedUp, Named
<1>4. Spoilt(me[p], state, Left) => Spoilt(m, state, Left')
  BY <1>1 DEF Spoilt, Broken
<1>5. Text(m, saving[p]) BY <1>1 DEF Text, Saves
<1>6. Named(m, state, saving[p], Left', On(fleet', p)) BY <1>3, <1>4, <1>5 DEF Named
<1> QED BY <1>2, <1>6 DEF NamedUp

\* It ends, not well.
LEMMA NamedOver ==
  ASSUME Inv, NamedInv, NEW p \in Autos, UpStep(p), UNCHANGED file, me[p].pc \notin Saves,
         NEW m, Become(p, m), m.pc = "done", m.exit # "zero"
  PROVE NamedUp(p)'
<1>1. /\ Ranked(me[p], On(fleet, p)) /\ On(fleet', p) \subseteq On(fleet, p) \cup Asks(me[p])
  BY NamedFacts
<1>2. Ranked(m, On(fleet', p)) BY DEF Ranked, Preparations, Races
<1>3. Says(me[p], state, On(fleet, p)) => Says(m, state, On(fleet', p))
  <2> SUFFICES ASSUME Says(me[p], state, On(fleet, p)) PROVE Says(m, state, On(fleet', p))
    OBVIOUS
  <2>1. Asks(me[p]) \subseteq {state.region} \cup state.standby BY <1>1, AskedIsNamed
  <2> QED BY <1>1, <2>1 DEF Says, Races
<1>4. m.pc \notin Saves BY DEF Saves
<1> QED BY <1>2, <1>3, <1>4, NamedStays

LEMMA NamedEnds ==
  ASSUME Inv, NamedInv, NEW p \in Autos, UpStep(p), Throw(p), UNCHANGED file, me[p].pc \notin Saves
  PROVE NamedUp(p)'
<1> DEFINE m == Ended(me[p], "one")
<1>1. m.pc = "done" /\ m.exit = "one" BY NamedFacts DEF Ended, Fields
<1>2. Become(p, m) BY DEF Throw
<1> HIDE DEF m
<1> QED BY <1>1, <1>2, NamedOver

\* It begins a save.
LEMMA NamedOpens ==
  ASSUME Inv, NamedInv, NEW p \in Autos, UpStep(p), me[p].pc \notin Saves,
         NEW m, NEW f, Save(p, m, f), m.pc \in Saves, Ranked(m, On(fleet', p)), Text(m, {f})
  PROVE NamedUp(p)'
<1>1. p \in Procs BY NamedFacts
<1>2. CASE UNCHANGED file /\ Throw(p) BY <1>2, NamedEnds
<1>3. CASE state' = Empty /\ saving' = [saving EXCEPT ![p] = {f}] /\ Become(p, m)
  <2>1. me'[p] = m /\ saving'[p] = {f} BY <1>1, <1>3, Becomes DEF NamedInv, FileInv
  <2>2. Spoilt(m, Empty, Left') BY DEF Spoilt, Unreadable
  <2>3. Named(m, Empty, {f}, Left', On(fleet', p)) BY <2>2 DEF Named
  <2> QED BY <1>3, <2>1, <2>3 DEF NamedUp
<1> QED BY <1>2, <1>3 DEF Save

\* It ends a save.
LEMMA NamedWrites ==
  ASSUME Inv, NamedInv, NEW p \in Autos, UpStep(p), Write(p)
  PROVE NamedUp(p)'
<1> DEFINE m == Saved(me[p])
           bad == Ended(me[p], "one")
<1>1. /\ p \in Procs /\ DOMAIN me[p] = Fields /\ NamedUp(p) /\ Ranked(me[p], On(fleet, p))
      /\ Text(me[p], saving[p]) /\ me[p].exit = "none" /\ Left \subseteq Left'
  BY NamedFacts
<1>2. me[p].pc \in Saves \ {"savePurge"} /\ On(fleet', p) = On(fleet, p)
  BY Still, <1>1 DEF Write, Inv, InRace, Ups
<1>3. /\ Spoilt(me[p], state, Left)
      /\ Purging \/ (state = Empty /\ saving[p] # {})
  BY <1>1, <1>2 DEF NamedUp, Named
<1>4. saving'[p] = {} BY <1>1 DEF Write, NamedInv, FileInv
<1>5. bad.pc = "done" /\ bad.exit = "one" BY <1>1 DEF Ended, Fields
<1>6. /\ m.exit = "none" /\ m.top = me[p].top /\ m.winner = me[p].winner
      /\ m.started = me[p].started /\ m.pending = me[p].pending /\ m.i = me[p].i
      /\ me[p].pc = "saveTarget" => m.pc = "weights"
      /\ me[p].pc = "saveRanking" => m.pc \in {"solo", "start"}
      /\ me[p].pc = "saveWinner" => m.pc = "raise"
  BY <1>1, <1>2, SavedShape
<1>7. m.pc \notin Saves BY <1>2, <1>6 DEF Saves
<1>8. Ranked(m, On(fleet', p))
  <2> HIDE DEF m
  <2>1. CASE me[p].pc = "saveTarget" BY <1>1, <1>2, <1>6, <2>1 DEF Ranked, Preparations, Races
  <2>2. CASE me[p].pc = "saveRanking" BY <1>1, <1>2, <1>6, <2>2 DEF Ranked, Preparations, Races
  <2>3. CASE me[p].pc = "saveWinner" BY <1>1, <1>2, <1>6, <2>3 DEF Ranked, Preparations, Races
  <2> QED BY <1>2, <2>1, <2>2, <2>3 DEF Saves
\* What it was to write says what it should.
<1>9. ASSUME NEW f \in saving[p] PROVE Says(m, f, On(fleet', p))
  <2> HIDE DEF m
  <2>1. CASE me[p].pc = "saveTarget"
    BY <1>1, <1>2, <1>6, <2>1 DEF Ranked, Says, Preparations, Races
  <2>2. CASE me[p].pc = "saveRanking"
    BY <1>1, <1>2, <1>6, <2>2 DEF Ranked, Says, Text, Preparations, Races
  <2>3. CASE me[p].pc = "saveWinner"
    BY <1>1, <1>2, <1>6, <2>3 DEF Ranked, Says, Text, Preparations, Races
  <2> QED BY <1>2, <2>1, <2>2, <2>3 DEF Saves
<1>10. ASSUME NEW n, Become(p, n), n.pc \notin Saves, Ranked(n, On(fleet', p)),
              Says(n, state', On(fleet', p)) \/ Spoilt(n, state', Left')
       PROVE NamedUp(p)'
  <2>1. me'[p] = n BY <1>1, <1>10, Becomes
  <2>2. Text(n, {}) BY DEF Text
  <2>3. Named(n, state', {}, Left', On(fleet', p)) BY <1>10, <2>2 DEF Named
  <2> QED BY <1>4, <2>1, <2>3 DEF NamedUp
<1>11. Torn \in Unreadable BY DEF Unreadable
<1>12. ASSUME Purging PROVE Spoilt(m, state, Left') /\ Spoilt(m, Torn, Left')
  BY <1>1, <1>3, <1>11, <1>12 DEF Spoilt
<1>13. Spoilt(bad, state, Left') /\ Spoilt(bad, Torn, Left')
  BY <1>1, <1>3, <1>5, <1>11 DEF Spoilt, Broken
<1>14. Ranked(bad, On(fleet', p)) /\ bad.pc \notin Saves
  BY <1>5 DEF Ranked, Preparations, Races, Saves
<1>15. ASSUME Throw(p), state' \in {state, Torn} PROVE NamedUp(p)'
  <2>1. Become(p, bad) /\ Spoilt(bad, state', Left') BY <1>13, <1>15 DEF Throw
  <2> HIDE DEF bad
  <2> QED BY <1>10, <1>14, <2>1
<1>16. ASSUME Become(p, m), Says(m, state', On(fleet', p)) \/ Spoilt(m, state', Left')
       PROVE NamedUp(p)'
  <2> HIDE DEF m
  <2> QED BY <1>7, <1>8, <1>10, <1>16
<1> HIDE DEF m, bad
<1>17. CASE saving[p] = {} /\ UNCHANGED state /\ (Become(p, m) \/ Throw(p))
  BY <1>3, <1>12, <1>15, <1>16, <1>17
<1>18. CASE \E f \in saving[p] : \/ state' = f /\ Become(p, m)
                                 \/ state # Empty /\ state' = Torn /\ Become(p, m)
                                 \/ state' \in {state, Torn} /\ Throw(p)
  <2>1. PICK f \in saving[p] : \/ state' = f /\ Become(p, m)
                               \/ state # Empty /\ state' = Torn /\ Become(p, m)
                               \/ state' \in {state, Torn} /\ Throw(p)
    BY <1>18
  <2>2. CASE state' = f /\ Become(p, m) BY <1>9, <1>16, <2>2
  <2>3. CASE state # Empty /\ state' = Torn /\ Become(p, m) BY <1>3, <1>12, <1>16, <2>3
  <2>4. CASE state' \in {state, Torn} /\ Throw(p) BY <1>15, <2>4
  <2> QED BY <2>1, <2>2, <2>3, <2>4
<1> QED BY <1>17, <1>18 DEF Write, m

\* It goes on with the race.
LEMMA NamedRaces ==
  ASSUME Inv, NamedInv, NEW p \in Autos, UpStep(p), UNCHANGED file, me[p].pc \in Races,
         NEW m, Become(p, m), m.pc \in Races, m.top = me[p].top,
         m.pending \subseteq Range(m.top), m.started \subseteq Range(m.top),
         m.pc \in {"poll", "recover"} => m.i \in DOMAIN m.top,
         m.pc = "cancel" => m.winner \in Range(m.top)
  PROVE NamedUp(p)'
<1>1. /\ Ranked(me[p], On(fleet, p)) /\ On(fleet', p) \subseteq On(fleet, p) \cup Asks(me[p])
  BY NamedFacts
<1>2. Asks(me[p]) \subseteq Range(m.top) BY <1>1, RacersRanked
<1>3. On(fleet', p) \subseteq Range(m.top) BY <1>1, <1>2 DEF Ranked
<1>4. Ranked(m, On(fleet', p)) BY <1>1, <1>3 DEF Ranked, Preparations, Races
<1>5. Says(me[p], state, On(fleet, p)) => Says(m, state, On(fleet', p))
  BY <1>3 DEF Says, Races
<1>6. me[p].pc \notin Saves /\ m.pc \notin Saves BY DEF Races, Saves
<1> QED BY <1>4, <1>5, <1>6, NamedStays

\* It has a winner.
LEMMA NamedWins ==
  ASSUME Inv, NamedInv, NEW p \in Autos, UpStep(p), me[p].pc \notin Saves, NEW m, Won(p, m),
         DOMAIN m = Fields, m.winner \in Region, On(fleet', p) \subseteq Range(m.top)
  PROVE NamedUp(p)'
<1> DEFINE used == Touch(m.used, m.winner)
           n == [m EXCEPT !.pc = "saveWinner", !.used = used]
           f == [region |-> m.winner, standby |-> Range(m.top), lastUsed |-> used]
<1>1. Save(p, n, f) BY DEF Won
<1>2. n.pc = "saveWinner" /\ n.winner = m.winner /\ n.top = m.top BY DEF Fields
<1>3. f.region = m.winner /\ f.standby = Range(m.top) OBVIOUS
<1> HIDE DEF n, f
<1>4. Ranked(n, On(fleet', p)) BY <1>2 DEF Ranked, Preparations, Races
<1>5. Text(n, {f}) BY <1>2, <1>3, Markers DEF Text
<1>6. n.pc \in Saves BY <1>2 DEF Saves
<1> QED BY <1>1, <1>4, <1>5, <1>6, NamedOpens

LEMMA RankingShape ==
  ASSUME NEW n \in Nat \ {0}, NEW t \in Orders(n)
  PROVE t \in Seq(Region) /\ t # <<>>
<1>1. t \in [1..n -> Region] BY DEF Orders
<1>2. t \in Seq(Region) BY <1>1
<1>3. Len(t) = n BY <1>1, <1>2
<1> QED BY <1>1, <1>2, <1>3

LEMMA NamedPreparations ==
  ASSUME Inv, NamedInv, NEW p \in Autos, UpStep(p),
         Start(p) \/ EnsureStack(p) \/ EnsureWeights(p) \/ Prepared(p) \/ Solo(p)
  PROVE NamedUp(p)'
<1>1. me[p].pc \in Preparations /\ me[p].pc \notin Saves
  BY DEF Start, EnsureStack, EnsureWeights, Prepared, Solo, At, Preparations, Saves
<1>2. /\ p \in Procs /\ DOMAIN me[p] = Fields /\ Ranked(me[p], On(fleet, p))
      /\ On(fleet', p) \subseteq On(fleet, p) \cup Asks(me[p])
  BY NamedFacts
<1>3. On(fleet', p) = {} BY <1>1, <1>2 DEF Asks, Ranked, Preparations
<1>4. me[p].pc # "idle" => /\ me[p].top \in Seq(Region) /\ me[p].top # <<>>
                           /\ Head(me[p].top) \in Region
  BY <1>1, <1>2 DEF Ranked, Preparations
<1>5. me[p].pc \in {"stack", "weights"} => me[p].i \in DOMAIN me[p].top /\ Here(p) \in Region
  BY <1>2, <1>4 DEF Ranked, Here
\* Nothing is on yet: what matters is the ranking.
<1>6. ASSUME NEW m, Become(p, m), UNCHANGED file, m.pc \in {"stack", "weights"},
             m.top \in Seq(Region), m.i \in DOMAIN m.top
      PROVE NamedUp(p)'
  <2>1. m.top # <<>> BY <1>6
  <2>2. Ranked(m, On(fleet', p)) BY <1>3, <1>6, <2>1 DEF Ranked, Preparations, Races
  <2>3. Says(m, state, On(fleet', p)) BY <1>3, <1>6 DEF Says, Races
  <2>4. m.pc \notin Saves BY <1>6 DEF Saves
  <2> QED BY <1>1, <1>6, <2>2, <2>3, <2>4, NamedStays
<1>7. CASE Start(p)
  <2>1. UNCHANGED file /\ me[p].i = 1 BY <1>2, <1>7 DEF Start, Ranked, At
  <2>2. CASE Throw(p) BY <1>1, <2>1, <2>2, NamedEnds
  <2>3. CASE \E n \in 1..Width : \E t \in Orders(n) :
               Become(p, [me[p] EXCEPT !.pc = "stack", !.top = t])
    <3>1. PICK n \in 1..Width : \E t \in Orders(n) :
                 Become(p, [me[p] EXCEPT !.pc = "stack", !.top = t])
      BY <2>3
    <3> PICK t \in Orders(n) : Become(p, [me[p] EXCEPT !.pc = "stack", !.top = t])
      BY <3>1
    <3>2. n \in Nat \ {0} BY RegionAssumption DEF Width
    <3> DEFINE m == [me[p] EXCEPT !.pc = "stack", !.top = t]
    <3>3. m.pc = "stack" /\ m.top = t /\ m.i = 1 BY <1>2, <2>1 DEF Fields
    <3>4. t \in Seq(Region) /\ t # <<>> BY <3>2, RankingShape
    <3>5. 1 \in DOMAIN t BY <3>4
    <3> HIDE DEF m
    <3> QED BY <1>6, <2>1, <3>1, <3>3, <3>4, <3>5 DEF m
  <2> QED BY <1>7, <2>2, <2>3, RegionAssumption DEF Start
<1>8. CASE EnsureStack(p)
  <2> DEFINE m == [me[p] EXCEPT !.pc = "saveTarget"]
             f == [NoState EXCEPT !.region = Here(p)]
  <2>1. m.pc = "saveTarget" /\ m.top = me[p].top /\ m.i = me[p].i BY <1>2 DEF Fields
  <2>2. me[p].pc = "stack" BY <1>8 DEF EnsureStack, At
  <2>3. f.region = Here(p) BY DEF NoState
  <2>4. Save(p, m, f) \/ (Throw(p) /\ UNCHANGED file) BY <1>8 DEF EnsureStack, Records
  <2> HIDE DEF m, f
  <2>5. Ranked(m, On(fleet', p))
    BY <1>3, <1>4, <1>5, <2>1, <2>2 DEF Ranked, Preparations, Races
  <2>6. Text(m, {f}) BY <1>5, <2>1, <2>2, <2>3, Markers DEF Text
  <2>7. m.pc \in Saves BY <2>1 DEF Saves
  <2> QED BY <1>1, <2>4, <2>5, <2>6, <2>7, NamedOpens, NamedEnds
<1>9. CASE EnsureWeights(p)
  <2> DEFINE m == [me[p] EXCEPT !.pc = "stack", !.i = @ + 1]
  <2>1. m.pc = "stack" /\ m.top = me[p].top /\ m.i = me[p].i + 1 BY <1>2 DEF Fields
  <2>2. me[p].pc = "weights" BY <1>9 DEF EnsureWeights, At
  <2>3. \/ Become(p, m) /\ me[p].i < Len(me[p].top) /\ UNCHANGED file
        \/ Throw(p) /\ UNCHANGED file
    BY <1>9 DEF EnsureWeights
  <2> HIDE DEF m
  <2>4. CASE Become(p, m) /\ me[p].i < Len(me[p].top) /\ UNCHANGED file
    <3>1. DOMAIN me[p].top = 1..Len(me[p].top) /\ Len(me[p].top) \in Nat BY <1>4, <2>2
    <3>2. m.i \in DOMAIN m.top BY <1>5, <2>1, <2>2, <2>4, <3>1
    <3> QED BY <1>4, <1>6, <2>1, <2>2, <2>4, <3>2
  <2> QED BY <1>1, <2>3, <2>4, NamedEnds
<1>10. CASE Prepared(p)
  <2> DEFINE m == [me[p] EXCEPT !.used = Touch(state.lastUsed, Head(me[p].top))]
             b == RaceBegins(m)
             f == Provisional(m)
  <2>1. me[p].pc = "weights" BY <1>10 DEF Prepared, At
  <2>2. /\ b.pc = "saveRanking" /\ b.top = me[p].top /\ b.pending = Range(b.top)
        /\ b.started = me[p].started /\ m.top = me[p].top
    BY <1>2 DEF RaceBegins, Fields
  <2>3. me[p].started = {} BY <1>1, UpFacts, <2>1 DEF InRace, Ups
  <2>4. Save(p, b, f) \/ (Throw(p) /\ UNCHANGED file) BY <1>10, RegionAssumption DEF Prepared
  <2>5. f.region = Head(m.top) /\ f.standby = Range(m.top) BY DEF Provisional
  <2> HIDE DEF m, b, f
  <2>6. Ranked(b, On(fleet', p))
    BY <1>3, <1>4, <2>1, <2>2, <2>3 DEF Ranked, Preparations, Races
  <2>7. Text(b, {f}) BY <1>4, <2>1, <2>2, <2>5, Markers DEF Text
  <2>8. b.pc \in Saves BY <2>2 DEF Saves
  <2> QED BY <1>1, <2>4, <2>6, <2>7, <2>8, NamedOpens, NamedEnds
<1>11. CASE Solo(p)
  <2> DEFINE m == [me[p] EXCEPT !.winner = Head(me[p].top)]
  <2>1. me[p].pc = "solo" /\ Won(p, m) BY <1>11 DEF Solo, At
  <2>2. DOMAIN m = Fields /\ m.winner = Head(me[p].top) BY <1>2 DEF Fields
  <2> HIDE DEF m
  <2> QED BY <1>1, <1>3, <1>4, <2>1, <2>2, NamedWins
<1> QED BY <1>7, <1>8, <1>9, <1>10, <1>11

LEMMA NamedStarts ==
  ASSUME Inv, NamedInv, NEW p \in Autos, UpStep(p), StartAnswer(p)
  PROVE NamedUp(p)'
<1>1. me[p].pc = "start" /\ UNCHANGED file BY DEF StartAnswer, At
<1>2. /\ p \in Procs /\ DOMAIN me[p] = Fields /\ Ranked(me[p], On(fleet, p))
      /\ On(fleet', p) \subseteq On(fleet, p) \cup Asks(me[p])
  BY NamedFacts
<1>3. /\ me[p].top \in Seq(Region) /\ me[p].pending \subseteq Range(me[p].top)
      /\ me[p].started \subseteq Range(me[p].top)
  BY <1>1, <1>2 DEF Ranked, Races
<1>4. ASSUME NEW m, DOMAIN m = Fields, m.pc = "start", m.top = me[p].top,
             m.pending \subseteq Range(m.top), m.started \subseteq Range(m.top),
             Become(p, StartSettled(m))
      PROVE NamedUp(p)'
  <2>1. CASE m.pending # {}
    <3>1. StartSettled(m) = m BY <2>1 DEF StartSettled
    <3> QED BY <1>1, <1>4, <3>1, NamedRaces DEF Races
  <2>2. CASE m.pending = {} /\ Entrants(m) = {}
    <3> DEFINE n == Ended(m, "one")
    <3>1. StartSettled(m) = n BY <2>2 DEF StartSettled
    <3>2. n.pc = "done" /\ n.exit = "one" BY <1>4 DEF Ended, Fields
    <3>3. me[p].pc \notin Saves BY <1>1 DEF Saves
    <3> HIDE DEF n
    <3> QED BY <1>1, <1>4, <3>1, <3>2, <3>3, NamedOver
  <2>3. CASE m.pending = {} /\ Entrants(m) # {}
    <3>1. StartSettled(m) = Turn(m, 1) BY <2>3 DEF StartSettled
    <3>2. /\ Turn(m, 1).pc \in {"nap", "poll"} /\ Turn(m, 1).top = m.top
          /\ Turn(m, 1).started = m.started /\ Turn(m, 1).pending = m.pending
          /\ Turn(m, 1).pc = "poll" => Turn(m, 1).i \in DOMAIN m.top
      BY <1>3, <1>4, TurnShape, TurnPlace
    <3> QED BY <1>1, <1>4, <3>1, <3>2, NamedRaces DEF Races
  <2> QED BY <2>1, <2>2, <2>3
<1>5. PICK e \in me[p].pending :
        LET m == [me[p] EXCEPT !.pending = @ \ {e}] IN
          \/ Served(p, e, 1) /\ Become(p, StartSettled([m EXCEPT !.started = @ \cup {e}]))
          \/ Refused(p, e, 1) /\ Become(p, StartSettled(m))
  BY DEF StartAnswer
<1> DEFINE m == [me[p] EXCEPT !.pending = @ \ {e}]
           n == [m EXCEPT !.started = @ \cup {e}]
<1>6. /\ DOMAIN m = Fields /\ m.pc = "start" /\ m.top = me[p].top
      /\ m.pending \subseteq Range(m.top) /\ m.started \subseteq Range(m.top)
  BY <1>1, <1>2, <1>3 DEF Fields
<1>7. /\ DOMAIN n = Fields /\ n.pc = "start" /\ n.top = me[p].top
      /\ n.pending \subseteq Range(n.top) /\ n.started \subseteq Range(n.top)
  BY <1>3, <1>5, <1>6 DEF Fields
<1> HIDE DEF m, n
<1> QED BY <1>4, <1>5, <1>6, <1>7 DEF m, n

LEMMA NamedPolls ==
  ASSUME Inv, NamedInv, NEW p \in Autos, UpStep(p), Poll(p)
  PROVE NamedUp(p)'
<1>1. me[p].pc = "poll" BY DEF Poll, At
<1>2. /\ p \in Procs /\ DOMAIN me[p] = Fields /\ Ranked(me[p], On(fleet, p))
      /\ On(fleet', p) \subseteq On(fleet, p) \cup Asks(me[p])
  BY NamedFacts
<1>3. /\ me[p].top \in Seq(Region) /\ me[p].i \in DOMAIN me[p].top
      /\ me[p].pending \subseteq Range(me[p].top) /\ me[p].started \subseteq Range(me[p].top)
      /\ On(fleet, p) \subseteq Range(me[p].top)
  BY <1>1, <1>2 DEF Ranked, Races
<1>4. Here(p) \in Range(me[p].top) BY <1>3 DEF Here, Range
<1>5. On(fleet', p) \subseteq Range(me[p].top) BY <1>1, <1>2, <1>3 DEF Asks
<1> DEFINE e == Here(p)
           won == [me[p] EXCEPT !.winner = e, !.pending = Entrants(me[p]) \ {e}]
           losers == [won EXCEPT !.pc = "cancel"]
           again == [me[p] EXCEPT !.pc = "recover"]
           next == Advance(me[p])
<1>6. /\ DOMAIN won = Fields /\ won.winner = e /\ won.top = me[p].top
      /\ won.started = me[p].started /\ won.pending = me[p].started \ {e}
  BY <1>2 DEF Fields, Entrants
<1>7. /\ losers.pc = "cancel" /\ losers.top = me[p].top /\ losers.winner = e
      /\ losers.started = me[p].started /\ losers.pending = me[p].started \ {e}
  BY <1>6 DEF Fields
<1>8. /\ again.pc = "recover" /\ again.top = me[p].top /\ again.i = me[p].i
      /\ again.started = me[p].started /\ again.pending = me[p].pending
  BY <1>2 DEF Fields
<1>9. me[p].i + 1 \in Nat \ {0} BY <1>3
<1>10. /\ next.pc \in {"nap", "poll"} /\ next.top = me[p].top
       /\ next.started = me[p].started /\ next.pending = me[p].pending
       /\ next.pc = "poll" => next.i \in DOMAIN me[p].top
  BY <1>2, <1>3, <1>9, TurnShape, TurnPlace DEF Advance
<1>11. \/ Won(p, won)
       \/ Become(p, losers) /\ UNCHANGED file
       \/ Become(p, again) /\ UNCHANGED file
       \/ Become(p, next) /\ UNCHANGED file
       \/ Throw(p) /\ UNCHANGED file
  BY DEF Poll
<1> HIDE DEF e, won, losers, again, next
<1>12. CASE Won(p, won)
  <2>1. e \in Region /\ me[p].pc \notin Saves BY <1>1, <1>3, <1>4 DEF e, Range, Saves
  <2> QED BY <1>5, <1>6, <1>12, <2>1, NamedWins
<1>13. CASE Become(p, losers) /\ UNCHANGED file
  <2>1. e \in Range(me[p].top) BY <1>4 DEF e
  <2> QED BY <1>1, <1>3, <1>7, <1>13, <2>1, NamedRaces DEF Races
<1>14. CASE Become(p, again) /\ UNCHANGED file
  BY <1>1, <1>3, <1>8, <1>14, NamedRaces DEF Races
<1>15. CASE Become(p, next) /\ UNCHANGED file
  BY <1>1, <1>3, <1>10, <1>15, NamedRaces DEF Races
<1>16. me[p].pc \notin Saves BY <1>1 DEF Saves
<1> QED BY <1>11, <1>12, <1>13, <1>14, <1>15, <1>16, NamedEnds

LEMMA NamedCancels ==
  ASSUME Inv, NamedInv, NEW p \in Autos, UpStep(p), Cancel(p)
  PROVE NamedUp(p)'
<1>1. me[p].pc = "cancel" BY DEF Cancel, At
<1>2. /\ p \in Procs /\ DOMAIN me[p] = Fields /\ Ranked(me[p], On(fleet, p))
      /\ On(fleet', p) \subseteq On(fleet, p) \cup Asks(me[p])
  BY NamedFacts
<1>3. /\ me[p].winner \in Range(me[p].top)
      /\ me[p].pending \subseteq Range(me[p].top) /\ me[p].started \subseteq Range(me[p].top)
      /\ On(fleet', p) \subseteq Range(me[p].top)
  BY <1>1, <1>2 DEF Ranked, Races, Asks
<1>6. me[p].pc \notin Saves BY <1>1 DEF Saves
<1>4. CASE Throw(p) /\ UNCHANGED file BY <1>4, <1>6, NamedEnds
<1>5. ASSUME NEW e, LoserAnswered(p, e) PROVE NamedUp(p)'
  <2> DEFINE m == [me[p] EXCEPT !.pending = @ \ {e}]
  <2>1. /\ DOMAIN m = Fields /\ m.pc = "cancel" /\ m.top = me[p].top /\ m.winner = me[p].winner
        /\ m.started = me[p].started /\ m.pending \subseteq me[p].pending
    BY <1>1, <1>2 DEF Fields
  <2>2. (Become(p, m) /\ UNCHANGED file) \/ Won(p, m) BY <1>5 DEF LoserAnswered
  <2> HIDE DEF m
  <2>3. CASE Become(p, m) /\ UNCHANGED file BY <1>1, <1>3, <2>1, <2>3, NamedRaces DEF Races
  <2>4. CASE Won(p, m)
    <3>1. m.winner \in Region BY <1>1, <1>2, <1>3, <2>1 DEF Ranked, Range, Races
    <3> QED BY <1>3, <1>6, <2>1, <2>4, <3>1, NamedWins
  <2> QED BY <2>2, <2>3, <2>4
<1> QED BY <1>4, <1>5 DEF Cancel

LEMMA NamedRounds ==
  ASSUME Inv, NamedInv, NEW p \in Autos, UpStep(p), RaceRecover(p) \/ Nap(p)
  PROVE NamedUp(p)'
<1>1. me[p].pc \in {"recover", "nap"} /\ UNCHANGED file BY DEF RaceRecover, Nap, At
<1>2. /\ p \in Procs /\ DOMAIN me[p] = Fields /\ Ranked(me[p], On(fleet, p))
  BY NamedFacts
<1>3. /\ me[p].top \in Seq(Region)
      /\ me[p].pc = "recover" => me[p].i \in DOMAIN me[p].top
      /\ me[p].pending \subseteq Range(me[p].top) /\ me[p].started \subseteq Range(me[p].top)
  BY <1>1, <1>2 DEF Ranked, Races
<1>4. CASE RaceRecover(p)
  <2> DEFINE next == Advance(me[p])
  <2>1. me[p].pc = "recover" BY <1>4 DEF RaceRecover, At
  <2>2. me[p].i + 1 \in Nat \ {0} BY <1>3, <2>1
  <2>3. /\ next.pc \in {"nap", "poll"} /\ next.top = me[p].top
        /\ next.started = me[p].started /\ next.pending = me[p].pending
        /\ next.pc = "poll" => next.i \in DOMAIN me[p].top
    BY <1>2, <1>3, <2>2, TurnShape, TurnPlace DEF Advance
  <2>4. Become(p, next) \/ Throw(p) BY <1>4 DEF RaceRecover
  <2> HIDE DEF next
  <2>5. CASE Become(p, next) BY <1>1, <1>3, <2>3, <2>5, NamedRaces DEF Races
  <2>6. me[p].pc \notin Saves BY <1>1 DEF Saves
  <2> QED BY <1>1, <2>4, <2>5, <2>6, NamedEnds
<1>5. CASE Nap(p)
  <2> DEFINE round == RoundOver(me[p])
             next == Turn(round, 1)
             off == [me[p] EXCEPT !.pc = "giveup", !.pending = Entrants(me[p])]
  <2>1. /\ DOMAIN round = Fields /\ round.top = me[p].top /\ round.started = me[p].started
        /\ round.pending = me[p].pending
    BY <1>2 DEF RoundOver, Fields
  <2>2. /\ off.pc = "giveup" /\ off.top = me[p].top
        /\ off.started = me[p].started /\ off.pending = me[p].started
    BY <1>2 DEF Fields, Entrants
  <2>3. Become(p, next) \/ Become(p, off) BY <1>5 DEF Nap
  <2> HIDE DEF round, off
  <2>4. /\ next.pc \in {"nap", "poll"} /\ next.top = me[p].top
        /\ next.started = me[p].started /\ next.pending = me[p].pending
        /\ next.pc = "poll" => next.i \in DOMAIN me[p].top
    BY <1>3, <2>1, TurnShape, TurnPlace
  <2> HIDE DEF next
  <2>5. CASE Become(p, next) BY <1>1, <1>3, <2>4, <2>5, NamedRaces DEF Races
  <2>6. CASE Become(p, off) BY <1>1, <1>3, <2>2, <2>6, NamedRaces DEF Races
  <2> QED BY <2>3, <2>5, <2>6
<1> QED BY <1>4, <1>5

LEMMA NamedGiveUps ==
  ASSUME Inv, NamedInv, NEW p \in Autos, UpStep(p), GiveUp(p)
  PROVE NamedUp(p)'
<1>1. me[p].pc = "giveup" /\ UNCHANGED file BY DEF GiveUp, At
<1>2. /\ p \in Procs /\ DOMAIN me[p] = Fields /\ Ranked(me[p], On(fleet, p))
      /\ On(fleet', p) \subseteq On(fleet, p) \cup Asks(me[p])
  BY NamedFacts
<1>3. me[p].pending \subseteq Range(me[p].top) /\ me[p].started \subseteq Range(me[p].top)
  BY <1>1, <1>2 DEF Ranked, Races
<1>4. ASSUME NEW m, DOMAIN m = Fields, m.pc = "giveup", m.top = me[p].top,
             m.pending \subseteq Range(m.top), m.started \subseteq Range(m.top),
             Become(p, IF m.pending = {} THEN Ended(m, "timeout") ELSE m)
      PROVE NamedUp(p)'
  <2>1. CASE m.pending # {}
    <3>1. Become(p, m) BY <1>4, <2>1
    <3> QED BY <1>1, <1>4, <3>1, NamedRaces DEF Races
  <2>2. CASE m.pending = {}
    <3> DEFINE n == Ended(m, "timeout")
    <3>1. Become(p, n) BY <1>4, <2>2
    <3>2. n.pc = "done" /\ n.exit = "timeout" BY <1>4 DEF Ended, Fields
    <3>3. me[p].pc \notin Saves BY <1>1 DEF Saves
    <3> HIDE DEF n
    <3> QED BY <1>1, <3>1, <3>2, <3>3, NamedOver
  <2> QED BY <2>1, <2>2
<1>5. PICK e \in me[p].pending :
        LET m == [me[p] EXCEPT !.pending = @ \ {e}]
            settled(n) == IF n.pending = {} THEN Ended(n, "timeout") ELSE n
        IN \/ Served(p, e, 0) /\ Become(p, settled(m))
           \/ Refused(p, e, 0) /\ Become(p, settled(ReportFailed(m, e)))
  BY DEF GiveUp
<1> DEFINE m == [me[p] EXCEPT !.pending = @ \ {e}]
           f == ReportFailed(m, e)
<1>6. /\ DOMAIN m = Fields /\ m.pc = "giveup" /\ m.top = me[p].top
      /\ m.pending \subseteq Range(m.top) /\ m.started \subseteq Range(m.top)
  BY <1>1, <1>2, <1>3 DEF Fields
<1>7. /\ DOMAIN f = Fields /\ f.pc = "giveup" /\ f.top = me[p].top
      /\ f.pending \subseteq Range(f.top) /\ f.started \subseteq Range(f.top)
  BY <1>6 DEF Fields, ReportFailed
<1>8. \/ Become(p, IF m.pending = {} THEN Ended(m, "timeout") ELSE m)
      \/ Become(p, IF f.pending = {} THEN Ended(f, "timeout") ELSE f)
  BY <1>5
<1> HIDE DEF m, f
<1> QED BY <1>4, <1>6, <1>7, <1>8

LEMMA NamedRaises ==
  ASSUME Inv, NamedInv, NEW p \in Autos, UpStep(p), Raise(p) \/ Wait(p)
  PROVE NamedUp(p)'
<1>1. me[p].pc \in {"raise", "wait"} /\ UNCHANGED file BY DEF Raise, Wait, At
<1>2. /\ p \in Procs /\ DOMAIN me[p] = Fields /\ Ranked(me[p], On(fleet, p))
      /\ me[p].exit = "none" /\ On(fleet', p) \subseteq On(fleet, p) \cup Asks(me[p])
  BY NamedFacts
<1>3. me[p].pc \notin Saves BY <1>1 DEF Saves
<1>4. ASSUME NEW m, Become(p, m), m.winner = me[p].winner,
             m.pc = "wait" \/ (m.pc = "done" /\ m.exit = "zero")
      PROVE NamedUp(p)'
  <2>1. Ranked(m, On(fleet', p)) BY <1>4 DEF Ranked, Preparations, Races
  <2>2. Says(me[p], state, On(fleet, p)) => Says(m, state, On(fleet', p))
    <3> SUFFICES ASSUME Says(me[p], state, On(fleet, p)) PROVE Says(m, state, On(fleet', p))
      OBVIOUS
    <3>1. Asks(me[p]) \subseteq {state.region} \cup state.standby BY <1>2, AskedIsNamed
    <3> QED BY <1>1, <1>2, <1>4, <3>1 DEF Says, Races
  <2>3. m.pc \notin Saves BY <1>4 DEF Saves
  <2> QED BY <1>1, <1>3, <1>4, <2>1, <2>2, <2>3, NamedStays
<1> DEFINE waits == [me[p] EXCEPT !.pc = "wait", !.rounds = 0]
           again == [me[p] EXCEPT !.rounds = @ + 1]
           ready == Ended(me[p], "zero")
<1>5. waits.winner = me[p].winner /\ waits.pc = "wait" BY <1>2 DEF Fields
<1>6. again.winner = me[p].winner /\ again.pc = me[p].pc BY <1>2 DEF Fields
<1>7. ready.winner = me[p].winner /\ ready.pc = "done" /\ ready.exit = "zero"
  BY <1>2 DEF Ended, Fields
<1>8. \/ Become(p, waits) \/ Become(p, ready) \/ Throw(p)
      \/ me[p].pc = "wait" /\ Become(p, again)
  BY DEF Raise, Wait, At
<1> HIDE DEF waits, again, ready
<1> QED BY <1>1, <1>3, <1>4, <1>5, <1>6, <1>7, <1>8, NamedEnds

-----------------------------------------------------------------------------
(* The file, whoever moves *)

\* A step of p leaves the file alone, ...
Quiet(p) == UNCHANGED file /\ me[p].pc \notin Saves /\ me'[p].pc \notin Saves

\* ... or opens it, ...
Opens(p) == /\ me[p].pc \notin Saves /\ me'[p].pc \in Saves /\ state' = Empty
            /\ \E f : saving' = [saving EXCEPT ![p] = {f}]

\* ... or removes it; the fourth way is Write.
Removes(p) == /\ me[p].pc \notin Saves /\ Remove /\ p \in Downs /\ DownOptions[p].purge
              /\ Succeeded(p)' /\ state' = Forgotten(me'[p].snap, me'[p].target)

LEMMA QuietStep ==
  ASSUME Inv, NEW p \in Procs, NEW m, Become(p, m), m.pc \notin Saves, UNCHANGED file,
         me[p].pc \notin Saves
  PROVE Quiet(p)
BY Becomes DEF Quiet

LEMMA QuietEnd ==
  ASSUME Inv, NEW p \in Procs, NEW m, DOMAIN m = Fields, NEW e, Become(p, Ended(m, e)),
         UNCHANGED file, me[p].pc \notin Saves
  PROVE Quiet(p)
<1>1. Ended(m, e).pc = "done" BY DEF Ended, Fields
<1> QED BY <1>1, QuietStep DEF Saves

LEMMA QuietThrow ==
  ASSUME Inv, NEW p \in Procs, Throw(p), UNCHANGED file, me[p].pc \notin Saves
  PROVE Quiet(p)
BY QuietEnd DEF Throw, Inv, LocalsOK

LEMMA SaveOpens ==
  ASSUME Inv, FileInv, NEW p \in Procs, NEW m, NEW f, Save(p, m, f), m.pc \in Saves,
         me[p].pc \notin Saves
  PROVE Quiet(p) \/ Opens(p)
<1>1. CASE UNCHANGED file /\ Throw(p) BY <1>1, QuietThrow
<1>2. CASE state' = Empty /\ saving' = [saving EXCEPT ![p] = {f}] /\ Become(p, m)
  <2>1. me'[p] = m BY <1>2, Becomes
  <2> QED BY <1>2, <2>1 DEF Opens
<1> QED BY <1>1, <1>2 DEF Save

LEMMA WonOpens ==
  ASSUME Inv, FileInv, NEW p \in Procs, NEW m, DOMAIN m = Fields, Won(p, m), me[p].pc \notin Saves
  PROVE Quiet(p) \/ Opens(p)
<1> DEFINE used == Touch(m.used, m.winner)
           n == [m EXCEPT !.pc = "saveWinner", !.used = used]
<1>1. n.pc \in Saves BY DEF Fields, Saves
<1>2. \E f : Save(p, n, f) BY DEF Won
<1> HIDE DEF n
<1> QED BY <1>1, <1>2, SaveOpens

LEMMA UpMoves ==
  ASSUME Inv, FileInv, NEW p \in Ups, UpStep(p)
  PROVE Quiet(p) \/ Opens(p) \/ Write(p)
<1>1. p \in Procs /\ DOMAIN me[p] = Fields BY DEF Ups, Procs, Inv, LocalsOK
<1> USE <1>1
<1>2. ASSUME NEW l, l \notin Saves, me[p].pc \notin Saves, UNCHANGED file, NEW m, Become(p, m),
             m.pc = l
      PROVE Quiet(p)
  BY <1>2, QuietStep
<1>3. \A l : [me[p] EXCEPT !.pc = l].pc = l BY DEF Fields
<1>4. CASE Start(p)
  <2>1. me[p].pc \notin Saves /\ UNCHANGED file BY <1>4 DEF Start, At, Saves
  <2>2. CASE \E t : Become(p, [me[p] EXCEPT !.pc = "stack", !.top = t])
    <3>1. \A t : [me[p] EXCEPT !.pc = "stack", !.top = t].pc = "stack" BY DEF Fields
    <3> QED BY <1>2, <2>1, <2>2, <3>1 DEF Saves
  <2> QED BY <1>4, <2>1, <2>2, QuietEnd, QuietThrow DEF Start
<1>5. CASE EnsureStack(p)
  <2>1. me[p].pc \notin Saves BY <1>5 DEF EnsureStack, At, Saves
  <2> DEFINE n == [me[p] EXCEPT !.pc = "saveTarget"]
             g == [me[p] EXCEPT !.pc = "weights"]
  <2>2. n.pc \in Saves /\ g.pc \notin Saves BY <1>3 DEF Saves
  <2>3. \/ \E f : Save(p, n, f)
        \/ Become(p, g) /\ UNCHANGED file
        \/ Throw(p) /\ UNCHANGED file
    BY <1>5 DEF EnsureStack
  <2> HIDE DEF n, g
  <2> QED BY <2>1, <2>2, <2>3, SaveOpens, QuietStep, QuietThrow
<1>6. CASE EnsureWeights(p)
  <2>1. me[p].pc \notin Saves /\ UNCHANGED file BY <1>6 DEF EnsureWeights, At, Saves
  <2> DEFINE n == [me[p] EXCEPT !.pc = "stack", !.i = @ + 1]
  <2>2. n.pc = "stack" BY DEF Fields
  <2>3. Become(p, n) \/ Throw(p) BY <1>6 DEF EnsureWeights
  <2> HIDE DEF n
  <2> QED BY <1>2, <2>1, <2>2, <2>3, QuietThrow DEF Saves
<1>7. CASE Prepared(p)
  <2>1. me[p].pc \notin Saves BY <1>7 DEF Prepared, At, Saves
  <2> DEFINE m == [me[p] EXCEPT !.used = Touch(state.lastUsed, Head(me[p].top))]
             b == RaceBegins(m)
  <2>2. b.pc \in Saves BY DEF RaceBegins, Fields, Saves
  <2>3. \/ \E f : Save(p, b, f)
        \/ Become(p, Ended(me[p], "zero")) /\ UNCHANGED file
        \/ Throw(p) /\ UNCHANGED file
    BY <1>7 DEF Prepared
  <2> HIDE DEF m, b
  <2> QED BY <2>1, <2>2, <2>3, SaveOpens, QuietEnd, QuietThrow
<1>8. CASE Solo(p)
  <2>1. me[p].pc \notin Saves BY <1>8 DEF Solo, At, Saves
  <2> DEFINE m == [me[p] EXCEPT !.winner = Head(me[p].top)]
  <2>2. DOMAIN m = Fields /\ Won(p, m) BY <1>8 DEF Solo
  <2> HIDE DEF m
  <2> QED BY <2>1, <2>2, WonOpens
<1>9. CASE StartAnswer(p)
  <2>1. me[p].pc = "start" /\ me[p].pc \notin Saves /\ UNCHANGED file
    BY <1>9 DEF StartAnswer, At, Saves
  <2>2. ASSUME NEW m, DOMAIN m = Fields, m.pc = "start", Become(p, StartSettled(m))
        PROVE Quiet(p)
    <3>1. CASE m.pending # {} BY <1>2, <2>1, <2>2, <3>1 DEF StartSettled, Saves
    <3>2. CASE m.pending = {} /\ Entrants(m) = {}
      BY <2>1, <2>2, <3>2, QuietEnd DEF StartSettled
    <3>3. CASE m.pending = {} /\ Entrants(m) # {}
      <4>1. StartSettled(m) = Turn(m, 1) BY <3>3 DEF StartSettled
      <4>2. Turn(m, 1).pc \in {"nap", "poll"} BY <2>2, TurnShape
      <4> QED BY <2>1, <2>2, <4>1, <4>2, QuietStep DEF Saves
    <3> QED BY <3>1, <3>2, <3>3
  <2>3. PICK e \in me[p].pending :
          LET m == [me[p] EXCEPT !.pending = @ \ {e}] IN
            \/ Become(p, StartSettled([m EXCEPT !.started = @ \cup {e}]))
            \/ Become(p, StartSettled(m))
    BY <1>9 DEF StartAnswer
  <2> DEFINE m == [me[p] EXCEPT !.pending = @ \ {e}]
             n == [m EXCEPT !.started = @ \cup {e}]
  <2>4. DOMAIN m = Fields /\ m.pc = "start" /\ DOMAIN n = Fields /\ n.pc = "start"
    BY <2>1 DEF Fields
  <2>5. Become(p, StartSettled(n)) \/ Become(p, StartSettled(m)) BY <2>3
  <2> HIDE DEF m, n
  <2> QED BY <2>2, <2>4, <2>5
<1>10. CASE Poll(p)
  <2>1. me[p].pc \notin Saves BY <1>10 DEF Poll, At, Saves
  <2> DEFINE e == Here(p)
             won == [me[p] EXCEPT !.winner = e, !.pending = Entrants(me[p]) \ {e}]
             losers == [won EXCEPT !.pc = "cancel"]
             again == [me[p] EXCEPT !.pc = "recover"]
             next == Advance(me[p])
  <2>2. DOMAIN won = Fields /\ losers.pc = "cancel" /\ again.pc = "recover" BY DEF Fields
  <2>3. next.pc \in {"nap", "poll"} BY TurnShape DEF Advance
  <2>4. Won(p, won) \/ (UNCHANGED file /\ (\/ Become(p, losers) \/ Become(p, again)
                                          \/ Become(p, next) \/ Throw(p)))
    BY <1>10 DEF Poll
  <2> HIDE DEF won, losers, again, next
  <2> QED BY <1>2, <2>1, <2>2, <2>3, <2>4, WonOpens, QuietThrow DEF Saves
<1>11. CASE RaceRecover(p)
  <2>1. me[p].pc \notin Saves /\ UNCHANGED file BY <1>11 DEF RaceRecover, At, Saves
  <2>2. Advance(me[p]).pc \in {"nap", "poll"} BY TurnShape DEF Advance
  <2>3. Become(p, Advance(me[p])) \/ Throw(p) BY <1>11 DEF RaceRecover
  <2> QED BY <1>2, <2>1, <2>2, <2>3, QuietThrow DEF Saves
<1>12. CASE Cancel(p)
  <2>1. me[p].pc = "cancel" /\ me[p].pc \notin Saves BY <1>12 DEF Cancel, At, Saves
  <2>2. ASSUME NEW e, LoserAnswered(p, e) PROVE Quiet(p) \/ Opens(p)
    <3> DEFINE m == [me[p] EXCEPT !.pending = @ \ {e}]
    <3>1. DOMAIN m = Fields /\ m.pc = "cancel" BY <2>1 DEF Fields
    <3>2. (Become(p, m) /\ UNCHANGED file) \/ Won(p, m) BY <2>2 DEF LoserAnswered
    <3> HIDE DEF m
    <3> QED BY <1>2, <2>1, <3>1, <3>2, WonOpens DEF Saves
  <2> QED BY <1>12, <2>1, <2>2, QuietThrow DEF Cancel
<1>13. CASE Nap(p)
  <2>1. me[p].pc \notin Saves /\ UNCHANGED file BY <1>13 DEF Nap, At, Saves
  <2> DEFINE round == RoundOver(me[p])
             off == [me[p] EXCEPT !.pc = "giveup", !.pending = Entrants(me[p])]
  <2>2. DOMAIN round = Fields /\ off.pc = "giveup" BY DEF RoundOver, Fields
  <2>3. Turn(round, 1).pc \in {"nap", "poll"} BY <2>2, TurnShape
  <2>4. Become(p, Turn(round, 1)) \/ Become(p, off) BY <1>13 DEF Nap
  <2> HIDE DEF round, off
  <2> QED BY <1>2, <2>1, <2>2, <2>3, <2>4 DEF Saves
<1>14. CASE GiveUp(p)
  <2>1. me[p].pc = "giveup" /\ me[p].pc \notin Saves /\ UNCHANGED file
    BY <1>14 DEF GiveUp, At, Saves
  <2>2. ASSUME NEW m, DOMAIN m = Fields, m.pc = "giveup",
               Become(p, IF m.pending = {} THEN Ended(m, "timeout") ELSE m)
        PROVE Quiet(p)
    <3>1. CASE m.pending = {}
      <4>1. Become(p, Ended(m, "timeout")) BY <2>2, <3>1
      <4> QED BY <2>1, <2>2, <4>1, QuietEnd
    <3>2. CASE m.pending # {}
      <4>1. Become(p, m) BY <2>2, <3>2
      <4> QED BY <1>2, <2>1, <2>2, <4>1 DEF Saves
    <3> QED BY <3>1, <3>2
  <2>3. PICK e \in me[p].pending :
          LET m == [me[p] EXCEPT !.pending = @ \ {e}]
              settled(n) == IF n.pending = {} THEN Ended(n, "timeout") ELSE n
          IN Become(p, settled(m)) \/ Become(p, settled(ReportFailed(m, e)))
    BY <1>14 DEF GiveUp
  <2> DEFINE m == [me[p] EXCEPT !.pending = @ \ {e}]
             f == ReportFailed(m, e)
  <2>4. DOMAIN m = Fields /\ m.pc = "giveup" /\ DOMAIN f = Fields /\ f.pc = "giveup"
    BY <2>1 DEF Fields, ReportFailed
  <2>5. \/ Become(p, IF m.pending = {} THEN Ended(m, "timeout") ELSE m)
        \/ Become(p, IF f.pending = {} THEN Ended(f, "timeout") ELSE f)
    BY <2>3
  <2> HIDE DEF m, f
  <2> QED BY <2>2, <2>4, <2>5
<1>15. CASE Raise(p) \/ Wait(p)
  <2>1. me[p].pc \in {"raise", "wait"} /\ me[p].pc \notin Saves /\ UNCHANGED file
    BY <1>15 DEF Raise, Wait, At, Saves
  <2> DEFINE waits == [me[p] EXCEPT !.pc = "wait", !.rounds = 0]
             again == [me[p] EXCEPT !.rounds = @ + 1]
  <2>2. waits.pc = "wait" /\ again.pc = me[p].pc BY DEF Fields
  <2>3. Become(p, waits) \/ Become(p, again) \/ Become(p, Ended(me[p], "zero")) \/ Throw(p)
    BY <1>15 DEF Raise, Wait
  <2> HIDE DEF waits, again
  <2> QED BY <1>2, <2>1, <2>2, <2>3, QuietEnd, QuietThrow DEF Saves
<1> QED BY <1>4, <1>5, <1>6, <1>7, <1>8, <1>9, <1>10, <1>11, <1>12, <1>13, <1>14, <1>15
    DEF UpStep, RaceStep

LEMMA DownMoves ==
  ASSUME Inv, NamedInv, NEW p \in Downs, DownStep(p)
  PROVE /\ Quiet(p) \/ Opens(p) \/ Removes(p) \/ Write(p)
        /\ Aim(p, me'[p], saving'[p])
        /\ Opens(p) => DownOptions[p].purge
        /\ Left \subseteq Left'
<1>1. p \in Procs /\ DOMAIN me[p] = Fields /\ Aim(p, me[p], saving[p]) /\ ProcStep(p)
  BY DEF Procs, Inv, LocalsOK, NamedInv, ProcStep
<1> USE <1>1
<1>0. Left \subseteq Left' BY LeftGrows
<1> DEFINE Goal == /\ Quiet(p) \/ Opens(p) \/ Removes(p) \/ Write(p)
                   /\ Aim(p, me'[p], saving'[p])
                   /\ Opens(p) => DownOptions[p].purge
<1> SUFFICES Goal BY <1>0
<1> HIDE DEF Goal
\* It goes on without a save, ...
<1>2. ASSUME NEW m, Become(p, m), UNCHANGED file, me[p].pc \notin Saves,
             m.pc \in {"outputs", "lower", "destroy", "bucket", "done"},
             m.pc \in {"destroy", "bucket"} => DownOptions[p].purge,
             m.pc # "done" => m.snap.region \notin Marks
      PROVE Goal
  <2>1. me'[p] = m BY <1>2, Becomes
  <2>2. Quiet(p) BY <1>2, QuietStep DEF Saves
  <2>3. Aim(p, m, saving'[p]) BY <1>2 DEF Aim, Saves
  <2> QED BY <2>1, <2>2, <2>3 DEF Goal, Quiet, Opens
<1>3. ASSUME NEW e, Become(p, Ended(me[p], e)), UNCHANGED file, me[p].pc \notin Saves PROVE Goal
  <2>1. Ended(me[p], e).pc = "done" BY DEF Ended, Fields
  <2> QED BY <1>2, <1>3, <2>1
<1>4. ASSUME Throw(p), UNCHANGED file, me[p].pc \notin Saves PROVE Goal
  BY <1>3, <1>4 DEF Throw
\* ... or forgets the region.
<1>5. ASSUME Forget(p), DownOptions[p].purge, me[p].pc \in {"outputs", "bucket"} PROVE Goal
  <2>0. me[p].pc \notin Saves /\ me[p].snap.region \notin Marks BY <1>5 DEF Saves, Aim
  <2>1. CASE me[p].snap.region = me[p].target /\ Remove /\ Become(p, Ended(me[p], "zero"))
    <3> DEFINE m == Ended(me[p], "zero")
    <3>1. /\ m.pc = "done" /\ m.exit = "zero" /\ m.snap = me[p].snap /\ m.target = me[p].target
      BY DEF Ended, Fields
    <3>2. me'[p] = m BY <2>1, Becomes
    <3>3. state' = NoState /\ Forgotten(me[p].snap, me[p].target) = NoState
      BY <2>1 DEF Remove, Forgotten
    <3> HIDE DEF m
    <3>4. Succeeded(p)' BY <3>1, <3>2 DEF Succeeded, At
    <3>5. Removes(p) BY <1>5, <2>0, <2>1, <3>1, <3>2, <3>3, <3>4 DEF Removes
    <3>6. Aim(p, me'[p], saving'[p]) BY <3>1, <3>2 DEF Aim, Saves
    <3> QED BY <1>5, <3>5, <3>6 DEF Goal
  <2>2. CASE UNCHANGED file /\ Throw(p) BY <1>4, <2>0, <2>2
  <2>3. CASE /\ me[p].snap.region # me[p].target
             /\ Save(p, [me[p] EXCEPT !.pc = "savePurge"], Forgotten(me[p].snap, me[p].target))
    <3> DEFINE m == [me[p] EXCEPT !.pc = "savePurge"]
               f == Forgotten(me[p].snap, me[p].target)
    <3>1. m.pc = "savePurge" /\ m.snap = me[p].snap /\ m.target = me[p].target BY DEF Fields
    <3>2. CASE UNCHANGED file /\ Throw(p) BY <1>4, <2>0, <3>2
    <3>3. CASE state' = Empty /\ saving' = [saving EXCEPT ![p] = {f}] /\ Become(p, m)
      <4>1. me'[p] = m /\ saving'[p] = {f} BY <3>3, Becomes DEF NamedInv, FileInv
      <4> HIDE DEF m
      <4>2. Opens(p) BY <2>0, <3>1, <3>3, <4>1 DEF Opens, Saves
      <4>3. Aim(p, m, {f}) BY <1>5, <2>0, <2>3, <3>1 DEF Aim
      <4> QED BY <1>5, <4>1, <4>2, <4>3 DEF Goal
    <3> QED BY <2>3, <3>2, <3>3 DEF Save
  <2> QED BY <1>5, <2>1, <2>2, <2>3 DEF Forget
<1>6. CASE StartDown(p)
  <2>1. me[p].pc = "idle" /\ me[p].pc \notin Saves /\ UNCHANGED file
    BY <1>6 DEF StartDown, At, Saves
  <2>2. CASE Throw(p) BY <1>4, <2>1, <2>2
  <2>3. CASE /\ state \notin Unreadable
             /\ \E t : Become(p, [me[p] EXCEPT !.pc = "outputs", !.snap = state, !.target = t])
    <3>1. PICK t : Become(p, [me[p] EXCEPT !.pc = "outputs", !.snap = state, !.target = t])
      BY <2>3
    <3> DEFINE m == [me[p] EXCEPT !.pc = "outputs", !.snap = state, !.target = t]
    <3>2. m.pc = "outputs" /\ m.snap = state BY DEF Fields
    <3>3. state.region \notin Marks BY <2>3 DEF NamedInv, FileInv
    <3> HIDE DEF m
    <3> QED BY <1>2, <2>1, <3>1, <3>2, <3>3 DEF m
  <2> QED BY <1>6, <2>2, <2>3 DEF StartDown
<1>7. \A l : /\ [me[p] EXCEPT !.pc = l].pc = l
             /\ [me[p] EXCEPT !.pc = l].snap = me[p].snap
  BY DEF Fields
<1>8. ASSUME NEW l \in {"lower", "destroy", "bucket"}, Become(p, [me[p] EXCEPT !.pc = l]),
             UNCHANGED file, me[p].pc \in {"outputs", "destroy"},
             l # "lower" => DownOptions[p].purge
      PROVE Goal
  <2>1. me[p].snap.region \notin Marks BY <1>8 DEF Aim
  <2> DEFINE m == [me[p] EXCEPT !.pc = l]
  <2>2. m.pc = l /\ m.snap = me[p].snap BY <1>7
  <2> HIDE DEF m
  <2> QED BY <1>2, <1>8, <2>1, <2>2 DEF m, Saves
<1>9. CASE DownOutputs(p)
  <2>1. me[p].pc = "outputs" /\ me[p].pc \notin Saves BY <1>9 DEF DownOutputs, At, Saves
  <2> QED BY <1>3, <1>4, <1>5, <1>8, <1>9, <2>1 DEF DownOutputs
<1>10. CASE Lower(p)
  <2>1. me[p].pc \notin Saves /\ UNCHANGED file BY <1>10 DEF Lower, At, Saves
  <2> QED BY <1>3, <1>4, <1>10, <2>1 DEF Lower
<1>11. CASE Destroy(p)
  <2>1. me[p].pc = "destroy" /\ me[p].pc \notin Saves /\ UNCHANGED file
    BY <1>11 DEF Destroy, At, Saves
  <2>2. DownOptions[p].purge BY <2>1 DEF Aim
  <2> QED BY <1>4, <1>8, <1>11, <2>1, <2>2 DEF Destroy
<1>12. CASE DeleteBucket(p)
  <2>1. me[p].pc = "bucket" /\ me[p].pc \notin Saves BY <1>12 DEF DeleteBucket, At, Saves
  <2>2. DownOptions[p].purge BY <2>1 DEF Aim
  <2>3. Forget(p) \/ (Throw(p) /\ UNCHANGED file) BY <1>12 DEF DeleteBucket, file
  <2> QED BY <1>4, <1>5, <2>1, <2>2, <2>3
<1>13. CASE Write(p)
  <2>1. me[p].pc = "savePurge" BY <1>13 DEF Write, Aim
  <2>2. Saved(me[p]).pc = "done" BY <2>1, SavedShape DEF Saves
  <2>3. Ended(me[p], "one").pc = "done" BY DEF Ended, Fields
  <2>4. Become(p, Saved(me[p])) \/ Become(p, Ended(me[p], "one")) BY <1>13 DEF Write, Throw
  <2>5. me'[p].pc = "done" BY <2>2, <2>3, <2>4, Becomes
  <2>6. Aim(p, me'[p], saving'[p]) BY <2>5 DEF Aim, Saves
  <2> QED BY <1>13, <2>1, <2>6 DEF Goal, Opens, Saves
<1> QED BY <1>6, <1>9, <1>10, <1>11, <1>12, <1>13 DEF DownStep

LEMMA SeedMoves ==
  ASSUME Inv, NamedInv, NEW p \in Seeds, UpStep(p)
  PROVE Quiet(p) /\ me'[p].pc \in SeedPlaces
<1>1. /\ p \in Procs /\ p \notin Autos /\ p \notin Downs /\ p \in Ups
      /\ DOMAIN me[p] = Fields /\ me[p].pc \in SeedPlaces
  BY RegionAssumption DEF Ups, Procs, Inv, LocalsOK, NamedInv
<1>2. Start(p) \/ EnsureStack(p) \/ EnsureWeights(p) \/ Prepared(p)
  BY <1>1 DEF UpStep, RaceStep, StartAnswer, Poll, RaceRecover, Cancel, Nap, GiveUp, Raise, Wait,
              Write, Solo, At, SeedPlaces, Saves
<1>3. ASSUME NEW m, Become(p, m), UNCHANGED file, m.pc \in {"stack", "weights", "done"}
      PROVE Quiet(p) /\ me'[p].pc \in SeedPlaces
  <2>1. me[p].pc \notin Saves BY <1>1 DEF SeedPlaces, Saves
  <2>2. me'[p] = m BY <1>1, <1>3, Becomes
  <2> QED BY <1>1, <1>3, <2>1, <2>2, QuietStep DEF SeedPlaces, Saves
<1>4. \A e : Ended(me[p], e).pc = "done" BY <1>1 DEF Ended, Fields
<1>5. Throw(p) /\ UNCHANGED file => Quiet(p) /\ me'[p].pc \in SeedPlaces
  BY <1>3, <1>4 DEF Throw
<1>6. CASE Start(p)
  <2>1. \A t : [me[p] EXCEPT !.pc = "stack", !.top = t].pc = "stack" BY <1>1 DEF Fields
  <2> QED BY <1>3, <1>4, <1>5, <1>6, <2>1 DEF Start
<1>7. CASE EnsureStack(p)
  <2>1. [me[p] EXCEPT !.pc = "weights"].pc = "weights" BY <1>1 DEF Fields
  <2> QED BY <1>1, <1>3, <1>5, <1>7, <2>1 DEF EnsureStack, Records
<1>8. CASE EnsureWeights(p)
  <2>1. [me[p] EXCEPT !.pc = "stack", !.i = @ + 1].pc = "stack" BY <1>1 DEF Fields
  <2> QED BY <1>3, <1>5, <1>8, <2>1 DEF EnsureWeights
<1>9. CASE Prepared(p) BY <1>1, <1>3, <1>4, <1>9 DEF Prepared
<1> QED BY <1>2, <1>6, <1>7, <1>8, <1>9

LEMMA FileSteps ==
  ASSUME OneAuto, Inv, NamedInv, NEW p \in Procs, ProcStep(p)
  PROVE FileInv'
<1>1. Quiet(p) \/ Opens(p) \/ Removes(p) \/ Write(p)
  BY UpMoves, DownMoves DEF ProcStep, NamedInv, Ups, Procs
<1>2. me[p].pc \notin {"done", "crashed"} /\ ~Broken(me[p]) BY Stopped DEF Broken
<1>3. \A q \in Procs \ {p} : me'[q] = me[q] BY StepsAlone DEF Alone
<1>4. FileInv BY DEF NamedInv
\* What has ended badly stays so, and so does a purge that is over.
<1>5. (\E q \in Procs : Broken(me[q])) => \E q \in Procs : Broken(me'[q]) BY <1>2, <1>3
<1>6. (\E d \in Downs : DownOptions[d].purge /\ Succeeded(d))
        => \E d \in Downs : DownOptions[d].purge /\ Succeeded(d)'
  BY <1>2, <1>3 DEF Succeeded, At, Procs
<1>7. CASE Quiet(p)
  <2>1. state' = state /\ saving' = saving /\ me[p].pc \notin Saves BY <1>7 DEF Quiet, file
  <2>2. state = Empty => \E q \in Procs : (me'[q].pc \in Saves /\ saving'[q] # {}) \/ Broken(me'[q])
    BY <1>2, <1>3, <1>4, <2>1 DEF FileInv
  <2> QED BY <1>4, <1>5, <1>6, <2>1, <2>2 DEF FileInv
<1>8. CASE Opens(p)
  <2>1. PICK f : saving' = [saving EXCEPT ![p] = {f}] BY <1>8 DEF Opens
  <2>2. /\ saving' = [q \in Procs |-> saving'[q]] /\ saving'[p] # {}
        /\ state' = Empty /\ me'[p].pc \in Saves
    BY <1>4, <1>8, <2>1 DEF FileInv, Opens
  <2> QED BY <2>2, Markers DEF FileInv, Unreadable
<1>9. CASE Removes(p)
  <2>1. state' = NoState /\ saving' = [q \in Procs |-> {}] BY <1>9 DEF Removes, Remove
  <2> QED BY <2>1, Markers DEF FileInv
<1>10. CASE Write(p)
  <2>1. /\ saving' = [saving EXCEPT ![p] = {}] /\ me[p].pc \in Saves
        /\ saving' = [q \in Procs |-> saving'[q]] /\ \A q \in Procs \ {p} : saving'[q] = saving[q]
    BY <1>4, <1>10 DEF Write, FileInv
  <2>2. ASSUME Throw(p) PROVE Broken(me'[p])
    <3>1. DOMAIN me[p] = Fields BY DEF Inv, LocalsOK
    <3>2. Ended(me[p], "one").pc = "done" /\ Ended(me[p], "one").exit = "one"
      BY <3>1 DEF Ended, Fields
    <3> QED BY <2>2, <3>2, Becomes DEF Throw, Broken
  <2>3. CASE saving[p] = {} /\ UNCHANGED state
    <3>1. state = Empty =>
            \E q \in Procs : (me'[q].pc \in Saves /\ saving'[q] # {}) \/ Broken(me'[q])
      BY <1>2, <1>3, <1>4, <2>1, <2>3 DEF FileInv
    <3> QED BY <1>4, <1>5, <1>6, <2>1, <2>3, <3>1 DEF FileInv
  <2>4. ASSUME NEW f \in saving[p], state' = f PROVE FileInv'
    <3>1. f.region \notin Marks
      <4>1. CASE p \in Autos BY <4>1 DEF NamedInv, NamedUp, Named, Text
      <4>2. CASE p \in Downs
        <5>1. Aim(p, me[p], saving[p]) BY <4>2 DEF NamedInv
        <5>2. f = Forgotten(me[p].snap, me[p].target) /\ me[p].snap.region \notin Marks
              /\ me[p].snap.region # me[p].target
          BY <2>1, <2>4, <5>1 DEF Aim
        <5>3. f = NoState \/ f.region = me[p].snap.region
          <6>1. f = [me[p].snap EXCEPT
                       !.standby = @ \ {me[p].target},
                       !.lastUsed = SelectSeq(@, LAMBDA x : x # me[p].target)]
            BY <5>2 DEF Forgotten
          <6> QED BY <6>1
        <5> QED BY <5>2, <5>3, Markers
      <4>3. CASE p \in Seeds BY <2>1, <4>3 DEF NamedInv, SeedPlaces, Saves
      <4> QED BY <4>1, <4>2, <4>3 DEF Procs
    <3>2. f \notin Unreadable BY <3>1, Markers
    <3> QED BY <2>1, <2>4, <3>1, <3>2 DEF FileInv, Unreadable
  <2>5. ASSUME state' = Torn, state # Empty, saving[p] # {}, Become(p, Saved(me[p])) PROVE FileInv'
    <3>1. \/ \E q \in Procs : Broken(me'[q])
          \/ \E d \in Downs : DownOptions[d].purge /\ Succeeded(d)'
      <4>1. CASE p \in Autos
        <5>1. Spoilt(me[p], state, Left) BY <2>1, <4>1 DEF NamedInv, NamedUp, Named
        <5>2. CASE state \in Left BY <1>6, <5>2 DEF Left
        <5>3. CASE state \in Unreadable
          <6>1. state = Torn BY <2>5, <5>3 DEF Unreadable
          <6> QED BY <1>4, <1>5, <1>6, <6>1 DEF FileInv
        <5> QED BY <5>1, <5>2, <5>3 DEF Spoilt
      <4>2. CASE p \in Downs
        <5>1. me[p].pc = "savePurge" /\ DownOptions[p].purge BY <2>1, <4>2 DEF NamedInv, Aim
        <5>2. DOMAIN me[p] = Fields BY DEF Inv, LocalsOK
        <5>3. Saved(me[p]).pc = "done" /\ Saved(me[p]).exit = "zero"
          BY <2>1, <5>1, <5>2, SavedShape
        <5>4. me'[p].pc = "done" /\ me'[p].exit = "zero" BY <2>5, <5>3, Becomes
        <5> QED BY <4>2, <5>1, <5>4 DEF Succeeded, At
      <4>3. CASE p \in Seeds BY <2>1, <4>3 DEF NamedInv, SeedPlaces, Saves
      <4> QED BY <4>1, <4>2, <4>3 DEF Procs
    <3> QED BY <2>1, <2>5, <3>1, Markers DEF FileInv, Unreadable
  <2>6. ASSUME state' \in {state, Torn}, Throw(p) PROVE FileInv'
    <3>1. Broken(me'[p]) BY <2>2, <2>6
    <3> QED BY <1>4, <2>1, <2>6, <3>1, Markers DEF FileInv, Unreadable
  <2> QED BY <1>10, <2>3, <2>4, <2>5, <2>6 DEF Write
<1> QED BY <1>1, <1>7, <1>8, <1>9, <1>10

\* What others do to the file of an automatic up
LEMMA NamedWaits ==
  ASSUME Inv, NamedInv, NEW q \in Autos, me'[q] = me[q], On(fleet', q) \subseteq On(fleet, q),
         Left \subseteq Left', saving'[q] \subseteq saving[q],
         Purging \/ (state' = state /\ saving'[q] = saving[q]),
         state' = state \/ state' \in Left' \cup Unreadable
  PROVE NamedUp(q)'
<1> DEFINE m == me[q]
<1>1. Named(m, state, saving[q], Left, On(fleet, q)) BY DEF NamedInv, NamedUp
<1>2. Ranked(m, On(fleet', q)) /\ Text(m, saving'[q])
  <2> HIDE DEF m
  <2>1. Ranked(m, On(fleet, q)) /\ Text(m, saving[q]) BY <1>1 DEF Named
  <2>2. Ranked(m, On(fleet', q)) BY <2>1 DEF Ranked
  <2> QED BY <2>1, <2>2 DEF Text
<1>3. Says(m, state, On(fleet, q)) => Says(m, state, On(fleet', q)) BY DEF Says
<1>4. Spoilt(m, state, Left) => Spoilt(m, state, Left') BY DEF Spoilt
<1>5. state' # state => Spoilt(m, state', Left') /\ Purging BY DEF Spoilt
<1> HIDE DEF m
<1>6. Named(m, state', saving'[q], Left', On(fleet', q))
  BY <1>1, <1>2, <1>3, <1>4, <1>5 DEF Named
<1> QED BY <1>6 DEF NamedUp, m

LEMMA NamedPreserved == ASSUME OneAuto, Inv, NamedInv, [Next]_vars PROVE NamedInv'
<1>1. ASSUME NEW p \in Procs, ProcStep(p) PROVE NamedInv'
  <2>1. \A q \in Procs \ {p} : me'[q] = me[q] /\ On(fleet', q) \subseteq On(fleet, q)
    BY <1>1, StepsAlone DEF Alone
  <2>2. FileInv' BY <1>1, FileSteps
  <2>3. Left \subseteq Left' BY <1>1, LeftGrows
  <2>4. Quiet(p) \/ Opens(p) \/ Removes(p) \/ Write(p)
    BY <1>1, UpMoves, DownMoves DEF ProcStep, NamedInv, Ups, Procs
  <2>5. saving = [q \in Procs |-> saving[q]] BY DEF NamedInv, FileInv
  \* The texts of the others stay, unless the file is gone.
  <2>6. Removes(p) \/ \A q \in Procs \ {p} : saving'[q] = saving[q]
    <3>1. CASE Quiet(p) BY <3>1 DEF Quiet, file
    <3>2. CASE Opens(p) BY <2>5, <3>2 DEF Opens
    <3>3. CASE Write(p) BY <2>5, <3>3 DEF Write
    <3> QED BY <2>4, <3>1, <3>2, <3>3
  <2>7. \A q \in Procs \ {p} : saving'[q] \subseteq saving[q]
    <3>1. CASE Removes(p) BY <3>1 DEF Removes, Remove
    <3> QED BY <2>6, <3>1
  <2>8. \A d \in Downs \ {p} : Aim(d, me'[d], saving'[d])
    <3> SUFFICES ASSUME NEW d \in Downs \ {p} PROVE Aim(d, me'[d], saving'[d]) OBVIOUS
    <3>1. d \in Procs \ {p} BY DEF Procs
    <3>2. me'[d] = me[d] /\ saving'[d] \subseteq saving[d] BY <2>1, <2>7, <3>1
    <3>3. Aim(d, me[d], saving[d]) BY DEF NamedInv
    <3> QED BY <3>2, <3>3 DEF Aim
  <2>9. \A s \in Seeds \ {p} : me'[s].pc \in SeedPlaces BY <2>1 DEF NamedInv, Procs
  <2>10. CASE p \in Autos
    <3>1. UpStep(p) BY <1>1, <2>10, RegionAssumption DEF ProcStep
    <3>2. NamedUp(p)'
      BY <2>10, <3>1, NamedPreparations, NamedWrites, NamedStarts, NamedPolls, NamedCancels,
         NamedRounds, NamedGiveUps, NamedRaises DEF UpStep, RaceStep
    <3>3. Autos = {p} /\ p \notin Downs /\ p \notin Seeds BY <2>10, RegionAssumption DEF OneAuto
    <3> QED BY <2>2, <2>8, <2>9, <3>2, <3>3 DEF NamedInv
  <2>11. CASE p \in Seeds
    <3>1. UpStep(p) /\ p \notin Autos /\ p \notin Downs
      BY <1>1, <2>11, RegionAssumption DEF ProcStep
    <3>2. Quiet(p) /\ me'[p].pc \in SeedPlaces BY <2>11, <3>1, SeedMoves
    <3>3. \A q \in Autos : NamedUp(q)'
      BY <2>1, <2>3, <3>1, <3>2, NamedWaits DEF Quiet, file, Procs
    <3> QED BY <2>2, <2>8, <2>9, <3>1, <3>2, <3>3 DEF NamedInv
  <2>12. CASE p \in Downs
    <3>1. DownStep(p) /\ p \notin Autos /\ p \notin Seeds
      BY <1>1, <2>12, RegionAssumption DEF ProcStep
    <3>2. Aim(p, me'[p], saving'[p]) /\ (Opens(p) => DownOptions[p].purge)
      BY <2>12, <3>1, DownMoves
    <3>3. Purging \/ (UNCHANGED state /\ ~Removes(p))
      <4>1. CASE Quiet(p) BY <2>12, <4>1 DEF Quiet, file, Removes, Purging
      <4>2. CASE Opens(p) \/ Removes(p) BY <2>12, <3>2, <4>2 DEF Removes, Purging
      <4>3. CASE Write(p)
        <5>1. DownOptions[p].purge BY <2>12, <4>3 DEF Write, NamedInv, Aim
        <5> QED BY <2>12, <5>1 DEF Purging
      <4> QED BY <2>4, <4>1, <4>2, <4>3
    <3>4. state' = state \/ state' \in Left' \cup Unreadable
      <4>1. CASE Quiet(p) BY <4>1 DEF Quiet, file
      <4>2. CASE Opens(p) BY <4>2 DEF Opens, Unreadable
      <4>3. CASE Removes(p) BY <2>12, <4>3 DEF Removes, Left
      <4>4. CASE Write(p)
        <5>1. /\ me[p].pc = "savePurge" /\ DownOptions[p].purge
              /\ saving[p] \subseteq {Forgotten(me[p].snap, me[p].target)}
          BY <2>12, <4>4 DEF Write, NamedInv, Aim
        <5>2. DOMAIN me[p] = Fields BY DEF Inv, LocalsOK
        <5>3. ASSUME Become(p, Saved(me[p]))
              PROVE Forgotten(me[p].snap, me[p].target) \in Left'
          <6>1. /\ me'[p].pc = "done" /\ me'[p].exit = "zero"
                /\ me'[p].snap = me[p].snap /\ me'[p].target = me[p].target
            BY <5>1, <5>2, <5>3, SavedShape, Becomes DEF Saves
          <6>2. Succeeded(p)' BY <6>1 DEF Succeeded, At
          <6> QED BY <2>12, <5>1, <6>1, <6>2 DEF Left
        <5>4. Torn \in Unreadable BY DEF Unreadable
        <5> QED BY <4>4, <5>1, <5>3, <5>4 DEF Write
      <4> QED BY <2>4, <4>1, <4>2, <4>3, <4>4
    <3>5. \A q \in Autos : NamedUp(q)'
      <4> SUFFICES ASSUME NEW q \in Autos PROVE NamedUp(q)' OBVIOUS
      <4>1. q \in Procs \ {p} BY <3>1 DEF Procs
      <4>2. me'[q] = me[q] /\ On(fleet', q) \subseteq On(fleet, q) BY <2>1, <4>1
      <4>3. saving'[q] \subseteq saving[q] BY <2>7, <4>1
      <4>4. Purging \/ (state' = state /\ saving'[q] = saving[q])
        <5>1. CASE Removes(p) BY <3>3, <5>1
        <5>2. CASE saving'[q] = saving[q] BY <3>3, <5>2
        <5> QED BY <2>6, <4>1, <5>1, <5>2
      <4> QED BY <2>3, <3>4, <4>2, <4>3, <4>4, NamedWaits
    <3> QED BY <2>2, <2>8, <2>9, <3>1, <3>2, <3>5 DEF NamedInv
  <2> QED BY <2>10, <2>11, <2>12 DEF Procs
<1>2. ASSUME NEW p \in Procs, Crash(p) PROVE NamedInv'
  <2>1. \A q \in Procs \ {p} : me'[q] = me[q] /\ On(fleet', q) \subseteq On(fleet, q)
    BY <1>2, StepsAlone DEF Alone
  <2>2. Left \subseteq Left' BY <1>2, LeftGrows
  <2>3. UNCHANGED <<fleet, state>> /\ saving' = [saving EXCEPT ![p] = {}] BY <1>2 DEF Crash
  <2>4. saving = [q \in Procs |-> saving[q]] BY DEF NamedInv, FileInv
  <2>5. me'[p].pc = "crashed"
    <3>1. Become(p, [Locals EXCEPT !.pc = "crashed"]) BY <1>2 DEF Crash
    <3>2. [Locals EXCEPT !.pc = "crashed"].pc = "crashed" BY DEF Locals
    <3> QED BY <3>1, <3>2, Becomes
  <2>6. Broken(me'[p]) BY <2>5 DEF Broken
  <2>7. saving'[p] = {} /\ \A q \in Procs \ {p} : saving'[q] = saving[q] BY <2>3, <2>4
  <2>8. FileInv'
    <3>1. saving' = [q \in Procs |-> saving'[q]] BY <2>3, <2>4
    <3> QED BY <2>3, <2>6, <3>1 DEF NamedInv, FileInv
  <2>9. \A s \in Seeds : me'[s].pc \in SeedPlaces
    BY <2>1, <2>5 DEF NamedInv, Procs, SeedPlaces
  <2>10. \A d \in Downs : Aim(d, me'[d], saving'[d])
    <3> SUFFICES ASSUME NEW d \in Downs PROVE Aim(d, me'[d], saving'[d]) OBVIOUS
    <3>1. CASE d = p BY <2>5, <3>1 DEF Aim, Saves
    <3>2. CASE d # p
      <4>1. Aim(d, me[d], saving[d]) /\ me'[d] = me[d] /\ saving'[d] = saving[d]
        BY <2>1, <2>7, <3>2 DEF NamedInv, Procs
      <4> QED BY <4>1
    <3> QED BY <3>1, <3>2
  <2>11. \A q \in Autos : NamedUp(q)'
    <3> SUFFICES ASSUME NEW q \in Autos PROVE NamedUp(q)' OBVIOUS
    <3>1. CASE q # p BY <2>1, <2>2, <2>3, <2>7, <3>1, NamedWaits DEF Procs
    <3>2. CASE q = p
      <4> DEFINE m == me'[q]
      <4>1. m.pc = "crashed" /\ saving'[q] = {} BY <2>5, <2>7, <3>2
      <4>2. Named(me[q], state, saving[q], Left, On(fleet, q)) BY DEF NamedInv, NamedUp
      <4>3. On(fleet', q) = On(fleet, q) BY <2>3
      <4> HIDE DEF m
      <4>4. Ranked(m, On(fleet', q)) /\ Text(m, {})
        BY <4>1 DEF Ranked, Text, Preparations, Races
      <4>5. Spoilt(me[q], state, Left) => Spoilt(m, state, Left')
        BY <2>2, <4>1 DEF Spoilt, Broken
      <4>6. Says(me[q], state, On(fleet, q)) => Says(m, state, On(fleet', q))
        BY <4>1, <4>3 DEF Says, Races
      <4>7. Named(m, state, {}, Left', On(fleet', q))
        BY <4>1, <4>2, <4>4, <4>5, <4>6 DEF Named, Saves
      <4> QED BY <2>3, <4>1, <4>7 DEF NamedUp, m
    <3> QED BY <3>1, <3>2
  <2> QED BY <2>8, <2>9, <2>10, <2>11 DEF NamedInv
<1>3. CASE (\E r \in Region : IdleStop(r) \/ Ec2(r)) \/ UNCHANGED vars
  <2>1. UNCHANGED <<me, file>> BY <1>3 DEF IdleStop, Ec2, vars, file
  <2>2. \A p \in Procs : On(fleet', p) \subseteq On(fleet, p) BY <1>3, EnvLeaves
  <2>3. Left' = Left BY <2>1 DEF Left, Succeeded, At
  <2>4. \A q \in Autos : NamedUp(q)' BY <2>1, <2>2, <2>3, NamedWaits DEF file, Procs
  <2>5. FileInv' BY <2>1 DEF NamedInv, FileInv, file, Succeeded, At
  <2> QED BY <2>1, <2>4, <2>5 DEF NamedInv, file
<1> QED BY <1>1, <1>2, <1>3 DEF Next

LEMMA InitNamed == ASSUME Init PROVE NamedInv
<1>1. Locals.pc = "idle" /\ Locals.i = 1 BY DEF Locals
<1>2. \A p \in Procs : me[p] = Locals /\ saving[p] = {} BY DEF Init
<1>3. \A p \in Procs : On(fleet, p) = {} BY DEF Init, EmptyRegion, On
<1>4. state = NoState BY DEF Init
<1>5. \A left : Named(Locals, NoState, {}, left, {})
  BY <1>1 DEF Named, Ranked, Says, Text, Preparations, Races, Saves
<1>6. \A d : Aim(d, Locals, {}) BY <1>1 DEF Aim, Saves
<1>7. FileInv BY <1>4, Markers DEF Init, FileInv
<1> QED BY <1>1, <1>2, <1>3, <1>4, <1>5, <1>6, <1>7 DEF NamedInv, NamedUp, Procs, SeedPlaces

LEMMA NamedInvariant == ASSUME OneAuto PROVE Spec => []NamedInv
<1>1. Init => NamedInv BY InitNamed
<1>2. Inv /\ NamedInv /\ [Next]_vars => NamedInv' BY NamedPreserved
<1> QED BY <1>1, <1>2, Invariant, PTL DEF Spec

\* One automatic up beside any number of seeds, downs and purges, with crashes and
\* failing writes at any moment: state.json names every region that the up has
\* switched on, unless a save is unfinished or a purge has written what it read before
\* (up.ts:211-227, seed.ts:18-23, program.ts:210-217).
THEOREM NothingUnrecorded == ASSUME OneAuto PROVE Spec => []EntrantsRecorded
<1>1. NamedInv => EntrantsRecorded
  <2> SUFFICES ASSUME NamedInv, NEW p \in Autos, NEW r \in Region, OnBy(r, p)
               PROVE r \in Recorded \/ SaveUnfinished \/ PurgedOver
    BY DEF EntrantsRecorded
  <2>1. Named(me[p], state, saving[p], Left, On(fleet, p)) /\ r \in On(fleet, p)
    BY DEF NamedInv, NamedUp, OnBy, On
  <2>2. CASE Says(me[p], state, On(fleet, p)) BY <2>1, <2>2 DEF Says, Recorded
  <2>3. CASE state \in Left BY <2>3 DEF Left, PurgedOver
  <2>4. CASE state = Empty
    <3>1. \E q \in Procs : me[q].pc \in Saves \/ Broken(me[q]) BY <2>4 DEF NamedInv, FileInv
    <3> QED BY <2>4, <3>1 DEF SaveUnfinished, Unreadable, Broken, At
  <2>5. CASE state = Torn
    <3>1. \/ \E q \in Procs : Broken(me[q])
          \/ \E d \in Downs : DownOptions[d].purge /\ Succeeded(d)
      BY <2>5 DEF NamedInv, FileInv
    <3> QED BY <2>5, <3>1 DEF SaveUnfinished, PurgedOver, Unreadable, Broken, At
  <2> QED BY <2>1, <2>2, <2>3, <2>4, <2>5 DEF Named, Spoilt, Unreadable
<1> QED BY <1>1, NamedInvariant, PTL

\* ... and without a purge beside it, an up that has succeeded leaves its winner as the
\* target (up.ts:224-227).
THEOREM DownFindsTheWinner ==
  ASSUME OneAuto, \A d \in Downs : ~DownOptions[d].purge
  PROVE Spec => []DownTargetIsWinner
<1>1. NamedInv => DownTargetIsWinner
  <2> SUFFICES ASSUME NamedInv, NEW p \in Autos, Succeeded(p) PROVE state.region = me[p].winner
    BY DEF DownTargetIsWinner
  <2>1. Named(me[p], state, saving[p], Left, On(fleet, p)) BY DEF NamedInv, NamedUp
  <2>2. ~Spoilt(me[p], state, Left) /\ me[p].pc \notin Saves
    BY DEF Spoilt, Purging, Broken, Succeeded, At, Saves
  <2> QED BY <2>1, <2>2 DEF Named, Says, Succeeded, At
<1> QED BY <1>1, NamedInvariant, PTL
=============================================================================
