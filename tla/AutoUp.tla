------------------------------- MODULE AutoUp -------------------------------
(***************************************************************************)
(* tkf up without a region (runUpAuto), tkf seed, and tkf down with or     *)
(* without --purge, on one host: the candidates are prepared one after the *)
(* other, raced, and the winner is waited for.                             *)
(***************************************************************************)
EXTENDS Race

vars == <<fleet, state, saving, me>>

Locals == [pc |-> "idle", exit |-> "none", top |-> <<>>, i |-> 1, pending |-> {},
           started |-> {}, winner |-> Nobody, rounds |-> 0, reported |-> {},
           used |-> <<>>, snap |-> NoState, target |-> Nobody]

Init == /\ fleet = [r \in Region |-> EmptyRegion]
        /\ state = NoState
        /\ saving = [p \in Procs |-> {}]
        /\ me = [p \in Procs |-> Locals]

----------------------------------------------------------------------------
(* tkf up and tkf seed *)

Width == IF Standby = "single" THEN 1 ELSE K

\* The first n of a ranking, or n regions the user chose to seed
Orders(n) == {t \in [1..n -> Region] : IsInjective(t)}

Start(p) ==
  /\ At(p, "idle") /\ UNCHANGED <<fleet, file>>
  /\ \/ Throw(p)
     \/ p \in Seeds /\ Become(p, Ended(me[p], "zero"))
     \/ \E n \in 1..(IF p \in Autos THEN Width ELSE MaxSeeds) : \E t \in Orders(n) :
          Become(p, [me[p] EXCEPT !.pc = "stack", !.top = t])

\* What is saved before the race, so that an interrupted race can be found
Provisional(m) == [region |-> Head(m.top), standby |-> Range(m.top), lastUsed |-> m.used]

\* The last region is ready: seed ends, up reads state.json and saves its ranking.
Prepared(p) ==
  /\ At(p, "weights") /\ me[p].i = Len(me[p].top) /\ Seeded(p)
  /\ LET m == [me[p] EXCEPT !.used = Touch(state.lastUsed, Head(me[p].top))] IN
       \/ p \in Seeds /\ Become(p, Ended(me[p], "zero")) /\ UNCHANGED file
       \/ p \in Autos /\ state \in Unreadable /\ Throw(p) /\ UNCHANGED file
       \/ p \in Autos /\ state \notin Unreadable /\ Save(p, RaceBegins(m), Provisional(m))

\* A single candidate is the winner without a race.
Solo(p) == /\ At(p, "solo") /\ UNCHANGED fleet
           /\ Won(p, [me[p] EXCEPT !.winner = Head(me[p].top)])

\* waitReady in the winner's region, whose steps UpSession has one by one: the
\* request, recoveries from a demotion, and one of its three ends.
Raise(p) ==
  /\ At(p, "raise") /\ UNCHANGED file
  /\ \/ Served(p, me[p].winner, 1) /\ Become(p, [me[p] EXCEPT !.pc = "wait", !.rounds = 0])
     \/ Refused(p, me[p].winner, 1) /\ Throw(p)

Wait(p) ==
  /\ At(p, "wait") /\ UNCHANGED file
  /\ LET m == me[p] IN
       \/ fleet[m.winner].inst = "serving" /\ UNCHANGED fleet /\ Become(p, Ended(m, "zero"))
       \/ /\ fleet[m.winner].desired = 0 /\ m.rounds < MaxRounds
          /\ Served(p, m.winner, 1) /\ Become(p, [m EXCEPT !.rounds = @ + 1])
       \/ Throw(p) /\ UNCHANGED fleet
       \/ Refused(p, m.winner, 0) /\ Throw(p)

----------------------------------------------------------------------------
(* tkf down *)

StartDown(d) ==
  /\ At(d, "idle") /\ UNCHANGED <<fleet, file>>
  /\ \/ state \in Unreadable \cup {NoState} /\ Throw(d)
     \/ /\ state \notin Unreadable \cup {NoState}
        /\ Become(d, [me[d] EXCEPT !.pc = "outputs", !.snap = state, !.target =
             IF DownOptions[d].region = Nobody THEN state.region ELSE DownOptions[d].region])

\* removeRegionFromState, or no state.json at all when the target itself is purged
Forgotten(s, r) ==
  IF s.region = r THEN NoState
  ELSE [s EXCEPT !.standby = @ \ {r}, !.lastUsed = SelectSeq(@, LAMBDA x : x # r)]

\* The file is gone, and with it what anybody still writes to it.
Remove == state' = NoState /\ saving' = [p \in Procs |-> {}]

\* Fault: the file is removed whatever region was purged.
ForgetAll(d) == Remove /\ Become(d, Ended(me[d], "zero"))

\* After a purge: the file is removed, or written again without the region, from what
\* was read at the start.
Forget(d) ==
  LET aim == me[d].snap.region = me[d].target IN
    \/ aim /\ Remove /\ Become(d, Ended(me[d], "zero"))
    \/ aim /\ UNCHANGED file /\ Throw(d)
    \/ ~aim /\ Save(d, [me[d] EXCEPT !.pc = "savePurge"], Forgotten(me[d].snap, me[d].target))

DownOutputs(d) ==
  /\ At(d, "outputs") /\ UNCHANGED fleet
  /\ LET gone == ~fleet[me[d].target].stack
         next == IF DownOptions[d].purge THEN "destroy" ELSE "lower"
     IN \/ gone /\ ~DownOptions[d].purge /\ Become(d, Ended(me[d], "zero")) /\ UNCHANGED file
        \/ gone /\ DownOptions[d].purge /\ Forget(d)
        \/ ~gone /\ Become(d, [me[d] EXCEPT !.pc = next]) /\ UNCHANGED file
        \/ Throw(d) /\ UNCHANGED file

Lower(d) ==
  /\ At(d, "lower") /\ UNCHANGED file
  /\ \/ Served(d, me[d].target, 0) /\ Become(d, Ended(me[d], "zero"))
     \/ Refused(d, me[d].target, 0) /\ Throw(d)

\* cdk destroy: the stack goes with its group, its bucket is retained.
Destroy(d) ==
  /\ At(d, "destroy") /\ UNCHANGED file
  /\ LET t == me[d].target
         destroyed == IF fleet[t].stack
                      THEN [fleet EXCEPT ![t] = [EmptyRegion EXCEPT !.orphans = fleet[t].orphans + 1]]
                      ELSE fleet
     IN \/ fleet' = destroyed /\ Become(d, [me[d] EXCEPT !.pc = "bucket"])
        \/ fleet' \in {fleet, destroyed} /\ Throw(d)

DeleteBucket(d) ==
  /\ At(d, "bucket")
  /\ \/ /\ fleet[me[d].target].orphans > 0
        /\ fleet' = [fleet EXCEPT ![me[d].target].orphans = @ - 1]
        /\ Forget(d)
     \/ Throw(d) /\ UNCHANGED <<fleet, file>>

----------------------------------------------------------------------------
(* The environment *)

IdleStop(r) == /\ fleet[r].desired = 1 /\ fleet' = Asked(Guard, r, 0)
               /\ UNCHANGED <<file, me>>

\* EC2: launch, service, and the end of an instance for whatever reason
Ec2(r) == /\ \E now \in {"none", "launching", "serving"} :
               /\ now = "launching" => fleet[r].desired = 1 /\ fleet[r].inst = "none"
               /\ now = "serving" => fleet[r].inst = "launching"
               /\ now # fleet[r].inst
               /\ fleet' = [fleet EXCEPT ![r].inst = now]
          /\ UNCHANGED <<file, me>>

\* Ctrl-C, SIGKILL or the loss of the host
Crash(p) == /\ me[p].pc \notin {"idle", "done", "crashed"}
            /\ Become(p, [Locals EXCEPT !.pc = "crashed"])
            /\ saving' = [saving EXCEPT ![p] = {}] /\ UNCHANGED <<fleet, state>>

DownStep(d) == \/ StartDown(d) \/ DownOutputs(d) \/ Lower(d) \/ Destroy(d) \/ DeleteBucket(d)
               \/ Write(d)

UpStep(p) == Start(p) \/ EnsureStack(p) \/ EnsureWeights(p) \/ Prepared(p)
             \/ Write(p) \/ Solo(p) \/ RaceStep(p) \/ Raise(p) \/ Wait(p)

ProcStep(p) == \/ p \in Downs /\ DownStep(p)
               \/ p \notin Downs /\ UpStep(p)

Next == \/ \E p \in Procs : ProcStep(p) \/ Crash(p)
        \/ \E r \in Region : IdleStop(r) \/ Ec2(r)

Spec == Init /\ [][Next]_vars

\* A session's own calls return; nothing is owed by EC2, the guard or crashes.
FairSpec == Spec /\ \A p \in Procs : WF_vars(ProcStep(p))
----------------------------------------------------------------------------
(* Properties *)

\* r is on, and it was p that asked for it.
OnBy(r, p) == fleet[r].desired = 1 /\ fleet[r].by = p

Succeeded(p) == At(p, "done") /\ me[p].exit = "zero"

\* The file is unreadable: a save is under way, or has failed or was cut short.
SaveUnfinished ==
  /\ state \in Unreadable
  /\ \E q \in Procs : me[q].pc \in Saves \cup {"crashed"} \/ (At(q, "done") /\ me[q].exit = "one")

\* A purge has removed the file, has written back what it had read before it began,
\* or has mixed that with a save of the up.
PurgedOver == \E d \in Downs : /\ DownOptions[d].purge /\ Succeeded(d)
                               /\ state \in {Torn, Forgotten(me[d].snap, me[d].target)}

\* From before its race until after its end, every region that an automatic up has
\* switched on is named in state.json, as the target that a plain `tkf down` stops or
\* among the standby regions that take a `tkf down --region`; only an unfinished save
\* and a purge of the same host undo that, and seed does not (up.ts:211-227,
\* seed.ts:18-23, program.ts:210-217).
EntrantsRecorded ==
  \A p \in Autos, r \in Region :
    OnBy(r, p) => r \in Recorded \/ SaveUnfinished \/ PurgedOver

\* Once the race has a winner, no other entrant of it is left on (race.ts:40-44).
OneRegionLeft ==
  \A p \in Autos, r \in Region :
    (me[p].pc \in {"saveWinner", "raise", "wait"} \/ Succeeded(p)) /\ r \in Entrants(me[p]) \ {me[p].winner}
      => ~OnBy(r, p)

\* After a race without a winner, an entrant that is still on is named in the
\* error (race.ts:54-60).
TimeoutReported ==
  \A p \in Autos, r \in Region :
    me[p].exit = "timeout" /\ r \in Entrants(me[p]) /\ OnBy(r, p) => r \in me[p].reported

\* The target that a plain `tkf down` stops is the region an automatic up that
\* succeeded has left on (up.ts:224-227).
DownTargetIsWinner ==
  \A p \in Autos : Succeeded(p) /\ OnBy(me[p].winner, p) => state.region = me[p].winner

\* Every session ends, though the idle guard may undo every request and no spot
\* capacity may ever come (race.ts:37).
ProcsEnd == \A p \in Procs : ~At(p, "idle") ~> me[p].pc \in {"done", "crashed"}
=============================================================================
