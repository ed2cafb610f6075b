------------------------------ MODULE Regions ------------------------------
(***************************************************************************)
(* What tkf sessions of one host share when several regions are in play:   *)
(* the stack of one model in every region, and ~/.token-forge/state.json   *)
(* with its standby regions and times of use.  A session's own variables   *)
(* are the record me[p]; me[p].pc names the call it is about to make.      *)
(***************************************************************************)
EXTENDS Integers, Sequences, FiniteSets

CONSTANTS Region,
          Autos, Seeds, Downs,   \* processes: tkf up without --region, tkf seed, tkf down
          DownOptions,           \* the options of each tkf down: [region, purge]
          Standby, K,            \* config.json: "race", "single" or "lazy"; race width
          MaxRounds,             \* rounds of the race before its deadline
          MaxSeeds,              \* regions given to one tkf seed
          Nobody, Guard

Procs == Autos \cup Seeds \cup Downs

ASSUME RegionAssumption ==
  /\ Autos \cap Seeds = {} /\ Autos \cap Downs = {} /\ Seeds \cap Downs = {}
  /\ Nobody \notin Region \cup Procs \cup {Guard} /\ Guard \notin Procs
  /\ {"empty", "torn"} \cap (Region \cup {Nobody}) = {}
  /\ DownOptions \in [Downs -> [region : Region \cup {Nobody}, purge : BOOLEAN]]
  /\ Standby \in {"race", "single", "lazy"} /\ K \in 1..4 /\ MaxRounds \in Nat \ {0}
  /\ MaxSeeds \in Nat \ {0}

VARIABLES fleet,   \* per region: [stack, seeded, orphans, desired, inst, by]
          state,   \* state.json: [region, standby, lastUsed], NoState, or Unreadable
          saving,  \* per session: the text, if any, it has to write to the state.json it opened
          me       \* per session: its local variables

\* lastUsed is kept as the regions in order of use, the oldest first.
NoState == [region |-> Nobody, standby |-> {}, lastUsed |-> <<>>]

\* Text that JSON.parse refuses: a save emptied the file and wrote nothing yet, or a
\* write was cut short or mixed with another.
Empty == [NoState EXCEPT !.region = "empty"]
Torn == [NoState EXCEPT !.region = "torn"]
Unreadable == {Empty, Torn}

file == <<state, saving>>
Recorded == {state.region} \cup state.standby

EmptyRegion == [stack |-> FALSE, seeded |-> FALSE, orphans |-> 0,
                desired |-> 0, inst |-> "none", by |-> Nobody]

\* w's capacity request for region r takes effect.
Asked(w, r, n) == [fleet EXCEPT ![r].desired = n, ![r].by = IF @ # w /\ fleet[r].desired # n THEN w ELSE @]

\* A request that throws was lost, or only its answer was.  A region without a
\* stack has no group to ask.
Served(w, r, n) == fleet[r].stack /\ fleet' = Asked(w, r, n)
Refused(w, r, n) == Served(w, r, n) \/ UNCHANGED fleet

Become(p, m) == me' = [me EXCEPT ![p] = m]
At(p, l) == me[p].pc = l
Ended(m, e) == [m EXCEPT !.pc = "done", !.exit = e]
Throw(p) == Become(p, Ended(me[p], "one"))

\* The region order of lastUsed once r was used now
Touch(used, r) == SelectSeq(used, LAMBDA x : x # r) \o <<r>>

----------------------------------------------------------------------------
(* saveState writes the file in place: opening it empties it, the text follows in a
   step of its own. *)

\* The first half of a save of f by p, whose locals become m
Save(p, m, f) ==
  \/ state' = Empty /\ saving' = [saving EXCEPT ![p] = {f}] /\ Become(p, m)
  \/ UNCHANGED file /\ Throw(p)

\* The saves, by the pc of their second half
Saves == {"saveTarget", "saveRanking", "saveWinner", "savePurge"}

\* Where the session goes on after it.  A single candidate wins without a race.
Saved(m) == CASE m.pc = "saveTarget" -> [m EXCEPT !.pc = "weights"]
              [] m.pc = "saveRanking" -> [m EXCEPT !.pc = IF Len(m.top) = 1 THEN "solo" ELSE "start"]
              [] m.pc = "saveWinner" -> [m EXCEPT !.pc = "raise"]
              [] m.pc = "savePurge" -> Ended(m, "zero")

\* The second half.  It may run into what another session has written since, or fail
\* and leave a part of itself; it reaches nobody if the file was removed meanwhile.
Write(p) ==
  /\ me[p].pc \in Saves /\ UNCHANGED fleet /\ saving' = [saving EXCEPT ![p] = {}]
  /\ \/ saving[p] = {} /\ UNCHANGED state /\ (Become(p, Saved(me[p])) \/ Throw(p))
     \/ \E f \in saving[p] : \/ state' = f /\ Become(p, Saved(me[p]))
                             \/ state # Empty /\ state' = Torn /\ Become(p, Saved(me[p]))
                             \/ state' \in {state, Torn} /\ Throw(p)

----------------------------------------------------------------------------
(* ensureStackReady for one region after the other, in `up` and in `seed` *)

Here(p) == me[p].top[me[p].i]

\* Fault: seed records its regions as well.
AlwaysRecords(p) == TRUE

\* mkSeedEnsure replaces saveState by a no-op.
Records(p) == p \in Autos

\* The stack is found or deployed, and the target saved: a new file that holds
\* neither standby regions nor times of use.
EnsureStack(p) ==
  /\ At(p, "stack")
  /\ LET deployed == [fleet EXCEPT ![Here(p)].stack = TRUE] IN
       \/ /\ fleet' = deployed /\ Records(p)
          /\ Save(p, [me[p] EXCEPT !.pc = "saveTarget"], [NoState EXCEPT !.region = Here(p)])
       \/ /\ fleet' = deployed /\ ~Records(p) /\ UNCHANGED file
          /\ Become(p, [me[p] EXCEPT !.pc = "weights"])
       \/ fleet' \in {fleet, deployed} /\ Throw(p) /\ UNCHANGED file

Seeded(p) == fleet[Here(p)].stack /\ fleet' = [fleet EXCEPT ![Here(p)].seeded = TRUE]

\* The weights are there, or are seeded into the stack's bucket; on to the next region.
EnsureWeights(p) ==
  /\ At(p, "weights") /\ UNCHANGED file
  /\ \/ /\ Seeded(p) /\ me[p].i < Len(me[p].top)
        /\ Become(p, [me[p] EXCEPT !.pc = "stack", !.i = @ + 1])
     \/ UNCHANGED fleet /\ Throw(p)
=============================================================================
