-------------------------------- MODULE Race --------------------------------
(***************************************************************************)
(* runRace of src/cli/commands/race.ts: every entrant is asked for one     *)
(* instance at the same time, the first region with an instance in service *)
(* wins, and the others are lowered again.                                 *)
(***************************************************************************)
EXTENDS Regions, Functions

\* The entrants that remain are those whose start request succeeded.
Entrants(m) == m.started

\* The start requests of all entrants go out together, once the ranking is saved.
RaceBegins(m) == [m EXCEPT !.pc = "saveRanking", !.pending = Range(m.top)]

\* The loop over the entrants goes on with the first one from place k of the ranking;
\* after the last comes the sleep at the end of the round.
Turn(m, k) ==
  LET rest == {j \in k..Len(m.top) : m.top[j] \in Entrants(m)}
  IN IF rest = {} THEN [m EXCEPT !.pc = "nap"]
     ELSE [m EXCEPT !.pc = "poll", !.i = CHOOSE j \in rest : \A l \in rest : j <= l]

\* Promise.allSettled: once all have answered, the race goes on with the entrants
\* that remain.
StartSettled(m) == IF m.pending # {} THEN m
                   ELSE IF Entrants(m) = {} THEN Ended(m, "one")
                   ELSE Turn(m, 1)

StartAnswer(p) ==
  /\ At(p, "start") /\ UNCHANGED file
  /\ \E e \in me[p].pending :
       LET m == [me[p] EXCEPT !.pending = @ \ {e}] IN
         \/ Served(p, e, 1) /\ Become(p, StartSettled([m EXCEPT !.started = @ \cup {e}]))
         \/ Refused(p, e, 1) /\ Become(p, StartSettled(m))

\* Fault: the target stays the first candidate.
WinnerUnsaved(p, m) == Become(p, [m EXCEPT !.pc = "raise"]) /\ UNCHANGED file

\* The race returns: runUpAuto saves the winner as the target, with the times of
\* use it had read before the race, and goes on to waitReady.
Won(p, m) ==
  LET used == Touch(m.used, m.winner)
  IN Save(p, [m EXCEPT !.pc = "saveWinner", !.used = used],
          [region |-> m.winner, standby |-> Range(m.top), lastUsed |-> used])

Advance(m) == Turn(m, m.i + 1)

\* The status of the entrant at hand: it has won, or was lowered behind the race's
\* back, or is still launching.
Poll(p) ==
  /\ At(p, "poll") /\ UNCHANGED fleet
  /\ LET e == Here(p)
         won == [me[p] EXCEPT !.winner = e, !.pending = Entrants(me[p]) \ {e}]
     IN \/ fleet[e].inst = "serving" /\ won.pending = {} /\ Won(p, won)
        \/ fleet[e].inst = "serving" /\ won.pending # {} /\ UNCHANGED file
             /\ Become(p, [won EXCEPT !.pc = "cancel"])
        \/ fleet[e].inst # "serving" /\ UNCHANGED file
             /\ Become(p, IF fleet[e].desired = 0 THEN [me[p] EXCEPT !.pc = "recover"]
                                                  ELSE Advance(me[p]))
        \/ Throw(p) /\ UNCHANGED file

RaceRecover(p) ==
  /\ At(p, "recover") /\ UNCHANGED file
  /\ \/ Served(p, Here(p), 1) /\ Become(p, Advance(me[p]))
     \/ Refused(p, Here(p), 1) /\ Throw(p)

\* The answer for loser e has come.
LoserAnswered(p, e) ==
  LET m == [me[p] EXCEPT !.pending = @ \ {e}] IN
    \/ m.pending # {} /\ Become(p, m) /\ UNCHANGED file
    \/ m.pending = {} /\ Won(p, m)

\* Fault: a loser that cannot be lowered is ignored.
CancelIgnoringErrors(p) ==
  /\ At(p, "cancel")
  /\ \E e \in me[p].pending : Refused(p, e, 0) /\ LoserAnswered(p, e)

\* Promise.all over the losers: it throws with the first failure, when the
\* requests still in flight may or may not arrive.
Cancel(p) ==
  /\ At(p, "cancel")
  /\ \/ \E e \in me[p].pending : Served(p, e, 0) /\ LoserAnswered(p, e)
     \/ /\ Throw(p) /\ UNCHANGED file
        /\ \E lowered \in SUBSET {r \in me[p].pending : fleet[r].stack} :
             fleet' = [r \in Region |-> IF r \in lowered THEN Asked(p, r, 0)[r] ELSE fleet[r]]

\* Fault: every round gets a new deadline.
Endless(m) == m

RoundOver(m) == [m EXCEPT !.rounds = @ + 1]

\* The sleep ends a round; at the deadline, at the latest after MaxRounds rounds,
\* every entrant is lowered.
Nap(p) ==
  /\ At(p, "nap") /\ UNCHANGED <<fleet, file>>
  /\ \/ me[p].rounds < MaxRounds /\ Become(p, Turn(RoundOver(me[p]), 1))
     \/ Become(p, [me[p] EXCEPT !.pc = "giveup", !.pending = Entrants(me[p])])

\* Fault: the regions that could not be lowered are not named.
ReportNothing(m, e) == m

ReportFailed(m, e) == [m EXCEPT !.reported = @ \cup {e}]

\* Promise.allSettled over all entrants; the error names those that failed.
GiveUp(p) ==
  /\ At(p, "giveup") /\ UNCHANGED file
  /\ \E e \in me[p].pending :
       LET m == [me[p] EXCEPT !.pending = @ \ {e}]
           settled(n) == IF n.pending = {} THEN Ended(n, "timeout") ELSE n
       IN \/ Served(p, e, 0) /\ Become(p, settled(m))
          \/ Refused(p, e, 0) /\ Become(p, settled(ReportFailed(m, e)))

RaceStep(p) == StartAnswer(p) \/ Poll(p) \/ RaceRecover(p) \/ Cancel(p) \/ Nap(p) \/ GiveUp(p)
=============================================================================
