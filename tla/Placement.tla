------------------------------ MODULE Placement ------------------------------
(***************************************************************************)
(* The arithmetic of src/cli/placement: averages over the feed, the leader *)
(* among candidates that tie, and the ranking.  A score is a fraction      *)
(* [sum, n], the average of n integer scores.                              *)
(***************************************************************************)
EXTENDS Integers, Sequences, FiniteSets, FiniteSetsExt, SequencesExt

CONSTANTS Window,   \* how far back an average looks: 48 hours
          Null      \* no score, no price, no leader

ASSUME WindowAssumption == Window \in Nat

\* a - b < t, and a > b
Within(a, b, t) == a.sum * b.n - b.sum * a.n < t * a.n * b.n
Greater(a, b) == a.sum * b.n > b.sum * a.n

Greatest(scores) == IF scores = {} THEN Null
                    ELSE CHOOSE a \in scores : \A b \in scores : ~Greater(b, a)

\* The points of the last 48 hours.  Fault: all of them.
RecentAll(points, now) == points
Recent(points, now) == {x \in points : x.ts >= now - Window}

\* Null without recent points
Avg48h(points, now) ==
  LET recent == Recent(points, now) IN
  IF recent = {} THEN Null
  ELSE [sum |-> MapThenSumSet(LAMBDA x : x.score, recent), n |-> Cardinality(recent)]

\* The best average of the types that have a pool in the region
RegionScore(points, noPool, types, region, now) ==
  LET open == {t \in types : <<t, region>> \notin noPool}
      series(t) == {x \in points : x.type = t /\ x.region = region}
  IN Greatest({Avg48h(series(t), now) : t \in open} \ {Null})

----------------------------------------------------------------------------
(* The ranking: score, then latency, then price, with ties *)

IsScore(a) == a.sum \in Nat /\ a.n \in Nat \ {0}
IsCandidate(c) == IsScore(c.score) /\ c.rtt \in Nat /\ c.price \in Nat \cup {Null}

\* Pools of places: within the score threshold of the best, and of those within the
\* latency threshold of the nearest
ScorePool(cands, t) ==
  {i \in DOMAIN cands : \A j \in DOMAIN cands : Within(cands[j].score, cands[i].score, t.score)}

RttPool(cands, pool, t) == {i \in pool : \A j \in pool : cands[i].rtt - cands[j].rtt < t.rtt}

\* An unknown price comes last.
Cheaper(c, d) == c.price # Null /\ (d.price = Null \/ c.price < d.price)

\* The place of the first of the cheapest; 0 when a threshold of 0 leaves no candidate.
PickLeader(cands, t) ==
  LET pool == RttPool(cands, ScorePool(cands, t), t)
      cheapest == {i \in pool : \A j \in pool : ~Cheaper(cands[j], cands[i])}
  IN IF cheapest = {} THEN 0 ELSE Min(cheapest)

At(rest, leader) == IF leader = 0 THEN Null ELSE rest[leader]

\* rest.splice(rest.indexOf(leader), 1), where the index of no leader is -1.
Without(rest, leader) == IF leader = 0 THEN Front(rest) ELSE RemoveAt(rest, leader)

\* The leader, then the leader of the others, and so on.  Fault: the ties of the
\* first leader are never looked at again.
RankOnce(cands, t) ==
  IF cands = <<>> THEN <<>>
  ELSE LET leader == PickLeader(cands, t) IN <<At(cands, leader)>> \o Without(cands, leader)
Rank(cands, t) ==
  LET after[n \in 0..Len(cands)] ==
        IF n = 0 THEN [out |-> <<>>, rest |-> cands]
        ELSE LET acc == after[n - 1]
                 leader == PickLeader(acc.rest, t)
             IN [out |-> Append(acc.out, At(acc.rest, leader)), rest |-> Without(acc.rest, leader)]
  IN after[Len(cands)].out
=============================================================================
