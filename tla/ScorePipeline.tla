---------------------------- MODULE ScorePipeline ----------------------------
(***************************************************************************)
(* Spot scores from their collection to a ranking: the collector Lambda    *)
(* writes points to the table, the publisher copies the table to the feed, *)
(* and tkf gathers its candidates from the feed or, where the feed has     *)
(* nothing recent, from the placement API.                                 *)
(***************************************************************************)
EXTENDS Placement

CONSTANTS Collected,    \* types the collector asks for, in order
          Types,        \* types of the model's profile
          Regions,      \* regions of the feed, in order
          Pools,        \* <<type, region>> with a spot pool: others have no score and no price
          Histories,    \* the pools with a price in 90 days, as the publisher may find them
          Scores,       \* what the placement API answers
          BatchSize,    \* items of one BatchWriteItem: 25
          MaxTime,      \* bound: the time goes up to here, the collector works before it
          Rtt, Price,   \* per region, as measured and as known
          Ties,         \* configured thresholds [score, rtt]
          Lists         \* candidates that the placement API alone may give

ASSUME PipelineAssumption ==
  /\ Scores \subseteq Nat /\ BatchSize \in Nat \ {0} /\ MaxTime \in Nat
  /\ Collected \in Seq(ToSet(Collected)) /\ Regions \in Seq(ToSet(Regions)) /\ IsFiniteSet(Types)
  /\ Pools \subseteq ToSet(Collected) \X ToSet(Regions) /\ Histories \subseteq SUBSET Pools
  /\ \A r \in ToSet(Regions) : Rtt[r] \in Nat /\ Price[r] \in Nat \cup {Null}
  /\ \A t \in Ties : t.score \in Nat \ {0} /\ t.rtt \in Nat \ {0}
  /\ \A l \in Lists : /\ l \in Seq(ToSet(l))
                     /\ \A i \in DOMAIN l : IsCandidate(l[i]) /\ l[i].source = "realtime"

VARIABLES now,
          table,   \* the scores table: a set of points [type, region, ts, score]
          coll,    \* the collector's invocation: [pc, ts, items, todo, request, attempt, refusals]
          scan,    \* the publisher's scan of the table: Null or what was there when it began
          feed,    \* data.json: Null or [points, noPool]
          cli      \* the placement: [exit, at, cands]

vars == <<now, table, coll, scan, feed, cli>>

----------------------------------------------------------------------------
(* The collector Lambda *)

Points(answers) ==
  {[type |-> x[1], region |-> x[2], ts |-> now, score |-> answers[x]] : x \in DOMAIN answers}

\* The items of one type follow those of another as the types do; within a type
\* they are in the order of the answer, which may be any.
Listings(points) ==
  LET place(x) == SelectInSeq(Collected, LAMBDA t : t = x.type) IN
  {s \in [1..Cardinality(points) -> points] :
     IsInjective(s) /\ \A i, j \in DOMAIN s : i < j => place(s[i]) <= place(s[j])}

Batches(items) ==
  [i \in 1..((Len(items) + BatchSize - 1) \div BatchSize) |->
     ToSet(SubSeq(items, (i - 1) * BatchSize + 1, IF i * BatchSize < Len(items) THEN i * BatchSize ELSE Len(items)))]

\* One call per type; the pools of a failed call have no item.  When every call
\* failed the invocation fails, and without any item it ends.
Invoke ==
  /\ coll.pc = "off" /\ coll.ts < now /\ now < MaxTime /\ UNCHANGED <<now, table, scan, feed, cli>>
  /\ \E failed \in SUBSET ToSet(Collected) :
       \E answers \in [{x \in Pools : x[1] \notin failed} -> Scores] :
       \E items \in Listings(Points(answers)) :
         coll' = IF items = <<>> THEN [coll EXCEPT !.ts = now]
                 ELSE [pc |-> "writing", ts |-> now, items |-> ToSet(items), todo |-> Tail(Batches(items)),
                       request |-> Head(Batches(items)), attempt |-> 0,
                       refusals |-> [x \in ToSet(items) |-> 0]]

\* How often a batch is tried.  Fault: once.
OneAttempt == 1
Attempts == 2

\* BatchWriteItem writes some of the request and returns the others, which are
\* tried once more; what is refused again is only logged.
WriteBatch ==
  /\ coll.pc = "writing" /\ UNCHANGED <<now, scan, feed, cli>>
  /\ \E refused \in SUBSET coll.request :
       /\ table' = table \cup (coll.request \ refused)
       /\ LET told == [coll EXCEPT !.refusals = [x \in coll.items |-> @[x] + IF x \in refused THEN 1 ELSE 0]] IN
          coll' = IF refused # {} /\ coll.attempt + 1 < Attempts
                  THEN [told EXCEPT !.request = refused, !.attempt = @ + 1]
                  ELSE IF coll.todo # <<>>
                  THEN [told EXCEPT !.request = Head(coll.todo), !.todo = Tail(@), !.attempt = 0]
                  ELSE [told EXCEPT !.pc = "off", !.request = {}, !.attempt = 0]

\* A write throws, or the Lambda's minute is over: nothing more is written, and
\* a retry is a new invocation with a later time.
CollectorDies ==
  /\ coll.pc = "writing" /\ UNCHANGED <<now, table, scan, feed, cli>>
  /\ coll' = [coll EXCEPT !.pc = "off", !.request = {}, !.todo = <<>>, !.items = {}, !.attempt = 0,
                          !.refusals = <<>>]

----------------------------------------------------------------------------
(* The publisher Lambda *)

\* An invocation begins.  One that fails has published nothing, and what the next one
\* may publish could have come from its own scan, had it gone on for longer.
BeginScan == scan = Null /\ scan' = table /\ UNCHANGED <<now, table, coll, feed, cli>>

\* No price in 90 days: no pool
NoPool(priced) == {x \in ToSet(Collected) \X ToSet(Regions) : x \notin priced}

\* The scan reads page by page: it may show some of the points written meanwhile and
\* not others.  data.json is written anew.
Publish ==
  /\ scan # Null /\ scan' = Null /\ UNCHANGED <<now, table, coll, cli>>
  /\ \E late \in SUBSET (table \ scan), priced \in Histories :
       feed' = [points |-> scan \cup late, noPool |-> NoPool(priced)]

----------------------------------------------------------------------------
(* gatherCandidates *)

NoResult == [exit |-> "none", at |-> 0, cands |-> <<>>]

\* The candidates, in the order of the regions, when `short` have too small a
\* quota and `live` is what the API answers for regions the feed does not cover
Candidates(data, short, live) ==
  LET stored(r) == IF data = Null THEN Null ELSE RegionScore(data.points, data.noPool, Types, r, now)
      known(r) == IF stored(r) # Null THEN stored(r)
                  ELSE IF live[r] = Null THEN Null ELSE [sum |-> live[r], n |-> 1]
      candidate(r) == [region |-> r, score |-> known(r),
                       source |-> IF stored(r) # Null THEN "feed48h" ELSE "realtime",
                       rtt |-> Rtt[r], price |-> Price[r]]
      upTo[i \in 0..Len(Regions)] ==
        IF i = 0 THEN <<>>
        ELSE IF Regions[i] \in short \/ known(Regions[i]) = Null THEN upTo[i - 1]
        ELSE Append(upTo[i - 1], candidate(Regions[i]))
  IN upTo[Len(Regions)]

\* The feed answers or not.  No candidate: one region with a short quota is
\* enough for the message about quotas.
Gather ==
  /\ cli.exit = "none" /\ UNCHANGED <<now, table, coll, scan, feed>>
  /\ \E data \in {feed, Null}, short \in SUBSET ToSet(Regions),
        live \in [ToSet(Regions) -> Scores \cup {Null}] :
       LET cands == Candidates(data, short, live) IN
       cli' = [exit |-> IF cands # <<>> THEN "ranked" ELSE IF short # {} THEN "quota" ELSE "noscore",
               at |-> now, cands |-> cands]

\* Any other call of the gathering throws.
GatherFails == /\ cli.exit = "none" /\ cli' = [NoResult EXCEPT !.exit = "failed", !.at = now]
               /\ UNCHANGED <<now, table, coll, scan, feed>>

----------------------------------------------------------------------------

Tick == now < MaxTime /\ now' = now + 1 /\ UNCHANGED <<table, coll, scan, feed, cli>>

\* Before the first collection; or, to rank more candidates than the pipeline
\* yields, after a placement without a table, at the end of the time.
Init ==
  /\ table = {} /\ scan = Null /\ feed = Null
  /\ \/ now = 0 /\ cli = NoResult
     \/ now = MaxTime /\ cli \in [exit : {"ranked"}, at : {now}, cands : Lists]
  /\ coll = [pc |-> "off", ts |-> -1, items |-> {}, todo |-> <<>>, request |-> {}, attempt |-> 0,
             refusals |-> <<>>]

Next == Invoke \/ WriteBatch \/ CollectorDies \/ BeginScan \/ Publish \/ Gather \/ GatherFails \/ Tick

Spec == Init /\ [][Next]_vars

----------------------------------------------------------------------------
(* Properties of the pipeline *)

\* A point of an invocation that came to its end is missing from the table only
\* when DynamoDB refused it twice (spot-score-collector-stack.ts:95-105).
LostOnlyRefusedTwice ==
  coll.pc = "off" => \A x \in coll.items : x \in table \/ coll.refusals[x] >= 2

\* A candidate's score from the feed lies between scores of its region and of one
\* of its types that were collected within 48 hours of its use (feed.ts:17-36).
ScoreFresh ==
  \A i \in DOMAIN cli.cands :
    LET c == cli.cands[i] IN
    c.source = "feed48h" =>
      \E t \in Types :
        LET seen == {x \in table : x.type = t /\ x.region = c.region /\ x.ts \in (cli.at - Window)..cli.at} IN
        /\ \E x \in seen : x.score * c.score.n <= c.score.sum
        /\ \E x \in seen : x.score * c.score.n >= c.score.sum

----------------------------------------------------------------------------
(* The ranking of cli.cands *)

\* Every candidate is ranked, once.
RankComplete ==
  \A t \in Ties : LET ranked == Rank(cli.cands, t) IN
    Len(ranked) = Len(cli.cands) /\ ToSet(ranked) = ToSet(cli.cands)

\* Though ties are not transitive, nobody is ranked behind a candidate that it
\* beats by the score threshold.
RankedByScore ==
  \A t \in Ties : LET ranked == Rank(cli.cands, t) IN
    \A i, j \in DOMAIN ranked : i < j => Within(ranked[j].score, ranked[i].score, t.score)

\* Nor behind a dearer one that has no better score and no better latency, where
\* an unknown price is the dearest.
NoBargainBehind ==
  \A t \in Ties : LET ranked == Rank(cli.cands, t) IN
    \A i, j \in DOMAIN ranked :
      /\ i < j /\ ranked[j].price # Null
      /\ ranked[i].score.sum * ranked[j].score.n <= ranked[j].score.sum * ranked[i].score.n
      /\ ranked[j].rtt <= ranked[i].rtt
      => ranked[i].price # Null /\ ranked[i].price <= ranked[j].price

\* The ranking is complete, and no candidate stands behind one that it beats
\* clearly (engine.ts:27-45).
RankSound == RankComplete /\ RankedByScore /\ NoBargainBehind
=============================================================================
