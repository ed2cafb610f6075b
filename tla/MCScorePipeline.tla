--------------------------- MODULE MCScorePipeline ---------------------------
(* A small instance of ScorePipeline: region ra has pools of both types, region *)
(* rb has none and lives on the placement API.  The lists to rank hold up to     *)
(* three candidates, far enough apart for ties that are not transitive.         *)
EXTENDS ScorePipeline

CONSTANTS ra, rb, rc, g, p

MCCollected == <<p, g>>
MCRegions == <<ra, rb>>
MCPools == {<<p, ra>>, <<g, ra>>}
MCHistories == {MCPools, {<<p, ra>>}}
MCRtt == [r \in {ra, rb} |-> IF r = ra THEN 4 ELSE 1]
MCPrice == [r \in {ra, rb} |-> IF r = ra THEN 2 ELSE Null]
MCTies == [score : {1, 2}, rtt : {2}]

Some(r) == [region : {r}, score : [sum : 1..4, n : {1}], source : {"realtime"},
            rtt : {1, 2, 3}, price : {1, 2, Null}]
MCLists == {<<x>> : x \in Some(ra)} \cup {<<x, y, z>> : x \in Some(ra), y \in Some(rb), z \in Some(rc)}
=============================================================================
