------------------------ MODULE ScorePipelineProofs ------------------------
(***************************************************************************)
(* Proofs about ScorePipeline: for any types, regions, pools and scores,   *)
(* any size of a batch and any candidates to rank.                         *)
(***************************************************************************)
EXTENDS ScorePipeline, SequenceTheorems, FiniteSetTheorems, WellFoundedInduction, TLAPS

-----------------------------------------------------------------------------
(* Induction: the least counterexample *)

LEMMA NatMin == ASSUME NEW T, T \subseteq Nat, T # {} PROVE \E x \in T : \A y \in T : x <= y
<1> DEFINE R == OpToRel(<, Nat)
<1>1. IsWellFoundedOn(R, Nat) BY NatLessThanWellFounded
<1>2. \A ss : ss \in R <=> ss \in Nat \X Nat /\ ss[1] < ss[2] BY DEF OpToRel
<1> HIDE DEF R
<1>3. PICK x \in T : \A y \in T : <<y, x>> \notin R BY <1>1, WFMin
<1>4. \A y \in T : ~(y < x) BY <1>2, <1>3
<1> QED BY <1>4

LEMMA MinIsLeast ==
  ASSUME NEW T, T \subseteq Nat, T # {}
  PROVE Min(T) \in T /\ \A y \in T : Min(T) <= y
BY NatMin DEF Min

\* A set of numbers that holds 0, and with a number below N the next one
LEMMA UpTo ==
  ASSUME NEW N \in Nat, NEW P, 0 \in P, \A n \in 1..N : n - 1 \in P => n \in P
  PROVE 0..N \subseteq P
<1> DEFINE T == {n \in 0..N : n \notin P}
<1>1. CASE T # {}
  <2>1. T \subseteq Nat OBVIOUS
  <2>2. PICK n \in T : \A y \in T : n <= y
    <3> HIDE DEF T
    <3> QED BY <1>1, <2>1, NatMin
  <2>3. n \in 1..N /\ n - 1 \notin T BY <2>2
  <2> QED BY <2>2, <2>3
<1> QED BY <1>1

\* The runs of a loop of m rounds H[1], H[2] ... whose state is in V and starts with v0
Runs(m, V, v0, H) ==
  {f \in [0..m -> V] : f[0] = v0 /\ \A n \in 1..m : f[n] = H[n][f[n - 1]]}

LEMMA Iteration ==
  ASSUME NEW N \in Nat, NEW V, NEW v0 \in V, NEW H \in [1..N -> [V -> V]]
  PROVE Runs(N, V, v0, H) # {}
<1> DEFINE P == {m \in 0..N : Runs(m, V, v0, H) # {}}
<1>1. 0 \in P
  <2>1. [n \in 0..0 |-> v0] \in Runs(0, V, v0, H) BY DEF Runs
  <2> QED BY <2>1
<1>2. ASSUME NEW n \in 1..N, n - 1 \in P PROVE n \in P
  <2>1. PICK f \in [0..(n - 1) -> V] :
               f[0] = v0 /\ \A k \in 1..(n - 1) : f[k] = H[k][f[k - 1]]
    BY <1>2 DEF Runs
  <2> DEFINE g == [k \in 0..n |-> IF k = n THEN H[n][f[n - 1]] ELSE f[k]]
  <2>2. f[n - 1] \in V /\ H[n] \in [V -> V] OBVIOUS
  <2>3. g \in [0..n -> V] BY <2>2
  <2>4. \A k \in 1..n : g[k] = H[k][g[k - 1]]
    <3> TAKE k \in 1..n
    <3>1. CASE k = n BY <3>1
    <3>2. CASE k < n BY <2>1, <3>2
    <3> QED BY <3>1, <3>2
  <2>5. g[0] = v0 BY <2>1
  <2>6. g \in Runs(n, V, v0, H) BY <2>3, <2>4, <2>5 DEF Runs
  <2> QED BY <2>6
<1>3. N \in P
  <2>1. \A n \in 1..N : n - 1 \in P => n \in P BY <1>2
  <2> HIDE DEF P
  <2>2. 0..N \subseteq P BY <1>1, <2>1, UpTo
  <2> QED BY <2>2
<1> QED BY <1>3

-----------------------------------------------------------------------------
(* Fractions *)

LEMMA Scale == ASSUME NEW x \in Int, NEW y \in Int, NEW k \in Nat \ {0}
               PROVE (k * x <= k * y <=> x <= y) /\ (k * x < k * y <=> x < y)
OBVIOUS

\* If a is not above b and b is less than u above c, so is a.
LEMMA BelowWithin ==
  ASSUME NEW a, NEW b, NEW c, IsScore(a), IsScore(b), IsScore(c), NEW u \in Nat,
         ~Greater(a, b), Within(b, c, u)
  PROVE Within(a, c, u)
<1> DEFINE p == a.sum  q == a.n  r == b.sum  s == b.n  v == c.sum  w == c.n
<1>1. /\ p \in Nat /\ r \in Nat /\ v \in Nat
      /\ q \in Nat \ {0} /\ s \in Nat \ {0} /\ w \in Nat \ {0}
  BY DEF IsScore
<1>2. p * s <= r * q BY <1>1 DEF Greater
<1>3. r * w - v * s < u * s * w BY DEF Within
<1> HIDE DEF p, q, r, s, v, w
<1>4. w * (p * s) <= w * (r * q) BY <1>1, <1>2, Scale
<1>5. q * (r * w - v * s) < q * (u * s * w) BY <1>1, <1>3, Scale
<1>6. s * (p * w - v * q) < s * (u * q * w)
  <2>1. s * (p * w - v * q) = w * (p * s) - q * (v * s) BY <1>1
  <2>2. q * (r * w - v * s) = w * (r * q) - q * (v * s) BY <1>1
  <2>3. s * (u * q * w) = q * (u * s * w) BY <1>1
  <2> QED BY <1>1, <1>4, <1>5, <2>1, <2>2, <2>3
<1>7. p * w - v * q < u * q * w
  <2>1. p * w - v * q \in Int /\ u * q * w \in Int BY <1>1
  <2> QED BY <1>1, <1>6, <2>1, Scale
<1> QED BY <1>7 DEF Within, p, q, v, w

\* If a is less than u above b and b is not above c, then a is less than u above c.
LEMMA WithinBelow ==
  ASSUME NEW a, NEW b, NEW c, IsScore(a), IsScore(b), IsScore(c), NEW u \in Nat,
         Within(a, b, u), ~Greater(b, c)
  PROVE Within(a, c, u)
<1> DEFINE p == a.sum  q == a.n  r == b.sum  s == b.n  v == c.sum  w == c.n
<1>1. /\ p \in Nat /\ r \in Nat /\ v \in Nat
      /\ q \in Nat \ {0} /\ s \in Nat \ {0} /\ w \in Nat \ {0}
  BY DEF IsScore
<1>2. p * s - r * q < u * q * s BY DEF Within
<1>3. r * w <= v * s BY <1>1 DEF Greater
<1> HIDE DEF p, q, r, s, v, w
<1>4. w * (p * s - r * q) < w * (u * q * s) BY <1>1, <1>2, Scale
<1>5. q * (r * w) <= q * (v * s) BY <1>1, <1>3, Scale
<1>6. s * (p * w - v * q) < s * (u * q * w)
  <2>1. s * (p * w - v * q) = w * (p * s) - q * (v * s) BY <1>1
  <2>2. w * (p * s - r * q) = w * (p * s) - q * (r * w) BY <1>1
  <2>3. s * (u * q * w) = w * (u * q * s) BY <1>1
  <2> QED BY <1>1, <1>4, <1>5, <2>1, <2>2, <2>3
<1>7. p * w - v * q < u * q * w
  <2>1. p * w - v * q \in Int /\ u * q * w \in Int BY <1>1
  <2> QED BY <1>1, <1>6, <2>1, Scale
<1> QED BY <1>7 DEF Within, p, q, v, w

\* The greatest of N scores
LEMMA BestPlace ==
  ASSUME NEW N \in Nat \ {0}, NEW f, \A i \in 1..N : IsScore(f[i])
  PROVE \E i \in 1..N : \A j \in 1..N : ~Greater(f[j], f[i])
<1> DEFINE Best(m) == \E i \in 1..m : \A j \in 1..m : ~Greater(f[j], f[i])
           P == {m \in 0..(N - 1) : Best(m + 1)}
<1>1. 0 \in P
  <2>1. ~Greater(f[1], f[1]) BY DEF Greater, IsScore
  <2> QED BY <2>1
<1>2. ASSUME NEW m \in 1..(N - 1), m - 1 \in P PROVE m \in P
  <2>1. PICK i \in 1..m : \A j \in 1..m : ~Greater(f[j], f[i]) BY <1>2
  <2>2. CASE ~Greater(f[m + 1], f[i])
    <3>1. \A j \in 1..(m + 1) : ~Greater(f[j], f[i]) BY <2>1, <2>2
    <3> QED BY <3>1
  <2>3. CASE Greater(f[m + 1], f[i])
    <3>1. \A j \in 1..(m + 1) : ~Greater(f[j], f[m + 1])
      <4> TAKE j \in 1..(m + 1)
      <4>1. CASE j = m + 1 BY <4>1 DEF Greater, IsScore
      <4>2. CASE j \in 1..m
        <5>1. Within(f[i], f[m + 1], 0) BY <2>3 DEF Greater, Within, IsScore
        <5>2. Within(f[j], f[m + 1], 0) BY <2>1, <4>2, <5>1, BelowWithin
        <5> QED BY <4>2, <5>2 DEF Greater, Within, IsScore
      <4> QED BY <4>1, <4>2
    <3> QED BY <3>1
  <2> QED BY <2>2, <2>3
<1>3. N - 1 \in P
  <2>1. \A m \in 1..(N - 1) : m - 1 \in P => m \in P BY <1>2
  <2> HIDE DEF P
  <2>2. 0..(N - 1) \subseteq P BY <1>1, <2>1, UpTo
  <2> QED BY <2>2
<1> QED BY <1>3

-----------------------------------------------------------------------------
(* The ranking *)

IsTie(t) == t.score \in Nat \ {0} /\ t.rtt \in Nat \ {0}

\* What may be said of x, which is ranked before y
Fair(x, y, t) ==
  /\ Within(y.score, x.score, t.score)
  /\ /\ y.price # Null
     /\ x.score.sum * y.score.n <= y.score.sum * x.score.n
     /\ y.rtt <= x.rtt
     => x.price # Null /\ x.price <= y.price

\* There is a leader, and it is fair to all.
LEMMA LeaderFair ==
  ASSUME NEW S, NEW cands \in Seq(S), cands # <<>>, NEW t, IsTie(t),
         \A i \in DOMAIN cands : IsCandidate(cands[i])
  PROVE /\ PickLeader(cands, t) \in DOMAIN cands
        /\ \A j \in DOMAIN cands : Fair(cands[PickLeader(cands, t)], cands[j], t)
<1> DEFINE close == ScorePool(cands, t)
           pool == RttPool(cands, close, t)
           cheapest == {i \in pool : \A j \in pool : ~Cheaper(cands[j], cands[i])}
           l == PickLeader(cands, t)
<1>1. Len(cands) \in Nat \ {0} /\ DOMAIN cands = 1..Len(cands) OBVIOUS
<1>2. close # {}
  <2> DEFINE f == [i \in DOMAIN cands |-> cands[i].score]
  <2>1. \A i \in 1..Len(cands) : IsScore(f[i]) BY <1>1 DEF IsCandidate
  <2>2. PICK i \in 1..Len(cands) : \A j \in 1..Len(cands) : ~Greater(f[j], f[i])
    <3> HIDE DEF f
    <3> QED BY <1>1, <2>1, BestPlace
  <2>3. \A j \in DOMAIN cands : ~Greater(cands[j].score, cands[i].score) BY <1>1, <2>2
  <2>4. Within(cands[i].score, cands[i].score, t.score)
    <3> DEFINE n == cands[i].score.n
    <3>1. n \in Nat \ {0} /\ t.score \in Nat \ {0} /\ cands[i].score.sum \in Nat
      BY <1>1 DEF IsCandidate, IsScore, IsTie
    <3>2. t.score * n > 0 /\ t.score * n \in Nat BY <3>1
    <3>3. t.score * n * n > 0 BY <3>1, <3>2
    <3> QED BY <3>1, <3>3 DEF Within
  <2>5. \A j \in DOMAIN cands : Within(cands[j].score, cands[i].score, t.score)
    BY <1>1, <2>3, <2>4, BelowWithin DEF IsCandidate, IsTie
  <2> QED BY <1>1, <2>5 DEF ScorePool
<1>3. close \subseteq DOMAIN cands BY DEF ScorePool
<1>4. pool # {}
  <2> DEFINE rtts == {cands[i].rtt : i \in close}
  <2>1. rtts \subseteq Nat /\ rtts # {} BY <1>2, <1>3 DEF IsCandidate
  <2>2. PICK r \in rtts : \A q \in rtts : r <= q
    <3> HIDE DEF rtts
    <3> QED BY <2>1, NatMin
  <2>3. PICK i \in close : r = cands[i].rtt BY <2>2
  <2>4. \A j \in close : cands[i].rtt - cands[j].rtt < t.rtt
    <3> TAKE j \in close
    <3>1. cands[j].rtt \in rtts /\ r \in Nat /\ cands[j].rtt \in Nat BY <2>1
    <3>2. r <= cands[j].rtt BY <2>2, <3>1
    <3> QED BY <2>3, <3>1, <3>2 DEF IsTie
  <2> QED BY <2>3, <2>4 DEF RttPool
<1>5. pool \subseteq close BY DEF RttPool
<1>6. cheapest # {}
  <2> DEFINE prices == {cands[i].price : i \in pool} \ {Null}
  <2>1. CASE prices = {}
    <3>1. \A i \in pool : cands[i].price = Null BY <2>1
    <3> QED BY <1>4, <3>1 DEF Cheaper
  <2>2. CASE prices # {}
    <3>1. prices \subseteq Nat BY <1>3, <1>5 DEF IsCandidate
    <3>2. PICK x \in prices : \A y \in prices : x <= y
      <4> HIDE DEF prices
      <4> QED BY <2>2, <3>1, NatMin
    <3>3. PICK i \in pool : cands[i].price = x /\ x # Null BY <3>2
    <3>4. \A j \in pool : ~Cheaper(cands[j], cands[i])
      <4> TAKE j \in pool
      <4>1. CASE cands[j].price = Null BY <4>1 DEF Cheaper
      <4>2. CASE cands[j].price # Null
        <5>1. cands[j].price \in prices BY <4>2
        <5>2. x \in Nat /\ cands[j].price \in Nat /\ x <= cands[j].price BY <3>1, <3>2, <5>1
        <5> HIDE DEF prices
        <5> QED BY <3>3, <5>2 DEF Cheaper
      <4> QED BY <4>1, <4>2
    <3> QED BY <3>4
  <2> QED BY <2>1, <2>2
<1>7. l \in cheapest
  <2>1. cheapest \subseteq Nat BY <1>1, <1>3, <1>5
  <2>2. l = Min(cheapest) BY <1>6 DEF PickLeader
  <2> HIDE DEF cheapest, l
  <2> QED BY <1>6, <2>1, <2>2, MinIsLeast
<1> HIDE DEF l
<1>8. l \in DOMAIN cands BY <1>3, <1>5, <1>7
<1>9. ASSUME NEW j \in DOMAIN cands PROVE Fair(cands[l], cands[j], t)
  <2>1. Within(cands[j].score, cands[l].score, t.score) BY <1>5, <1>7 DEF ScorePool
  <2>2. ASSUME cands[j].price # Null, cands[j].rtt <= cands[l].rtt,
               cands[l].score.sum * cands[j].score.n <= cands[j].score.sum * cands[l].score.n
        PROVE cands[l].price # Null /\ cands[l].price <= cands[j].price
    <3>1. ~Greater(cands[l].score, cands[j].score)
      BY <1>8, <2>2 DEF Greater, IsCandidate, IsScore
    <3>2. j \in close
      <4> SUFFICES ASSUME NEW k \in DOMAIN cands
                   PROVE Within(cands[k].score, cands[j].score, t.score)
        BY DEF ScorePool
      <4>1. Within(cands[k].score, cands[l].score, t.score) BY <1>5, <1>7 DEF ScorePool
      <4> QED BY <1>8, <3>1, <4>1, WithinBelow DEF IsCandidate, IsTie
    <3>3. j \in pool
      <4>1. \A k \in close : cands[l].rtt - cands[k].rtt < t.rtt BY <1>7 DEF RttPool
      <4>2. \A k \in close : cands[j].rtt - cands[k].rtt < t.rtt
        BY <1>3, <1>8, <2>2, <4>1 DEF IsCandidate, IsTie
      <4> QED BY <3>2, <4>2 DEF RttPool
    <3>4. ~Cheaper(cands[j], cands[l]) BY <1>7, <3>3
    <3> QED BY <1>8, <2>2, <3>4 DEF Cheaper, IsCandidate
  <2> QED BY <2>1, <2>2 DEF Fair
<1> QED BY <1>8, <1>9 DEF l

\* A sequence without its l-th element
LEMMA WithoutShape ==
  ASSUME NEW S, NEW s \in Seq(S), NEW l \in DOMAIN s
  PROVE /\ RemoveAt(s, l) \in Seq(S) /\ Len(RemoveAt(s, l)) = Len(s) - 1
        /\ ToSet(s) = ToSet(RemoveAt(s, l)) \cup {s[l]}
<1> DEFINE r == RemoveAt(s, l)
           a == SubSeq(s, 1, l - 1)
           b == SubSeq(s, l + 1, Len(s))
<1>1. Len(s) \in Nat /\ DOMAIN s = 1..Len(s) /\ l \in 1..Len(s) OBVIOUS
<1>2. /\ a \in Seq(S) /\ Len(a) = l - 1 /\ \A k \in 1..(l - 1) : a[k] = s[k] BY <1>1
<1>3. /\ b \in Seq(S) /\ Len(b) = Len(s) - l
      /\ \A k \in 1..(Len(s) - l) : b[k] = s[l + k]
  BY <1>1
<1>4. r = a \o b BY DEF RemoveAt
<1> HIDE DEF a, b, r
<1>5. r \in Seq(S) /\ Len(r) = Len(s) - 1
  <2>1. a \o b \in Seq(S) /\ Len(a \o b) = Len(a) + Len(b) BY <1>2, <1>3, ConcatProperties
  <2> QED BY <1>1, <1>2, <1>3, <1>4, <2>1
<1>6. \A k \in 1..(Len(s) - 1) : r[k] = IF k < l THEN s[k] ELSE s[k + 1]
  <2> TAKE k \in 1..(Len(s) - 1)
  <2>1. CASE k < l BY <1>1, <1>2, <1>3, <1>4, <2>1
  <2>2. CASE k >= l
    <3>1. r[k] = b[k - (l - 1)] BY <1>1, <1>2, <1>3, <1>4, <2>2
    <3>2. k - (l - 1) \in 1..(Len(s) - l) /\ l + (k - (l - 1)) = k + 1 BY <1>1, <2>2
    <3> QED BY <1>3, <2>2, <3>1, <3>2
  <2> QED BY <1>1, <2>1, <2>2
<1>7. DOMAIN r = 1..(Len(s) - 1) BY <1>5
<1>8. ToSet(r) \subseteq ToSet(s) BY <1>1, <1>6, <1>7 DEF ToSet
<1>9. ToSet(s) \subseteq ToSet(r) \cup {s[l]}
  <2> SUFFICES ASSUME NEW k \in 1..Len(s), k # l PROVE s[k] \in ToSet(r)
    BY <1>1 DEF ToSet
  <2>1. CASE k < l
    <3>1. k \in DOMAIN r /\ r[k] = s[k] BY <1>1, <1>6, <1>7, <2>1
    <3> QED BY <3>1 DEF ToSet
  <2>2. CASE k > l
    <3>1. k - 1 \in DOMAIN r /\ ~(k - 1 < l) BY <1>1, <1>7, <2>2
    <3>2. r[k - 1] = s[(k - 1) + 1] BY <1>6, <1>7, <3>1
    <3>3. r[k - 1] = s[k] BY <3>2
    <3> QED BY <3>1, <3>3 DEF ToSet
  <2> QED BY <1>1, <2>1, <2>2
<1>10. s[l] \in ToSet(s) BY DEF ToSet
<1> QED BY <1>5, <1>8, <1>9, <1>10 DEF r

\* One round of the ranking
Round(acc, t) ==
  LET leader == PickLeader(acc.rest, t) IN
  [out |-> Append(acc.out, At(acc.rest, leader)), rest |-> Without(acc.rest, leader)]

\* What holds after n rounds of the ranking of cands
Ranked(cands, t, n, acc) ==
  /\ acc.out \in Seq(ToSet(cands)) /\ acc.rest \in Seq(ToSet(cands))
  /\ Len(acc.out) = n /\ Len(acc.rest) = Len(cands) - n
  /\ ToSet(acc.out) \cup ToSet(acc.rest) = ToSet(cands)
  /\ \A i, j \in DOMAIN acc.out : i < j => Fair(acc.out[i], acc.out[j], t)
  /\ \A i \in DOMAIN acc.out, y \in ToSet(acc.rest) : Fair(acc.out[i], y, t)

LEMMA RoundRanks ==
  ASSUME NEW S, NEW cands \in Seq(S), \A i \in DOMAIN cands : IsCandidate(cands[i]),
         NEW t, IsTie(t), NEW n \in 0..(Len(cands) - 1), NEW acc, Ranked(cands, t, n, acc)
  PROVE Ranked(cands, t, n + 1, Round(acc, t))
<1> DEFINE X == ToSet(cands)
           l == PickLeader(acc.rest, t)
           x == acc.rest[l]
           out == Append(acc.out, x)
           rest == RemoveAt(acc.rest, l)
<1>1. /\ acc.rest \in Seq(X) /\ acc.out \in Seq(X) /\ Len(acc.out) = n
      /\ Len(acc.rest) = Len(cands) - n /\ X = ToSet(acc.out) \cup ToSet(acc.rest)
  BY DEF Ranked
<1>2. \A y \in X : IsCandidate(y) BY DEF ToSet
<1> HIDE DEF X
<1>3. acc.rest # <<>> BY <1>1
<1>4. \A i \in DOMAIN acc.rest : IsCandidate(acc.rest[i]) BY <1>1, <1>2
<1>5. /\ l \in DOMAIN acc.rest
      /\ \A j \in DOMAIN acc.rest : Fair(acc.rest[l], acc.rest[j], t)
  BY <1>1, <1>3, <1>4, LeaderFair
<1>6. l # 0 /\ l \in Nat BY <1>1, <1>5
<1>7. Round(acc, t) = [out |-> out, rest |-> rest] BY <1>6 DEF Round, At, Without
<1>8. /\ rest \in Seq(X) /\ Len(rest) = Len(acc.rest) - 1
      /\ ToSet(acc.rest) = ToSet(rest) \cup {x}
  BY <1>1, <1>5, WithoutShape
<1>9. x \in X BY <1>1, <1>5
<1>10. \A y \in ToSet(acc.rest) : Fair(x, y, t) BY <1>5 DEF ToSet
<1> HIDE DEF x, l, rest
<1>11. /\ out \in Seq(X) /\ Len(out) = n + 1 /\ out[n + 1] = x
       /\ DOMAIN acc.out = 1..n /\ DOMAIN out = 1..(n + 1)
       /\ \A i \in 1..n : out[i] = acc.out[i]
  BY <1>1, <1>9
<1> HIDE DEF out
<1>12. ToSet(out) = ToSet(acc.out) \cup {x} BY <1>11 DEF ToSet
<1>13. ToSet(out) \cup ToSet(rest) = X BY <1>1, <1>8, <1>12
<1>14. \A i \in 1..n, y \in ToSet(acc.rest) : Fair(acc.out[i], y, t) BY <1>11 DEF Ranked
<1>15. \A i, j \in DOMAIN out : i < j => Fair(out[i], out[j], t)
  <2> SUFFICES ASSUME NEW i \in 1..(n + 1), NEW j \in 1..(n + 1), i < j
               PROVE Fair(out[i], out[j], t)
    BY <1>11
  <2>1. CASE j = n + 1
    <3>1. i \in 1..n /\ out[j] = x /\ x \in ToSet(acc.rest) BY <1>8, <1>11, <2>1
    <3> QED BY <1>11, <1>14, <3>1
  <2>2. CASE j \in 1..n
    <3>1. i \in 1..n BY <2>2
    <3> QED BY <1>11, <2>2, <3>1 DEF Ranked
  <2> QED BY <2>1, <2>2
<1>16. \A i \in DOMAIN out, y \in ToSet(rest) : Fair(out[i], y, t)
  <2> SUFFICES ASSUME NEW i \in 1..(n + 1), NEW y \in ToSet(rest) PROVE Fair(out[i], y, t)
    BY <1>11
  <2>1. y \in ToSet(acc.rest) BY <1>8
  <2>2. CASE i = n + 1 BY <1>10, <1>11, <2>1, <2>2
  <2>3. CASE i \in 1..n BY <1>11, <1>14, <2>1, <2>3
  <2> QED BY <2>2, <2>3
<1>17. Len(rest) = Len(cands) - (n + 1) BY <1>1, <1>8
<1> QED BY <1>7, <1>8, <1>11, <1>13, <1>15, <1>16, <1>17 DEF Ranked, X

\* The ranking, for any list of candidates
LEMMA RankFair ==
  ASSUME NEW S, NEW cands \in Seq(S), \A i \in DOMAIN cands : IsCandidate(cands[i]),
         NEW t, IsTie(t)
  PROVE /\ Rank(cands, t) \in Seq(ToSet(cands)) /\ Len(Rank(cands, t)) = Len(cands)
        /\ ToSet(Rank(cands, t)) = ToSet(cands)
        /\ \A i, j \in DOMAIN Rank(cands, t) : i < j => Fair(Rank(cands, t)[i], Rank(cands, t)[j], t)
<1> DEFINE N == Len(cands)
           X == ToSet(cands) \cup {Null}
           V == [out : Seq(X), rest : Seq(X)]
           v0 == [out |-> <<>>, rest |-> cands]
           step(f, n) == IF n = 0 THEN v0 ELSE Round(f[n - 1], t)
           after == CHOOSE f : f = [n \in 0..N |-> step(f, n)]
<1>1. N \in Nat OBVIOUS
<1>2. cands \in Seq(ToSet(cands)) BY DEF ToSet
<1>3. v0 \in V BY <1>2
<1>4. \A v \in V : Round(v, t) \in V
  <2> SUFFICES ASSUME NEW v \in V PROVE Round(v, t) \in V OBVIOUS
  <2> DEFINE l == PickLeader(v.rest, t)
  <2>1. v.rest \in Seq(X) /\ v.out \in Seq(X) OBVIOUS
  <2>2. l = 0 \/ l \in DOMAIN v.rest
    <3>1. ASSUME NEW T, T \subseteq DOMAIN v.rest, T # {} PROVE Min(T) \in DOMAIN v.rest
      <4>1. T \subseteq Nat BY <2>1, <3>1
      <4> QED BY <3>1, <4>1, MinIsLeast
    <3> QED BY <3>1 DEF PickLeader, RttPool, ScorePool
  <2> HIDE DEF l
  <2>3. At(v.rest, l) \in X BY <2>1, <2>2 DEF At
  <2>4. Without(v.rest, l) \in Seq(X)
    <3>1. CASE l = 0 BY <2>1, <3>1 DEF Without, Front
    <3>2. CASE l # 0 BY <2>1, <2>2, <3>2, WithoutShape DEF Without
    <3> QED BY <3>1, <3>2
  <2> HIDE DEF X
  <2>5. Append(v.out, At(v.rest, l)) \in Seq(X) BY <2>1, <2>3
  <2> QED BY <2>4, <2>5 DEF Round, l
<1> HIDE DEF V, X, v0, N
\* The loop is defined ...
<1>5. after = [n \in 0..N |-> step(after, n)]
  <2> DEFINE H == [n \in 1..N |-> [v \in V |-> Round(v, t)]]
  <2>1. H \in [1..N -> [V -> V]] BY <1>4
  <2>2. PICK f : f \in Runs(N, V, v0, H)
    <3> HIDE DEF H
    <3> QED BY <1>1, <1>3, <2>1, Iteration
  <2>3. f \in [0..N -> V] /\ f[0] = v0 /\ \A n \in 1..N : f[n] = H[n][f[n - 1]]
    BY <2>2 DEF Runs
  <2>4. \A n \in 1..N : f[n - 1] \in V /\ H[n][f[n - 1]] = Round(f[n - 1], t)
    BY <1>1, <2>3
  <2>5. \A n \in 0..N : f[n] = step(f, n)
    <3> HIDE DEF H
    <3> TAKE n \in 0..N
    <3>1. n # 0 => n \in 1..N BY <1>1
    <3> QED BY <2>3, <2>4, <3>1
  <2> HIDE DEF step, H
  <2>6. f = [n \in 0..N |-> step(f, n)] BY <2>3, <2>5
  <2> QED BY <2>6
<1>6. Rank(cands, t) = after[N].out BY DEF Rank, Round, v0, N
<1> HIDE DEF after
\* ... and does in n rounds what it should.
<1>7. Ranked(cands, t, N, after[N])
  <2> DEFINE P == {n \in 0..N : Ranked(cands, t, n, after[n])}
  <2>1. 0 \in P
    <3>1. after[0] = v0 BY <1>1, <1>5
    <3>2. Ranked(cands, t, 0, v0) BY <1>2 DEF Ranked, v0, ToSet
    <3> QED BY <1>1, <3>1, <3>2
  <2>2. \A n \in 1..N : n - 1 \in P => n \in P
    <3> SUFFICES ASSUME NEW n \in 1..N, n - 1 \in P PROVE n \in P OBVIOUS
    <3>1. after[n] = Round(after[n - 1], t) BY <1>1, <1>5
    <3>2. Ranked(cands, t, n - 1, after[n - 1]) /\ n - 1 \in 0..(N - 1) /\ (n - 1) + 1 = n
      BY <1>1
    <3> DEFINE m == n - 1
               acc == after[m]
    <3>3. m \in 0..(Len(cands) - 1) /\ m + 1 = n BY <3>2 DEF N
    <3>4. Ranked(cands, t, m, acc) BY <3>2
    <3> HIDE DEF m, acc, P
    <3>5. Ranked(cands, t, m + 1, Round(acc, t)) BY <3>3, <3>4, RoundRanks
    <3> QED BY <3>1, <3>3, <3>5 DEF P, m, acc
  <2> HIDE DEF P
  <2>3. N \in P BY <1>1, <2>1, <2>2, UpTo
  <2> QED BY <2>3 DEF P
<1>8. after[N].rest = <<>> BY <1>7 DEF Ranked, N
<1>9. ToSet(after[N].rest) = {} BY <1>8 DEF ToSet
<1> QED BY <1>6, <1>7, <1>9 DEF Ranked, N

-----------------------------------------------------------------------------
(* Averages *)

\* The sum over a set takes away one element after another.
Some(s) == CHOOSE x \in s : TRUE
SumStep(f, s) == IF s = {} THEN 0 ELSE Some(s).score + f[s \ {Some(s)}]

LEMMA SumDefined ==
  ASSUME NEW S, IsFiniteSet(S), \A x \in S : x.score \in Nat
  PROVE \E iter : /\ MapThenSumSet(LAMBDA x : x.score, S) = iter[S]
                  /\ \A s \in SUBSET S : iter[s] = SumStep(iter, s)
<1> DEFINE N == Cardinality(S)
           V == [SUBSET S -> Nat]
           F == [f \in V |-> [s \in SUBSET S |-> SumStep(f, s)]]
           iter == CHOOSE f : f = [s \in SUBSET S |-> SumStep(f, s)]
<1>1. N \in Nat BY FS_CardinalityType
<1>2. \A s \in SUBSET S : s # {} => Some(s) \in s /\ Some(s) \in S /\ s \ {Some(s)} \in SUBSET S
  BY DEF Some
<1>3. F \in [V -> V]
  <2> SUFFICES ASSUME NEW f \in V, NEW s \in SUBSET S PROVE SumStep(f, s) \in Nat OBVIOUS
  <2>1. CASE s = {} BY <2>1 DEF SumStep
  <2>2. CASE s # {}
    <3>1. Some(s).score \in Nat /\ f[s \ {Some(s)}] \in Nat BY <1>2, <2>2
    <3> QED BY <2>2, <3>1 DEF SumStep
  <2> QED BY <2>1, <2>2
<1> DEFINE v0 == [s \in SUBSET S |-> 0]
<1>4. PICK g : g \in Runs(N + 1, V, v0, [n \in 1..(N + 1) |-> F])
  <2> DEFINE M == N + 1
             H == [n \in 1..M |-> F]
  <2>1. M \in Nat /\ v0 \in V BY <1>1
  <2>2. H \in [1..M -> [V -> V]] BY <1>3
  <2>3. Runs(M, V, v0, H) # {}
    <3> HIDE DEF M, H, V, F, v0
    <3> QED BY <2>1, <2>2, Iteration
  <2> HIDE DEF F, V, v0
  <2> QED BY <2>3
<1>5. g \in [0..(N + 1) -> V] /\ g[0] = v0 /\ \A n \in 1..(N + 1) : g[n] = F[g[n - 1]]
  <2> HIDE DEF F, V, v0
  <2> QED BY <1>4 DEF Runs
\* Another round changes nothing at the sets of up to n elements.
<1> DEFINE same(n) == \A s \in SUBSET S : Cardinality(s) <= n => g[n + 1][s] = g[n][s]
           P == {n \in 0..N : same(n)}
<1>6. \A n \in 1..(N + 1), s \in SUBSET S : g[n][s] = SumStep(g[n - 1], s)
  <2> SUFFICES ASSUME NEW n \in 1..(N + 1) PROVE g[n] = [s \in SUBSET S |-> SumStep(g[n - 1], s)]
    OBVIOUS
  <2>1. g[n - 1] \in V
    <3> HIDE DEF V, F, v0
    <3> QED BY <1>1, <1>5
  <2> HIDE DEF V
  <2> QED BY <1>5, <2>1 DEF F
<1>7. \A s \in SUBSET S : IsFiniteSet(s) /\ Cardinality(s) \in 0..N
  BY <1>1, FS_Subset, FS_CardinalityType
<1> HIDE DEF F, V
<1>8. 0 \in P
  <2> SUFFICES ASSUME NEW s \in SUBSET S, Cardinality(s) <= 0 PROVE g[1][s] = g[0][s]
    BY <1>1
  <2>1. s = {} BY <1>7, FS_EmptySet
  <2>2. g[1][s] = SumStep(g[0], s)
    <3>1. 1 \in 1..(N + 1) /\ 1 - 1 = 0 BY <1>1
    <3> QED BY <1>6, <3>1
  <2> QED BY <1>5, <2>1, <2>2 DEF SumStep
<1>9. \A n \in 1..N : n - 1 \in P => n \in P
  <2> SUFFICES ASSUME NEW n \in 1..N, same(n - 1), NEW s \in SUBSET S, Cardinality(s) <= n
               PROVE g[n + 1][s] = g[n][s]
    BY <1>1
  <2>1. g[n + 1][s] = SumStep(g[n], s) /\ g[n][s] = SumStep(g[n - 1], s)
    <3>1. n \in 1..(N + 1) /\ n + 1 \in 1..(N + 1) /\ (n + 1) - 1 = n BY <1>1
    <3>2. g[n + 1][s] = SumStep(g[(n + 1) - 1], s) BY <1>6, <3>1
    <3> QED BY <1>6, <3>1, <3>2
  <2>2. CASE s = {} BY <2>1, <2>2 DEF SumStep
  <2>3. CASE s # {}
    <3> DEFINE r == s \ {Some(s)}
    <3>1. r \in SUBSET S /\ Some(s) \in s BY <1>2, <2>3
    <3>2. Cardinality(r) = Cardinality(s) - 1 BY <1>7, <3>1, FS_RemoveElement
    <3>3. Cardinality(r) <= n - 1 BY <1>7, <3>2
    <3>4. g[(n - 1) + 1][r] = g[n - 1][r] BY <3>1, <3>3
    <3>5. (n - 1) + 1 = n OBVIOUS
    <3> QED BY <2>1, <2>3, <3>4, <3>5 DEF SumStep
  <2> QED BY <2>2, <2>3
<1>10. same(N)
  <2> HIDE DEF same
  <2>1. 0..N \subseteq P
    <3> HIDE DEF P
    <3> QED BY <1>1, <1>8, <1>9, UpTo
  <2> QED BY <1>1, <2>1
<1>11. g[N] \in [SUBSET S -> Nat] BY <1>1, <1>5 DEF V
<1>12. \A s \in SUBSET S : g[N][s] = SumStep(g[N], s)
  <2> TAKE s \in SUBSET S
  <2>1. g[N + 1][s] = SumStep(g[(N + 1) - 1], s) /\ (N + 1) - 1 = N
    <3>1. N + 1 \in 1..(N + 1) BY <1>1
    <3> QED BY <1>1, <1>6, <3>1
  <2> QED BY <1>7, <1>10, <2>1
<1>13. g[N] = [s \in SUBSET S |-> SumStep(g[N], s)]
  <2> QED BY <1>11, <1>12
<1>14. iter = [s \in SUBSET S |-> SumStep(iter, s)]
  <2> QED BY <1>13
<1>15. MapThenSumSet(LAMBDA x : x.score, S) = iter[S]
  BY DEF MapThenSumSet, MapThenFoldSet, SumStep, Some
<1>16. \A s \in SUBSET S : iter[s] = SumStep(iter, s) BY <1>14
<1> HIDE DEF iter
<1> QED BY <1>15, <1>16

\* The sum over a finite set lies between its size times bounds of its elements.
LEMMA SumBounds ==
  ASSUME NEW S, IsFiniteSet(S), NEW lo \in Nat, NEW hi \in Nat,
         \A x \in S : x.score \in lo..hi
  PROVE LET sum == MapThenSumSet(LAMBDA x : x.score, S) IN
        sum \in Nat /\ lo * Cardinality(S) <= sum /\ sum <= hi * Cardinality(S)
<1> DEFINE N == Cardinality(S)
<1>1. \A x \in S : x.score \in Nat OBVIOUS
<1>2. PICK iter : /\ MapThenSumSet(LAMBDA x : x.score, S) = iter[S]
                 /\ \A s \in SUBSET S : iter[s] = SumStep(iter, s)
  BY <1>1, SumDefined
<1>3. \A s \in SUBSET S : IsFiniteSet(s) /\ Cardinality(s) \in 0..N
  BY FS_Subset, FS_CardinalityType
<1>4. N \in Nat BY FS_CardinalityType
<1> DEFINE good(s) == /\ iter[s] \in Nat /\ lo * Cardinality(s) <= iter[s]
                      /\ iter[s] <= hi * Cardinality(s)
           P == {n \in 0..N : \A s \in SUBSET S : Cardinality(s) = n => good(s)}
<1>5. 0 \in P
  <2> SUFFICES ASSUME NEW s \in SUBSET S, Cardinality(s) = 0 PROVE good(s) BY <1>4
  <2>1. s = {} BY <1>3, FS_EmptySet
  <2>2. iter[s] = 0 BY <1>2, <2>1 DEF SumStep
  <2>3. lo * 0 = 0 /\ hi * 0 = 0 OBVIOUS
  <2> QED BY <2>2, <2>3
<1>6. \A n \in 1..N : n - 1 \in P => n \in P
  <2> SUFFICES ASSUME NEW n \in 1..N, n - 1 \in P, NEW s \in SUBSET S, Cardinality(s) = n
               PROVE good(s)
    BY <1>4
  <2> DEFINE x == Some(s)
             r == s \ {x}
             m == n - 1
  <2>1. s # {}
    <3>1. n # 0 /\ Cardinality({}) = 0 BY FS_EmptySet
    <3> QED BY <3>1
  <2>2. x \in s /\ r \in SUBSET S BY <2>1 DEF Some
  <2>3. Cardinality(r) = m BY <1>3, <2>2, FS_RemoveElement
  <2>4. iter[r] \in Nat /\ lo * m <= iter[r] /\ iter[r] <= hi * m BY <2>2, <2>3
  <2>5. iter[s] = x.score + iter[r] BY <1>2, <2>1 DEF SumStep
  <2>6. x.score \in Nat /\ lo <= x.score /\ x.score <= hi BY <2>2
  <2>7. lo * n = lo * m + lo /\ hi * n = hi * m + hi OBVIOUS
  <2>8. lo * m \in Nat /\ hi * m \in Nat OBVIOUS
  <2> HIDE DEF x, r, m, P
  <2> QED BY <2>4, <2>5, <2>6, <2>7, <2>8
<1>7. N \in P
  <2> HIDE DEF P
  <2> QED BY <1>4, <1>5, <1>6, UpTo
<1> QED BY <1>2, <1>7

\* Of finitely many scores one is the best.
LEMMA BestOf ==
  ASSUME NEW S, IsFiniteSet(S), S # {}, NEW f, \A x \in S : IsScore(f[x])
  PROVE \E x \in S : \A y \in S : ~Greater(f[y], f[x])
<1>1. PICK N \in Nat : ExistsBijection(1..N, S) BY FS_NatBijection
<1>2. PICK b \in [1..N -> S] : \A x \in S : \E i \in 1..N : b[i] = x
  BY <1>1 DEF ExistsBijection, Bijection, Surjection
<1>3. N # 0 BY <1>2
<1> DEFINE g == [i \in 1..N |-> f[b[i]]]
<1>4. PICK i \in 1..N : \A j \in 1..N : ~Greater(g[j], g[i])
  <2>1. \A j \in 1..N : IsScore(g[j]) BY <1>2
  <2> HIDE DEF g
  <2> QED BY <1>3, <2>1, BestPlace
<1>5. \A y \in S : ~Greater(f[y], f[b[i]]) BY <1>2, <1>4
<1> QED BY <1>2, <1>5

\* What an average of `seen` points says: some point is not above it, and some not below.
Averages(s, seen) ==
  /\ IsScore(s)
  /\ \E x \in seen : x.score * s.n <= s.sum
  /\ \E x \in seen : x.score * s.n >= s.sum

LEMMA AverageOfRecent ==
  ASSUME NEW points, IsFiniteSet(points), \A x \in points : x.score \in Nat,
         NEW at, Avg48h(points, at) # Null
  PROVE Averages(Avg48h(points, at), Recent(points, at))
<1> DEFINE seen == Recent(points, at)
           n == Cardinality(seen)
           sum == MapThenSumSet(LAMBDA x : x.score, seen)
<1>1. seen # {} /\ Avg48h(points, at) = [sum |-> sum, n |-> n] BY DEF Avg48h
<1>2. IsFiniteSet(seen) /\ \A x \in seen : x.score \in Nat BY FS_Subset DEF Recent
<1>3. n \in Nat /\ n # 0 BY <1>1, <1>2, FS_CardinalityType, FS_EmptySet
<1>4. PICK low \in seen : \A y \in seen : low.score <= y.score
  <2> DEFINE scores == {x.score : x \in seen}
  <2>1. scores \subseteq Nat /\ scores # {} BY <1>1, <1>2
  <2>2. PICK s \in scores : \A r \in scores : s <= r
    <3> HIDE DEF scores
    <3> QED BY <2>1, NatMin
  <2> QED BY <2>2
<1>5. PICK high \in seen : \A y \in seen : y.score <= high.score
  <2> DEFINE f == [x \in seen |-> [sum |-> x.score, n |-> 1]]
  <2>1. \A x \in seen : IsScore(f[x]) BY <1>2 DEF IsScore
  <2>2. PICK x \in seen : \A y \in seen : ~Greater(f[y], f[x])
    <3> HIDE DEF f
    <3> QED BY <1>1, <1>2, <2>1, BestOf
  <2>3. \A y \in seen : f[y].sum = y.score /\ f[y].n = 1 /\ y.score \in Nat BY <1>2
  <2> HIDE DEF seen, f
  <2>4. \A y \in seen : ~(y.score * 1 > x.score * 1) BY <2>2, <2>3 DEF Greater
  <2>5. \A y \in seen : y.score <= x.score BY <2>3, <2>4
  <2> QED BY <2>5
<1> HIDE DEF seen
<1>6. sum \in Nat /\ low.score * n <= sum /\ sum <= high.score * n
  <2>1. low.score \in Nat /\ high.score \in Nat BY <1>2
  <2>2. \A x \in seen : x.score \in low.score..high.score BY <1>2, <1>4, <1>5
  <2> QED BY <1>2, <2>1, <2>2, SumBounds
<1> HIDE DEF sum, n
<1>7. high.score * n >= sum BY <1>2, <1>3, <1>6
<1> QED BY <1>1, <1>3, <1>6, <1>7 DEF Averages, IsScore, seen

\* The points of a type and a region, and a region's score
Series(points, t, region) == {x \in points : x.type = t /\ x.region = region}

LEMMA RegionScoreAverages ==
  ASSUME NEW points, IsFiniteSet(points), \A x \in points : x.score \in Nat,
         NEW types, IsFiniteSet(types), NEW noPool, NEW region, NEW at,
         RegionScore(points, noPool, types, region, at) # Null
  PROVE \E t \in types :
          Averages(RegionScore(points, noPool, types, region, at),
                   Recent(Series(points, t, region), at))
<1> DEFINE avg(t) == Avg48h(Series(points, t, region), at)
           open == {t \in types : <<t, region>> \notin noPool}
           scores == {avg(t) : t \in open} \ {Null}
<1>1. RegionScore(points, noPool, types, region, at) = Greatest(scores)
  BY DEF RegionScore, Series
<1>2. \A t \in types : avg(t) # Null => Averages(avg(t), Recent(Series(points, t, region), at))
  <2> SUFFICES ASSUME NEW t \in types, avg(t) # Null
               PROVE Averages(avg(t), Recent(Series(points, t, region), at))
    OBVIOUS
  <2> DEFINE series == Series(points, t, region)
  <2>1. IsFiniteSet(series) /\ \A x \in series : x.score \in Nat BY FS_Subset DEF Series
  <2> HIDE DEF series
  <2> QED BY <2>1, AverageOfRecent DEF series
<1>3. Greatest(scores) # Null => Greatest(scores) \in scores
  <2>1. CASE scores = {} BY <2>1 DEF Greatest
  <2>2. CASE scores # {}
    <3> DEFINE rated == {t \in open : avg(t) # Null}
               f == [t \in rated |-> avg(t)]
    <3>1. IsFiniteSet(rated) BY FS_Subset
    <3>2. \A t \in rated : IsScore(f[t]) BY <1>2 DEF Averages
    <3>3. rated # {} BY <2>2
    <3>4. PICK t \in rated : \A r \in rated : ~Greater(f[r], f[t])
      <4> HIDE DEF rated, f
      <4> QED BY <3>1, <3>2, <3>3, BestOf
    <3>5. avg(t) \in scores /\ \A a \in scores : ~Greater(a, avg(t)) BY <3>4
    <3> HIDE DEF scores, avg, rated, f
    <3> QED BY <2>2, <3>5 DEF Greatest
  <2> QED BY <2>1, <2>2
<1>4. PICK t \in types : avg(t) # Null /\ Greatest(scores) = avg(t) BY <1>1, <1>3
<1> QED BY <1>1, <1>2, <1>4

-----------------------------------------------------------------------------
(* What is gathered *)

\* The points of a table or a feed
ArePoints(points) ==
  IsFiniteSet(points) /\ \A x \in points : x.score \in Nat /\ x.ts \in Nat /\ x.ts <= now

\* A candidate, and what its score stands for
IsGathered(c, data, at) ==
  /\ IsCandidate(c)
  /\ c.source = "feed48h" =>
       data # Null /\ \E t \in Types : Averages(c.score, Recent(Series(data.points, t, c.region), at))

LEMMA GatheredCandidates ==
  ASSUME NEW data, data = Null \/ ArePoints(data.points), NEW short,
         NEW live \in [ToSet(Regions) -> Scores \cup {Null}]
  PROVE LET cands == Candidates(data, short, live) IN
        cands \in Seq(ToSet(cands)) /\ \A i \in DOMAIN cands : IsGathered(cands[i], data, now)
<1> DEFINE stored(r) == IF data = Null THEN Null
                        ELSE RegionScore(data.points, data.noPool, Types, r, now)
           known(r) == IF stored(r) # Null THEN stored(r)
                       ELSE IF live[r] = Null THEN Null ELSE [sum |-> live[r], n |-> 1]
           candidate(r) == [region |-> r, score |-> known(r),
                            source |-> IF stored(r) # Null THEN "feed48h" ELSE "realtime",
                            rtt |-> Rtt[r], price |-> Price[r]]
           out(i) == Regions[i] \in short \/ known(Regions[i]) = Null
           step(f, i) == IF i = 0 THEN <<>> ELSE IF out(i) THEN f[i - 1]
                         ELSE Append(f[i - 1], candidate(Regions[i]))
           N == Len(Regions)
           upTo == CHOOSE f : f = [i \in 0..N |-> step(f, i)]
           C == {candidate(r) : r \in {q \in ToSet(Regions) : known(q) # Null}}
           V == Seq(C)
<1>1. N \in Nat /\ \A i \in 1..N : Regions[i] \in ToSet(Regions)
  BY PipelineAssumption DEF ToSet
<1>2. \A r \in ToSet(Regions) : known(r) # Null => IsGathered(candidate(r), data, now)
  <2> SUFFICES ASSUME NEW r \in ToSet(Regions), known(r) # Null
               PROVE IsGathered(candidate(r), data, now)
    OBVIOUS
  <2>1. Rtt[r] \in Nat /\ Price[r] \in Nat \cup {Null} BY PipelineAssumption
  <2>2. CASE stored(r) # Null
    <3>1. data # Null /\ stored(r) = RegionScore(data.points, data.noPool, Types, r, now) BY <2>2
    <3>2. IsFiniteSet(data.points) /\ \A x \in data.points : x.score \in Nat BY <3>1 DEF ArePoints
    <3>3. IsFiniteSet(Types) BY PipelineAssumption
    <3> HIDE DEF stored
    <3>4. PICK t \in Types : Averages(stored(r), Recent(Series(data.points, t, r), now))
      BY <2>2, <3>1, <3>2, <3>3, RegionScoreAverages
    <3>5. candidate(r).score = stored(r) /\ candidate(r).region = r
          /\ candidate(r).rtt = Rtt[r] /\ candidate(r).price = Price[r]
      BY <2>2
    <3> HIDE DEF candidate, known
    <3> QED BY <2>1, <3>1, <3>4, <3>5 DEF IsGathered, IsCandidate, Averages
  <2>3. CASE stored(r) = Null
    <3>1. live[r] \in Nat BY <2>3, PipelineAssumption
    <3>2. known(r) = [sum |-> live[r], n |-> 1] BY <2>3
    <3>3. IsScore(known(r)) BY <3>1, <3>2 DEF IsScore
    <3>4. candidate(r).score = known(r) /\ candidate(r).source = "realtime"
          /\ candidate(r).rtt = Rtt[r] /\ candidate(r).price = Price[r]
      BY <2>3
    <3> HIDE DEF candidate, known
    <3> QED BY <2>1, <3>3, <3>4 DEF IsGathered, IsCandidate
  <2> QED BY <2>2, <2>3
<1>3. \A i \in 1..N, v \in V : ~out(i) => Append(v, candidate(Regions[i])) \in V
  <2> SUFFICES ASSUME NEW i \in 1..N, NEW v \in V, ~out(i)
               PROVE Append(v, candidate(Regions[i])) \in V
    OBVIOUS
  <2>1. candidate(Regions[i]) \in C BY <1>1
  <2> HIDE DEF candidate, C
  <2> QED BY <2>1
<1>4. <<>> \in V OBVIOUS
<1> HIDE DEF V, C, candidate, known, N, out
<1>5. upTo = [i \in 0..N |-> step(upTo, i)]
  <2> DEFINE next(i, v) == IF out(i) THEN v ELSE Append(v, candidate(Regions[i]))
             H == [i \in 1..N |-> [v \in V |-> next(i, v)]]
  <2>1. H \in [1..N -> [V -> V]] BY <1>3
  <2>2. PICK f : f \in Runs(N, V, <<>>, H)
    <3> HIDE DEF H
    <3> QED BY <1>1, <1>4, <2>1, Iteration
  <2>3. f \in [0..N -> V] /\ f[0] = <<>> /\ \A i \in 1..N : f[i] = H[i][f[i - 1]]
    BY <2>2 DEF Runs
  <2>4. \A i \in 1..N : f[i - 1] \in V /\ H[i][f[i - 1]] = next(i, f[i - 1]) BY <1>1, <2>3
  <2>5. \A i \in 0..N : f[i] = step(f, i)
    <3> HIDE DEF H
    <3> TAKE i \in 0..N
    <3>1. i # 0 => i \in 1..N BY <1>1
    <3> QED BY <2>3, <2>4, <3>1
  <2> HIDE DEF step, H
  <2>6. f = [i \in 0..N |-> step(f, i)] BY <2>3, <2>5
  <2> QED BY <2>6
<1>6. Candidates(data, short, live) = upTo[N]
  BY DEF Candidates, candidate, known, N, out
<1> HIDE DEF upTo
<1>7. upTo[N] \in V
  <2> DEFINE P == {i \in 0..N : upTo[i] \in V}
  <2>1. 0 \in P BY <1>1, <1>4, <1>5
  <2>2. \A i \in 1..N : i - 1 \in P => i \in P
    <3> SUFFICES ASSUME NEW i \in 1..N, upTo[i - 1] \in V PROVE upTo[i] \in V OBVIOUS
    <3>1. upTo[i] = step(upTo, i)
      <4> HIDE DEF step
      <4>1. i \in 0..N BY <1>1
      <4> QED BY <1>5, <4>1
    <3> QED BY <1>1, <1>3, <3>1
  <2> HIDE DEF P
  <2>3. N \in P BY <1>1, <2>1, <2>2, UpTo
  <2> QED BY <2>3 DEF P
<1>8. \A c \in C : IsGathered(c, data, now) BY <1>2 DEF C
<1> DEFINE cands == upTo[N]
<1>9. cands \in Seq(C) BY <1>7 DEF V
<1> HIDE DEF cands
<1>10. cands \in Seq(ToSet(cands)) BY <1>9 DEF ToSet
<1>11. \A i \in DOMAIN cands : cands[i] \in C BY <1>9
<1> QED BY <1>6, <1>8, <1>10, <1>11 DEF cands

-----------------------------------------------------------------------------
(* Batches *)

LEMMA Quotient == ASSUME NEW a \in Nat, NEW b \in Nat \ {0}
                  PROVE a \div b \in Nat /\ b * (a \div b) <= a /\ a < b * (a \div b) + b
OBVIOUS

\* The elements of a sequence from place a to place b
LEMMA Slice ==
  ASSUME NEW S, NEW s \in Seq(S), NEW a \in 1..(Len(s) + 1), NEW b \in 0..Len(s)
  PROVE /\ ToSet(SubSeq(s, a, b)) \subseteq ToSet(s)
        /\ \A k \in a..b : s[k] \in ToSet(SubSeq(s, a, b))
<1> DEFINE r == SubSeq(s, a, b)
<1>1. Len(s) \in Nat /\ DOMAIN s = 1..Len(s) OBVIOUS
<1>2. CASE a <= b
  <2>1. DOMAIN r = 1..(b - a + 1) /\ \A i \in 1..(b - a + 1) : r[i] = s[a + i - 1]
    BY <1>1, <1>2
  <2> HIDE DEF r
  <2>2. ToSet(r) \subseteq ToSet(s)
    <3> SUFFICES ASSUME NEW i \in 1..(b - a + 1) PROVE r[i] \in ToSet(s) BY <2>1 DEF ToSet
    <3>1. a + i - 1 \in DOMAIN s BY <1>1, <1>2
    <3> QED BY <2>1, <3>1 DEF ToSet
  <2>3. ASSUME NEW k \in a..b PROVE s[k] \in ToSet(r)
    <3> DEFINE i == k - a + 1
    <3>1. i \in 1..(b - a + 1) /\ a + i - 1 = k BY <1>1
    <3> HIDE DEF i
    <3> QED BY <2>1, <3>1 DEF ToSet
  <2> QED BY <2>2, <2>3 DEF r
<1>3. CASE a > b
  <2>1. DOMAIN r = {} BY <1>1, <1>3
  <2>2. ToSet(r) = {} BY <2>1 DEF ToSet
  <2> QED BY <1>1, <1>3, <2>2
<1> QED BY <1>1, <1>2, <1>3

\* Every item is in a batch.
LEMMA BatchesCover ==
  ASSUME NEW S, NEW items \in Seq(S), items # <<>>
  PROVE /\ Batches(items) \in Seq(SUBSET ToSet(items)) /\ Batches(items) # <<>>
        /\ \A x \in ToSet(items) : \E i \in DOMAIN Batches(items) : x \in Batches(items)[i]
<1> DEFINE B == BatchSize
           L == Len(items)
           M == (L + B - 1) \div B
           last(i) == IF i * B < L THEN i * B ELSE L
           batch(i) == ToSet(SubSeq(items, (i - 1) * B + 1, last(i)))
<1>1. B \in Nat \ {0} BY PipelineAssumption
<1>2. L \in Nat /\ L # 0 /\ DOMAIN items = 1..L OBVIOUS
<1>3. M \in Nat /\ B * M <= L + B - 1 /\ L + B - 1 < B * M + B
  <2> DEFINE a == L + B - 1
  <2>1. a \in Nat BY <1>1, <1>2
  <2> HIDE DEF a, B
  <2> QED BY <1>1, <2>1, Quotient DEF a
<1>4. Batches(items) = [i \in 1..M |-> batch(i)] BY DEF Batches
<1> HIDE DEF B, L, M
<1>5. \A i \in 1..M : (i - 1) * B + 1 \in 1..(L + 1) /\ last(i) \in 0..L
  <2> SUFFICES ASSUME NEW i \in 1..M PROVE (i - 1) * B + 1 \in 1..(L + 1) /\ last(i) \in 0..L
    OBVIOUS
  <2>1. i \in Nat /\ i <= M /\ i >= 1 BY <1>3
  <2>2. B * i <= B * M BY <1>1, <1>3, <2>1, Scale
  <2>3. (i - 1) * B = B * i - B /\ i * B = B * i /\ B * i \in Nat /\ (i - 1) * B \in Nat
    BY <1>1, <2>1
  <2> HIDE DEF last
  <2>4. (i - 1) * B <= L BY <1>1, <1>2, <1>3, <2>2, <2>3
  <2> QED BY <1>2, <2>3, <2>4 DEF last
<1> DEFINE X == ToSet(items)
<1>6. \A i \in 1..M : batch(i) \subseteq X
  <2> SUFFICES ASSUME NEW i \in 1..M PROVE batch(i) \subseteq X OBVIOUS
  <2> DEFINE a == (i - 1) * B + 1
             b == last(i)
  <2>1. a \in 1..(Len(items) + 1) /\ b \in 0..Len(items) BY <1>5 DEF L
  <2> HIDE DEF a, b
  <2>2. ToSet(SubSeq(items, a, b)) \subseteq X BY <2>1, Slice
  <2> QED BY <2>2 DEF a, b
<1>7. ASSUME NEW x \in X PROVE \E i \in 1..M : x \in batch(i)
  <2>1. PICK k \in 1..L : x = items[k] BY <1>2 DEF ToSet
  <2> DEFINE q == (k - 1) \div B
             i == q + 1
             a == (i - 1) * B + 1
             b == last(i)
  <2>2. q \in Nat /\ B * q <= k - 1 /\ k - 1 < B * q + B
    <3> DEFINE c == k - 1
    <3>1. c \in Nat BY <1>2
    <3> HIDE DEF c
    <3> QED BY <1>1, <3>1, Quotient DEF c
  <2> HIDE DEF q
  <2>3. B * q < B * M BY <1>1, <1>2, <1>3, <2>2
  <2>4. q < M BY <1>1, <1>3, <2>2, <2>3, Scale
  <2>5. i \in 1..M BY <1>3, <2>2, <2>4
  <2>6. (i - 1) * B = B * q /\ i * B = B * q + B BY <1>1, <2>2
  <2>7. B * q \in Nat BY <1>1, <2>2
  <2> HIDE DEF i
  <2>8. k \in a..b BY <1>1, <1>2, <2>2, <2>6, <2>7
  <2>9. a \in 1..(Len(items) + 1) /\ b \in 0..Len(items) BY <1>5, <2>5 DEF L
  <2> HIDE DEF a, b
  <2>10. items[k] \in ToSet(SubSeq(items, a, b)) BY <2>8, <2>9, Slice
  <2> QED BY <2>1, <2>5, <2>10 DEF a, b
<1> HIDE DEF batch, X
<1>8. M # 0 BY <1>1, <1>2, <1>3
<1> DEFINE all == [i \in 1..M |-> batch(i)]
<1>9. all \in Seq(SUBSET X) /\ Len(all) = M BY <1>3, <1>6
<1>10. all # <<>> BY <1>3, <1>8, <1>9
<1>11. \A x \in X : \E i \in DOMAIN all : x \in all[i] BY <1>7
<1> HIDE DEF all
<1> QED BY <1>4, <1>9, <1>10, <1>11 DEF all, X

LEMMA HeadOrTail ==
  ASSUME NEW X, NEW all \in Seq(SUBSET X), all # <<>>
  PROVE /\ Head(all) \subseteq X /\ Tail(all) \in Seq(SUBSET X)
        /\ \A x \in X : (\E i \in DOMAIN all : x \in all[i])
             => x \in Head(all) \/ \E i \in DOMAIN Tail(all) : x \in Tail(all)[i]
<1>1. Len(all) \in Nat \ {0} /\ DOMAIN all = 1..Len(all) /\ Head(all) = all[1]
  OBVIOUS
<1>2. /\ Tail(all) \in Seq(SUBSET X) /\ DOMAIN Tail(all) = 1..(Len(all) - 1)
      /\ \A i \in 1..(Len(all) - 1) : Tail(all)[i] = all[i + 1]
  BY <1>1
<1>3. ASSUME NEW x \in X, x \notin Head(all), NEW j \in DOMAIN all, x \in all[j]
      PROVE \E i \in DOMAIN Tail(all) : x \in Tail(all)[i]
  <2>1. j # 1 BY <1>1, <1>3
  <2> DEFINE i == j - 1
  <2>2. i \in 1..(Len(all) - 1) /\ i + 1 = j BY <1>1, <2>1
  <2> HIDE DEF i
  <2> QED BY <1>2, <1>3, <2>2
<1> QED BY <1>1, <1>2, <1>3

LEMMA FinitePools == IsFiniteSet(Pools)
<1>1. \A s : s \in Seq(ToSet(s)) => IsFiniteSet(ToSet(s))
  <2> SUFFICES ASSUME NEW s, s \in Seq(ToSet(s)) PROVE IsFiniteSet(ToSet(s)) OBVIOUS
  <2>1. Len(s) \in Nat /\ DOMAIN s = 1..Len(s) OBVIOUS
  <2>2. s \in Surjection(1..Len(s), ToSet(s)) BY <2>1 DEF Surjection, ToSet
  <2>3. IsFiniteSet(1..Len(s)) BY <2>1, FS_Interval
  <2> QED BY <2>2, <2>3, FS_Surjection
<1>2. IsFiniteSet(ToSet(Collected)) /\ IsFiniteSet(ToSet(Regions)) BY <1>1, PipelineAssumption
<1>3. IsFiniteSet(ToSet(Collected) \X ToSet(Regions)) BY <1>2, FS_Product
<1> QED BY <1>3, FS_Subset, PipelineAssumption

-----------------------------------------------------------------------------
(* The inductive invariant *)

Point == [type : ToSet(Collected), region : ToSet(Regions), ts : Nat, score : Nat]

IsCollector(c) ==
  /\ c \in [pc : {"off", "writing"}, ts : Int, items : SUBSET Point, todo : Seq(SUBSET Point),
            request : SUBSET Point, attempt : {0, 1}, refusals : UNION {[s -> Nat] : s \in SUBSET Point}]
  /\ c.request \subseteq c.items /\ c.todo \in Seq(SUBSET c.items)
  /\ c.refusals \in [c.items -> Nat]

\* Points are of the past, those of a scan and of the feed are in the table, and an
\* invocation has finitely many.
PointsOK ==
  /\ now \in Nat /\ IsFiniteSet(coll.items) /\ IsFiniteSet(table) /\ table \subseteq Point
  /\ \A x \in table \cup coll.items : x.ts <= now
  /\ scan = Null \/ scan \subseteq table
  /\ feed = Null \/ feed.points \subseteq table

\* While an invocation writes, an item that is not in the table and was not refused
\* twice is still to be sent; what is sent once more was refused before.
WriteOK ==
  /\ \A x \in coll.items :
       \/ x \in table \/ coll.refusals[x] >= 2
       \/ coll.pc = "writing" /\ (x \in coll.request \/ \E i \in DOMAIN coll.todo : x \in coll.todo[i])
  /\ coll.attempt = 1 => \A x \in coll.request : coll.refusals[x] >= 1

CandsOK ==
  /\ cli.cands \in Seq(ToSet(cli.cands))
  /\ \A i \in DOMAIN cli.cands : IsCandidate(cli.cands[i])
  /\ ScoreFresh

Inv == IsCollector(coll) /\ PointsOK /\ WriteOK /\ CandsOK

LEMMA Start == Init => Inv
<1> SUFFICES ASSUME Init PROVE Inv OBVIOUS
<1>1. <<>> \in [{} -> Nat] /\ <<>> \in Seq(SUBSET Point) OBVIOUS
<1>2. /\ coll.pc = "off" /\ coll.ts = -1 /\ coll.items = {} /\ coll.todo = <<>>
      /\ coll.request = {} /\ coll.attempt = 0 /\ coll.refusals = <<>> /\ table = {}
      /\ scan = Null /\ feed = Null
  BY DEF Init
<1>3. IsCollector(coll)
  <2> DEFINE R == UNION {[s -> Nat] : s \in SUBSET Point}
  <2>1. <<>> \in R BY <1>1
  <2> HIDE DEF R
  <2>2. coll \in [pc : {"off", "writing"}, ts : Int, items : SUBSET Point, todo : Seq(SUBSET Point),
                  request : SUBSET Point, attempt : {0, 1}, refusals : R]
    BY <1>1, <2>1 DEF Init
  <2> QED BY <1>1, <1>2, <2>2 DEF IsCollector, R
<1>4. PointsOK BY <1>2, PipelineAssumption, FS_EmptySet DEF PointsOK, Init
<1>5. WriteOK BY <1>2 DEF WriteOK
<1>6. CandsOK
  <2>1. CASE cli = NoResult
    <3>1. cli.cands = <<>> BY <2>1 DEF NoResult
    <3> QED BY <3>1 DEF CandsOK, ScoreFresh
  <2>2. CASE cli.cands \in Lists
    <3>1. /\ cli.cands \in Seq(ToSet(cli.cands))
          /\ \A i \in DOMAIN cli.cands : IsCandidate(cli.cands[i]) /\ cli.cands[i].source = "realtime"
      BY <2>2, PipelineAssumption
    <3> QED BY <3>1 DEF CandsOK, ScoreFresh
  <2> QED BY <2>1, <2>2 DEF Init
<1> QED BY <1>3, <1>4, <1>5, <1>6 DEF Inv

\* Nothing is forgotten when the table grows and the time goes on.
LEMMA ScoresStay ==
  ASSUME ScoreFresh, cli' = cli, table \subseteq table'
  PROVE ScoreFresh'
BY DEF ScoreFresh

LEMMA InvokeKeeps == ASSUME Inv, Invoke PROVE Inv'
<1> USE DEF Inv
<1>1. PICK failed \in SUBSET ToSet(Collected) :
        \E answers \in [{x \in Pools : x[1] \notin failed} -> Scores] :
          \E items \in Listings(Points(answers)) :
            coll' = IF items = <<>> THEN [coll EXCEPT !.ts = now]
                    ELSE [pc |-> "writing", ts |-> now, items |-> ToSet(items),
                          todo |-> Tail(Batches(items)), request |-> Head(Batches(items)),
                          attempt |-> 0, refusals |-> [x \in ToSet(items) |-> 0]]
  BY DEF Invoke
<1>2. PICK answers \in [{x \in Pools : x[1] \notin failed} -> Scores] :
        \E items \in Listings(Points(answers)) :
            coll' = IF items = <<>> THEN [coll EXCEPT !.ts = now]
                    ELSE [pc |-> "writing", ts |-> now, items |-> ToSet(items),
                          todo |-> Tail(Batches(items)), request |-> Head(Batches(items)),
                          attempt |-> 0, refusals |-> [x \in ToSet(items) |-> 0]]
  BY <1>1
<1>3. PICK items \in Listings(Points(answers)) :
            coll' = IF items = <<>> THEN [coll EXCEPT !.ts = now]
                    ELSE [pc |-> "writing", ts |-> now, items |-> ToSet(items),
                          todo |-> Tail(Batches(items)), request |-> Head(Batches(items)),
                          attempt |-> 0, refusals |-> [x \in ToSet(items) |-> 0]]
  BY <1>2
<1>4. now \in Nat /\ UNCHANGED <<now, table, scan, feed, cli>> /\ coll.pc = "off"
  BY DEF PointsOK, Invoke
<1>5. CandsOK' BY <1>4, ScoresStay DEF CandsOK
<1>6. CASE items = <<>>
  <2>1. coll' = [coll EXCEPT !.ts = now] BY <1>3, <1>6
  <2> DEFINE R == UNION {[s -> Nat] : s \in SUBSET Point}
  <2>2. coll \in [pc : {"off", "writing"}, ts : Int, items : SUBSET Point, todo : Seq(SUBSET Point),
                  request : SUBSET Point, attempt : {0, 1}, refusals : R]
    BY DEF IsCollector
  <2> HIDE DEF R
  <2>3. /\ coll'.pc = coll.pc /\ coll'.items = coll.items /\ coll'.todo = coll.todo
        /\ coll'.request = coll.request /\ coll'.attempt = coll.attempt
        /\ coll'.refusals = coll.refusals
        /\ coll' \in [pc : {"off", "writing"}, ts : Int, items : SUBSET Point, todo : Seq(SUBSET Point),
                      request : SUBSET Point, attempt : {0, 1}, refusals : R]
    BY <1>4, <2>1, <2>2
  <2>6. IsCollector(coll') BY <2>3 DEF IsCollector, R
  <2>4. PointsOK' BY <1>4, <2>3 DEF PointsOK
  <2>5. WriteOK' BY <1>4, <2>3 DEF WriteOK
  <2> QED BY <1>5, <2>4, <2>5, <2>6
<1>7. CASE items # <<>>
  <2> DEFINE points == Points(answers)
             X == ToSet(items)
             all == Batches(items)
             zero == [x \in X |-> 0]
  <2>1. coll' = [pc |-> "writing", ts |-> now, items |-> X, todo |-> Tail(all),
                 request |-> Head(all), attempt |-> 0, refusals |-> zero]
    BY <1>3, <1>7
  <2>2. IsFiniteSet(points) /\ points \subseteq Point /\ \A x \in points : x.ts = now
    <3>1. IsFiniteSet(Pools) BY FinitePools
    <3>2. IsFiniteSet({x \in Pools : x[1] \notin failed}) BY <3>1, FS_Subset
    <3> DEFINE D == {x \in Pools : x[1] \notin failed}
               point(x) == [type |-> x[1], region |-> x[2], ts |-> now, score |-> answers[x]]
               f == [x \in D |-> point(x)]
    <3>3. points = {f[x] : x \in D} BY DEF Points
    <3>4. f \in Surjection(D, points) BY <3>3 DEF Surjection
    <3>5. IsFiniteSet(points)
      <4> HIDE DEF f, D, points
      <4> QED BY <3>2, <3>4, FS_Surjection DEF D
    <3>6. \A x \in D : point(x) \in Point /\ point(x).ts = now
      BY <1>4, PipelineAssumption DEF Point
    <3>7. \A y \in points : \E x \in D : y = point(x) BY <3>3
    <3> HIDE DEF points, D, point
    <3> QED BY <3>5, <3>6, <3>7
  <2> HIDE DEF points
  <2>3. items \in Seq(points)
    <3>1. Cardinality(points) \in Nat BY <2>2, FS_CardinalityType
    <3>2. items \in [1..Cardinality(points) -> points] BY DEF Listings, points
    <3> QED BY <3>1, <3>2
  <2>4. X \subseteq points BY <2>3 DEF ToSet
  <2>5. IsFiniteSet(X) BY <2>2, <2>4, FS_Subset
  <2>6. /\ all \in Seq(SUBSET X) /\ all # <<>>
        /\ \A x \in X : \E i \in DOMAIN all : x \in all[i]
    BY <1>7, <2>3, BatchesCover
  <2> HIDE DEF X, all
  <2>7. /\ Head(all) \subseteq X /\ Tail(all) \in Seq(SUBSET X)
        /\ \A x \in X : x \in Head(all) \/ \E i \in DOMAIN Tail(all) : x \in Tail(all)[i]
    BY <2>6, HeadOrTail
  <2>8. zero \in [X -> Nat] OBVIOUS
  <2>9. X \subseteq Point BY <2>2, <2>4
  <2> HIDE DEF zero
  <2>10. IsCollector(coll')
    <3>1. Tail(all) \in Seq(SUBSET Point) BY <2>7, <2>9
    <3> DEFINE R == UNION {[s -> Nat] : s \in SUBSET Point}
    <3>2. zero \in R BY <2>8, <2>9
    <3> HIDE DEF R
    <3>3. coll' \in [pc : {"off", "writing"}, ts : Int, items : SUBSET Point,
                     todo : Seq(SUBSET Point), request : SUBSET Point, attempt : {0, 1}, refusals : R]
      BY <1>4, <2>1, <2>7, <2>9, <3>1, <3>2
    <3> QED BY <2>1, <2>7, <2>8, <3>3 DEF IsCollector, R
  <2>11. /\ coll'.pc = "writing" /\ coll'.items = X /\ coll'.todo = Tail(all)
         /\ coll'.request = Head(all) /\ coll'.attempt = 0
    BY <2>1
  <2>12. PointsOK' BY <1>4, <2>2, <2>4, <2>5, <2>11 DEF PointsOK
  <2>13. WriteOK' BY <2>7, <2>11 DEF WriteOK
  <2> QED BY <1>5, <2>10, <2>12, <2>13
<1> QED BY <1>6, <1>7

\* The three ways on after a write: what was refused once more, the next batch, the end
LEMMA WriteBatchKeeps == ASSUME Inv, WriteBatch PROVE Inv'
<1> USE DEF Inv
<1> DEFINE told(refused) ==
      [coll EXCEPT !.refusals = [x \in coll.items |-> @[x] + IF x \in refused THEN 1 ELSE 0]]
<1>1. PICK refused \in SUBSET coll.request :
        /\ table' = table \cup (coll.request \ refused)
        /\ coll' = IF refused # {} /\ coll.attempt + 1 < Attempts
                   THEN [told(refused) EXCEPT !.request = refused, !.attempt = @ + 1]
                   ELSE IF coll.todo # <<>>
                   THEN [told(refused) EXCEPT !.request = Head(coll.todo), !.todo = Tail(@), !.attempt = 0]
                   ELSE [told(refused) EXCEPT !.pc = "off", !.request = {}, !.attempt = 0]
  BY DEF WriteBatch
<1> DEFINE R == UNION {[s -> Nat] : s \in SUBSET Point}
           counts == [x \in coll.items |-> coll.refusals[x] + IF x \in refused THEN 1 ELSE 0]
<1>2. coll.pc = "writing" /\ UNCHANGED <<now, scan, feed, cli>> BY DEF WriteBatch
<1>3. /\ coll \in [pc : {"off", "writing"}, ts : Int, items : SUBSET Point, todo : Seq(SUBSET Point),
                   request : SUBSET Point, attempt : {0, 1}, refusals : R]
      /\ coll.request \subseteq coll.items /\ coll.refusals \in [coll.items -> Nat]
      /\ coll.items \subseteq Point /\ coll.todo \in Seq(SUBSET coll.items)
  BY DEF IsCollector
<1>4. counts \in [coll.items -> Nat] /\ counts \in R
  <2>1. counts \in [coll.items -> Nat] BY <1>3
  <2> HIDE DEF counts
  <2> QED BY <1>3, <2>1
<1>5. \A x \in coll.items : /\ counts[x] >= coll.refusals[x]
                            /\ x \in refused => counts[x] = coll.refusals[x] + 1
                            /\ coll.refusals[x] \in Nat /\ counts[x] \in Nat
  BY <1>3
<1>6. told(refused) = [coll EXCEPT !.refusals = counts] OBVIOUS
<1> HIDE DEF R, counts, told
<1>7. /\ table \subseteq table' /\ IsFiniteSet(table') /\ table' \subseteq Point
      /\ table' \subseteq table \cup coll.items
  <2>1. IsFiniteSet(coll.items) /\ IsFiniteSet(table) /\ table \subseteq Point BY DEF PointsOK
  <2>2. IsFiniteSet(coll.request \ refused) BY <1>3, <2>1, FS_Subset
  <2>3. IsFiniteSet(table \cup (coll.request \ refused)) BY <2>1, <2>2, FS_Union
  <2> QED BY <1>1, <1>3, <2>1, <2>3
<1>8. CandsOK' BY <1>2, <1>7, ScoresStay DEF CandsOK
<1>9. coll'.items = coll.items => PointsOK' BY <1>2, <1>7 DEF PointsOK
<1>10. \A x \in coll.request : x \in table' \/ x \in refused BY <1>1
<1>11. CASE refused # {} /\ coll.attempt + 1 < Attempts
  <2>1. coll.attempt = 0 BY <1>3, <1>11 DEF Attempts
  <2>2. coll' = [coll EXCEPT !.refusals = counts, !.request = refused, !.attempt = 1]
    <3> DEFINE c == told(refused)
    <3>1. coll' = [c EXCEPT !.request = refused, !.attempt = @ + 1] BY <1>1, <1>11
    <3>2. c = [coll EXCEPT !.refusals = counts] BY <1>6
    <3> HIDE DEF c
    <3>3. c.attempt = 0 BY <1>3, <2>1, <3>2
    <3>4. coll' = [c EXCEPT !.request = refused, !.attempt = 1] BY <3>1, <3>3
    <3> QED BY <3>2, <3>4
  <2>3. /\ coll'.items = coll.items /\ coll'.request = refused /\ coll'.attempt = 1
        /\ coll'.refusals = counts /\ coll'.pc = coll.pc /\ coll'.todo = coll.todo
    BY <1>3, <2>2
  <2>4. IsCollector(coll')
    <3>1. coll' \in [pc : {"off", "writing"}, ts : Int, items : SUBSET Point, todo : Seq(SUBSET Point),
                     request : SUBSET Point, attempt : {0, 1}, refusals : R]
      BY <1>3, <1>4, <2>2
    <3> QED BY <1>3, <1>4, <2>3, <3>1 DEF IsCollector, R
  <2>5. WriteOK' BY <1>2, <1>3, <1>5, <1>7, <1>10, <2>3 DEF WriteOK
  <2> QED BY <1>8, <1>9, <2>3, <2>4, <2>5
\* Nothing is refused, or it is for the second time.
<1>12. CASE ~(refused # {} /\ coll.attempt + 1 < Attempts)
  <2>1. \A x \in coll.request : x \in table' \/ counts[x] >= 2
    <3> SUFFICES ASSUME NEW x \in coll.request, x \in refused PROVE counts[x] >= 2 BY <1>10
    <3>1. coll.attempt = 1 BY <1>3, <1>12 DEF Attempts
    <3>2. coll.refusals[x] >= 1 BY <3>1 DEF WriteOK
    <3> QED BY <1>3, <1>5, <3>2
  <2>2. CASE coll.todo # <<>>
    <3>1. coll' = [coll EXCEPT !.refusals = counts, !.request = Head(coll.todo),
                               !.todo = Tail(coll.todo), !.attempt = 0]
      BY <1>1, <1>3, <1>6, <1>12, <2>2
    <3>2. /\ coll'.items = coll.items /\ coll'.request = Head(coll.todo) /\ coll'.attempt = 0
          /\ coll'.refusals = counts /\ coll'.pc = coll.pc /\ coll'.todo = Tail(coll.todo)
      BY <1>3, <3>1
    <3>3. /\ Head(coll.todo) \subseteq coll.items /\ Tail(coll.todo) \in Seq(SUBSET coll.items)
          /\ \A x \in coll.items : (\E i \in DOMAIN coll.todo : x \in coll.todo[i])
               => x \in Head(coll.todo) \/ \E i \in DOMAIN Tail(coll.todo) : x \in Tail(coll.todo)[i]
      BY <1>3, <2>2, HeadOrTail
    <3>4. IsCollector(coll')
      <4>1. Tail(coll.todo) \in Seq(SUBSET Point) BY <1>3, <3>3
      <4>2. coll' \in [pc : {"off", "writing"}, ts : Int, items : SUBSET Point,
                       todo : Seq(SUBSET Point), request : SUBSET Point, attempt : {0, 1}, refusals : R]
        BY <1>3, <1>4, <3>1, <3>3, <4>1
      <4> QED BY <1>4, <3>2, <3>3, <4>2 DEF IsCollector, R
    <3>5. WriteOK'
      <4> SUFFICES ASSUME NEW x \in coll.items
                   PROVE \/ x \in table' \/ counts[x] >= 2 \/ x \in Head(coll.todo)
                         \/ \E i \in DOMAIN Tail(coll.todo) : x \in Tail(coll.todo)[i]
        BY <1>2, <3>2 DEF WriteOK
      <4>1. \/ x \in table \/ coll.refusals[x] >= 2
            \/ x \in coll.request \/ \E i \in DOMAIN coll.todo : x \in coll.todo[i]
        BY DEF WriteOK
      <4> QED BY <1>5, <1>7, <2>1, <3>3, <4>1
    <3> QED BY <1>8, <1>9, <3>2, <3>4, <3>5
  <2>3. CASE coll.todo = <<>>
    <3>1. coll' = [coll EXCEPT !.refusals = counts, !.pc = "off", !.request = {}, !.attempt = 0]
      BY <1>1, <1>3, <1>6, <1>12, <2>3
    <3>2. /\ coll'.items = coll.items /\ coll'.request = {} /\ coll'.attempt = 0
          /\ coll'.refusals = counts /\ coll'.pc = "off" /\ coll'.todo = coll.todo
      BY <1>3, <3>1
    <3>3. IsCollector(coll')
      <4>1. coll' \in [pc : {"off", "writing"}, ts : Int, items : SUBSET Point,
                       todo : Seq(SUBSET Point), request : SUBSET Point, attempt : {0, 1}, refusals : R]
        BY <1>3, <1>4, <3>1
      <4> QED BY <1>4, <3>2, <4>1 DEF IsCollector, R
    <3>4. \A x \in coll.items : x \in table' \/ counts[x] >= 2
      <4> SUFFICES ASSUME NEW x \in coll.items PROVE x \in table' \/ counts[x] >= 2 OBVIOUS
      <4>1. x \in table \/ coll.refusals[x] >= 2 \/ x \in coll.request BY <2>3 DEF WriteOK
      <4> QED BY <1>5, <1>7, <2>1, <4>1
    <3>5. WriteOK' BY <3>2, <3>4 DEF WriteOK
    <3> QED BY <1>8, <1>9, <3>2, <3>3, <3>5
  <2> QED BY <2>2, <2>3
<1> QED BY <1>11, <1>12

LEMMA CollectorDiesKeeps == ASSUME Inv, CollectorDies PROVE Inv'
<1> USE DEF Inv
<1> DEFINE R == UNION {[s -> Nat] : s \in SUBSET Point}
<1>1. UNCHANGED <<now, table, scan, feed, cli>> BY DEF CollectorDies
<1>2. coll' = [coll EXCEPT !.pc = "off", !.request = {}, !.todo = <<>>, !.items = {}, !.attempt = 0,
                           !.refusals = <<>>]
  BY DEF CollectorDies
<1>3. coll \in [pc : {"off", "writing"}, ts : Int, items : SUBSET Point, todo : Seq(SUBSET Point),
                request : SUBSET Point, attempt : {0, 1}, refusals : R]
  BY DEF IsCollector
<1>4. <<>> \in [{} -> Nat] /\ <<>> \in R /\ <<>> \in Seq(SUBSET Point)
  <2>1. <<>> \in [{} -> Nat] /\ <<>> \in Seq(SUBSET Point) OBVIOUS
  <2>2. <<>> \in R BY <2>1
  <2> HIDE DEF R
  <2> QED BY <2>1, <2>2
<1> HIDE DEF R
<1>5. /\ coll'.pc = "off" /\ coll'.request = {} /\ coll'.todo = <<>> /\ coll'.items = {}
      /\ coll'.attempt = 0 /\ coll'.refusals = <<>>
      /\ coll' \in [pc : {"off", "writing"}, ts : Int, items : SUBSET Point, todo : Seq(SUBSET Point),
                    request : SUBSET Point, attempt : {0, 1}, refusals : R]
  BY <1>2, <1>3, <1>4
<1>6. <<>> \in Seq(SUBSET {}) OBVIOUS
<1>7. IsCollector(coll') BY <1>4, <1>5, <1>6 DEF IsCollector, R
<1>8. PointsOK' BY <1>1, <1>5, FS_EmptySet DEF PointsOK
<1>9. WriteOK' BY <1>5 DEF WriteOK
<1>10. CandsOK' BY <1>1, ScoresStay DEF CandsOK
<1> QED BY <1>7, <1>8, <1>9, <1>10

\* The collector, the table and the time stay as they are.
LEMMA OthersKeep ==
  ASSUME Inv, UNCHANGED <<now, table, coll>>,
         scan' \in {scan, Null, table}, feed' = feed \/ feed'.points \subseteq table
  PROVE IsCollector(coll') /\ PointsOK' /\ WriteOK'
BY DEF Inv, PointsOK, WriteOK

\* The points that ScoreFresh looks at
SeenAt(points, t, region, at) ==
  {x \in points : x.type = t /\ x.region = region /\ x.ts \in (at - Window)..at}

LEMMA GatherKeeps == ASSUME Inv, Gather PROVE Inv'
<1> USE DEF Inv
<1>1. UNCHANGED <<now, table, coll, scan, feed>> BY DEF Gather
<1>2. PICK data \in {feed, Null}, short \in SUBSET ToSet(Regions),
           live \in [ToSet(Regions) -> Scores \cup {Null}] :
        LET cands == Candidates(data, short, live) IN
        cli' = [exit |-> IF cands # <<>> THEN "ranked" ELSE IF short # {} THEN "quota" ELSE "noscore",
                at |-> now, cands |-> cands]
  BY DEF Gather
<1> DEFINE cands == Candidates(data, short, live)
<1>3. cli'.at = now /\ cli'.cands = cands BY <1>2
<1>4. data = Null \/ data.points \subseteq table BY DEF PointsOK
<1>5. data = Null \/ ArePoints(data.points)
  <2> SUFFICES ASSUME data.points \subseteq table PROVE ArePoints(data.points) BY <1>4
  <2>1. IsFiniteSet(data.points) BY FS_Subset DEF PointsOK
  <2>2. \A x \in data.points : x \in Point /\ x.ts <= now BY DEF PointsOK
  <2> QED BY <2>1, <2>2 DEF ArePoints, Point
<1>6. cands \in Seq(ToSet(cands)) /\ \A i \in DOMAIN cands : IsGathered(cands[i], data, now)
  BY <1>5, GatheredCandidates
<1> HIDE DEF cands
<1>7. \A i \in DOMAIN cands : IsCandidate(cands[i]) BY <1>6 DEF IsGathered
<1>8. ASSUME NEW i \in DOMAIN cands, cands[i].source = "feed48h"
      PROVE \E t \in Types : Averages(cands[i].score, SeenAt(table, t, cands[i].region, now))
  <2>1. data # Null BY <1>6, <1>8 DEF IsGathered
  <2>2. PICK t \in Types : Averages(cands[i].score, Recent(Series(data.points, t, cands[i].region), now))
    BY <1>6, <1>8 DEF IsGathered
  <2>3. now \in Nat /\ Window \in Nat /\ \A x \in data.points : x \in table /\ x.ts \in Nat /\ x.ts <= now
    BY <1>4, <2>1, WindowAssumption DEF PointsOK, Point
  <2>4. Recent(Series(data.points, t, cands[i].region), now) \subseteq SeenAt(table, t, cands[i].region, now)
    BY <2>3 DEF Recent, Series, SeenAt
  <2> QED BY <2>2, <2>4 DEF Averages
<1>9. ScoreFresh'
  <2> SUFFICES ASSUME NEW i \in DOMAIN cands, cands[i].source = "feed48h"
               PROVE \E t \in Types :
                       LET seen == SeenAt(table, t, cands[i].region, now) IN
                       /\ \E x \in seen : x.score * cands[i].score.n <= cands[i].score.sum
                       /\ \E x \in seen : x.score * cands[i].score.n >= cands[i].score.sum
    BY <1>1, <1>3 DEF ScoreFresh, SeenAt
  <2> QED BY <1>8 DEF Averages
<1>10. CandsOK' BY <1>3, <1>6, <1>7, <1>9 DEF CandsOK
<1> QED BY <1>1, <1>10, OthersKeep

LEMMA StepKeeps == Inv /\ [Next]_vars => Inv'
<1> SUFFICES ASSUME Inv, [Next]_vars PROVE Inv' OBVIOUS
<1>1. CASE Invoke BY <1>1, InvokeKeeps
<1>2. CASE WriteBatch BY <1>2, WriteBatchKeeps
<1>3. CASE CollectorDies BY <1>3, CollectorDiesKeeps
<1>4. CASE BeginScan
  <2>1. UNCHANGED <<now, table, coll, feed, cli>> /\ scan' = table BY <1>4 DEF BeginScan
  <2>2. CandsOK' BY <2>1, ScoresStay DEF CandsOK, Inv
  <2> QED BY <2>1, <2>2, OthersKeep DEF Inv
<1>5. CASE Publish
  <2>1. UNCHANGED <<now, table, coll, cli>> /\ scan # Null /\ scan' = Null BY <1>5 DEF Publish
  <2>2. PICK late \in SUBSET (table \ scan), priced \in Histories :
          feed' = [points |-> scan \cup late, noPool |-> NoPool(priced)]
    BY <1>5 DEF Publish
  <2>3. feed'.points \subseteq table BY <2>1, <2>2 DEF Inv, PointsOK
  <2>4. CandsOK' BY <2>1, ScoresStay DEF CandsOK, Inv
  <2> QED BY <2>1, <2>3, <2>4, OthersKeep DEF Inv
<1>6. CASE Gather BY <1>6, GatherKeeps
<1>7. CASE GatherFails
  <2>1. UNCHANGED <<now, table, coll, scan, feed>> /\ cli'.cands = <<>> BY <1>7 DEF GatherFails, NoResult
  <2>2. CandsOK' BY <2>1 DEF CandsOK, ScoreFresh
  <2> QED BY <2>1, <2>2, OthersKeep DEF Inv
<1>8. CASE Tick
  <2>1. UNCHANGED <<table, coll, scan, feed, cli>> /\ now' = now + 1 BY <1>8 DEF Tick
  <2>2. CandsOK' BY <2>1, ScoresStay DEF CandsOK, Inv
  <2>3. WriteOK' BY <2>1 DEF WriteOK, Inv
  <2>4. PointsOK'
    <3>1. \A x \in table \cup coll.items : x.ts \in Nat /\ x.ts <= now
      BY DEF Inv, PointsOK, IsCollector, Point
    <3>2. \A x \in table \cup coll.items : x.ts <= now + 1 BY <3>1 DEF Inv, PointsOK
    <3> QED BY <2>1, <3>2 DEF PointsOK, Inv
  <2> QED BY <2>1, <2>2, <2>3, <2>4 DEF Inv
<1>9. CASE UNCHANGED vars
  <2>1. UNCHANGED <<now, table, coll, scan, feed, cli>> BY <1>9 DEF vars
  <2>2. CandsOK' BY <2>1, ScoresStay DEF CandsOK, Inv
  <2> QED BY <2>1, <2>2, OthersKeep DEF Inv
<1> QED BY <1>1, <1>2, <1>3, <1>4, <1>5, <1>6, <1>7, <1>8, <1>9 DEF Next

LEMMA Invariant == Spec => []Inv
BY Start, StepKeeps, PTL DEF Spec

-----------------------------------------------------------------------------
(* The theorems *)

\* LostOnlyRefusedTwice, for any order of the items, any size of a batch, and
\* whatever DynamoDB refuses (spot-score-collector-stack.ts:81-106)
THEOREM LostWasRefusedTwice == Spec => []LostOnlyRefusedTwice
<1>1. Inv => LostOnlyRefusedTwice BY DEF Inv, WriteOK, LostOnlyRefusedTwice
<1> QED BY <1>1, Invariant, PTL

\* ScoreFresh, for any collections, feeds and answers of the placement API
\* (feed.ts:17-36)
THEOREM ScoresAreFresh == Spec => []ScoreFresh
<1>1. Inv => ScoreFresh BY DEF Inv, CandsOK
<1> QED BY <1>1, Invariant, PTL

\* RankSound, for any candidates and any positive thresholds (engine.ts:27-45)
THEOREM RankingIsSound == Spec => []RankSound
<1>1. Inv => RankSound
  <2> SUFFICES ASSUME Inv PROVE RankSound OBVIOUS
  <2> DEFINE cands == cli.cands
  <2>1. /\ cands \in Seq(ToSet(cands)) /\ \A i \in DOMAIN cands : IsCandidate(cands[i])
    BY DEF Inv, CandsOK
  <2>2. \A t \in Ties : IsTie(t) BY PipelineAssumption DEF IsTie
  <2> HIDE DEF cands
  <2>3. \A t \in Ties :
          /\ Rank(cands, t) \in Seq(ToSet(cands)) /\ Len(Rank(cands, t)) = Len(cands)
          /\ ToSet(Rank(cands, t)) = ToSet(cands)
          /\ \A i, j \in DOMAIN Rank(cands, t) : i < j => Fair(Rank(cands, t)[i], Rank(cands, t)[j], t)
    BY <2>1, <2>2, RankFair
  <2>4. RankComplete BY <2>3 DEF RankComplete, cands
  <2>5. RankedByScore BY <2>3 DEF RankedByScore, Fair, cands
  <2>6. NoBargainBehind BY <2>3 DEF NoBargainBehind, Fair, cands
  <2> QED BY <2>4, <2>5, <2>6 DEF RankSound
<1> QED BY <1>1, Invariant, PTL
=============================================================================
