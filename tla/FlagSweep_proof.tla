---- MODULE FlagSweep_proof ----
(***************************************************************************)
(* Proofs about FlagSweep and the scores of TradeScores.                   *)
(*                                                                         *)
(* The scores are sums of parts with floors, caps and discounts, so the    *)
(* lemmas bound each part and show that it grows with the cluster; what    *)
(* is left is that every row a sweep writes, and every row it would have   *)
(* written by now, satisfies RowOk.  The sweep reads the rows before it    *)
(* scores and commits them later, so the inductive invariant holds of the  *)
(* rows of the transaction too.                                            *)
(*                                                                         *)
(* At the end, two other parts of the services run.  NewsDesk: a strong    *)
(* link of an article has a case, because the links a transaction holds    *)
(* are written with their cases or not at all.  Supervisor: it leaves no   *)
(* process behind, because those before the one it is stopping have        *)
(* stopped and nothing starts them again.                                  *)
(***************************************************************************)
EXTENDS TradeSignals, FiniteSetTheorems, TLAPS

\* The processes of the supervisor, and its state.
CONSTANTS Children, MaxBackoff, MaxBad

VARIABLES child, backoff, slept, unseen, main, stopping, bad

Super == INSTANCE Supervisor

superVars == <<child, backoff, slept, unseen, main, stopping, bad>>

\* The features of a trade are in their ranges.
LEMMA FeatureBounds ==
  ASSUME NEW e \in Features
  PROVE /\ e.size \in Int /\ 0 <= e.size /\ e.size <= 6000
        /\ e.move \in Int /\ 0 <= e.move /\ e.move <= 6000
        /\ e.jump \in Int /\ 0 <= e.jump /\ e.jump <= 4000
        /\ e.cluster \in Int /\ 0 <= e.cluster /\ e.cluster <= 3000
        /\ e.steady \in BOOLEAN
  BY SMT DEF Features

\* What an amount multiplies: the sum of the weighted features.
Raw(e) == 45 * e.size + 35 * e.move + 15 * e.jump + 20 * ClusterPart(e)

\* Their weighted sum is at most its maximum.
LEMMA RawBounds ==
  ASSUME NEW e \in Features
  PROVE Raw(e) \in Int /\ 0 <= Raw(e) /\ Raw(e) <= 600000
<1>1. ClusterPart(e) \in Int /\ 0 <= ClusterPart(e) /\ ClusterPart(e) <= 3000
  BY FeatureBounds, SMT DEF ClusterPart
<1>2. QED
  BY <1>1, FeatureBounds, SMT DEF Raw

\* The local score is the sum, multiplied and capped.
LEMMA LocalIs ==
  ASSUME NEW d, NEW e
  PROVE LocalScore(d, e) = Least(10000, RoundDiv(Raw(e) * Multiplier(d, e), 4500))
  BY SMT DEF LocalScore, Raw

\* Below 25 dollars the local score stays low, and very low outside a full cluster.
LEMMA SmallLocal ==
  ASSUME NEW d \in Int, 0 <= d, d < 25, NEW e \in Features
  PROVE /\ LocalScore(d, e) \in Int /\ 0 <= LocalScore(d, e) /\ LocalScore(d, e) <= 4667
        /\ e.cluster < 3000 => LocalScore(d, e) <= 667
<1> DEFINE r == Raw(e)
<1>1. r \in Int /\ 0 <= r /\ r <= 600000
  BY RawBounds, SMT
<1>2. e.cluster \in Int /\ e.cluster <= 3000
  BY FeatureBounds, SMT
<1>3. \/ Multiplier(d, e) = 3
      \/ Multiplier(d, e) = 5
      \/ Multiplier(d, e) = 35 /\ e.cluster >= 3000
  BY <1>2, SMT DEF Multiplier, AmountShare, ClusterFloor, Most, Unpriced
<1> HIDE DEF r
<1>4. CASE Multiplier(d, e) = 3
  <2>1. LocalScore(d, e) = Least(10000, RoundDiv(r * 3, 4500))
    BY <1>4, LocalIs, SMT DEF r
  <2>2. QED
    BY <1>1, <2>1, SMT DEF Least, RoundDiv
<1>5. CASE Multiplier(d, e) = 5
  <2>1. LocalScore(d, e) = Least(10000, RoundDiv(r * 5, 4500))
    BY <1>5, LocalIs, SMT DEF r
  <2>2. QED
    BY <1>1, <2>1, SMT DEF Least, RoundDiv
<1>6. CASE Multiplier(d, e) = 35 /\ e.cluster >= 3000
  <2>1. LocalScore(d, e) = Least(10000, RoundDiv(r * 35, 4500))
    BY <1>6, LocalIs, SMT DEF r
  <2>2. QED
    BY <1>1, <1>2, <1>6, <2>1, SMT DEF Least, RoundDiv
<1>7. QED
  BY <1>3, <1>4, <1>5, <1>6, SMT

\* What news adds, and what the sports discount leaves.
LEMMA NewsBounds ==
  ASSUME NEW c
  PROVE /\ NewsTiming(c) \in Int /\ 0 <= NewsTiming(c) /\ NewsTiming(c) <= 2000
        /\ Discount(c) = 65 \/ Discount(c) = 80 \/ Discount(c) = 100
  BY SMT DEF NewsTiming, Discount

\* The parts of a context score are numbers.
LEMMA ContextTypes ==
  ASSUME NEW c \in Contexts
  PROVE /\ c.interest \in Int /\ c.day \in Int /\ c.impact \in Int /\ 0 <= c.impact
        /\ Followthrough(c) \in Int /\ PeerBaseline(c) \in Int /\ CrossMarket(c) \in Int
<1>1. /\ c.interest \in Nat /\ c.day \in Nat /\ c.impact \in Nat
      /\ c.peers \in {0, 700, 1200}
  BY SMT DEF Contexts
<1>2. PeerBaseline(c) \in Int
  BY <1>1, SMT DEF PeerBaseline, Least, Points
<1>3. Followthrough(c) \in Int /\ CrossMarket(c) \in Int
  BY SMT DEF Followthrough, CrossMarket, Least, Most, Points
<1>4. QED
  BY <1>1, <1>2, <1>3, SMT

\* The components grow with the cluster and with the local score.
LEMMA ComponentsGrow ==
  ASSUME NEW c \in Contexts, NEW d, NEW k \in Int, NEW l \in Int, NEW h \in Int, NEW m \in Int,
         h <= k, m <= l
  PROVE /\ Components(c, d, k, l) \in Int
        /\ Components(c, d, h, m) <= Components(c, d, k, l)
<1>1. \A x \in Int : LiquidityImpact(c, d, x) \in Int
  BY ContextTypes, SMT DEF LiquidityImpact, Least, Points
<1>2. Meaningful(d, h) => Meaningful(d, k)
  BY SMT DEF Meaningful
<1>3. LiquidityImpact(c, d, h) <= LiquidityImpact(c, d, k)
  BY <1>2, ContextTypes, SMT DEF LiquidityImpact, Least, Points
<1>4. /\ Least(2500, RoundDiv(l, 4)) \in Int /\ Least(2500, RoundDiv(m, 4)) \in Int
      /\ Least(2500, RoundDiv(m, 4)) <= Least(2500, RoundDiv(l, 4))
  BY SMT DEF Least, RoundDiv
<1>5. QED
  BY <1>1, <1>3, <1>4, ContextTypes, NewsBounds, SMT DEF Components

\* More priority never lowers what is made of it.
LEMMA PriorityGrows ==
  ASSUME NEW c, NEW p \in Int, NEW q \in Int, q <= p
  PROVE WithPriority(c, p) \in Int /\ WithPriority(c, q) <= WithPriority(c, p)
  BY SMT DEF WithPriority, Points

\* What the cap and the discount leave of points.
Kept(c, points, cap) ==
  RoundDiv(Least(Least(10000, points) * (IF c.sports THEN 75 ELSE 100), 100 * cap)
             * Discount(c), 10000)

\* The context score is the components with priority, discounted and capped.
LEMMA ContextIs ==
  ASSUME NEW c, NEW d, NEW k, NEW l
  PROVE ContextScore(c, d, k, l)
          = Kept(c, WithPriority(c, Components(c, d, k, l)), ContextCap(d, k))
  BY SMT DEF ContextScore, Kept

\* It is below its cap.
LEMMA KeptBounds ==
  ASSUME NEW c, NEW p \in Int, NEW cap \in Int, 0 <= cap
  PROVE Kept(c, p, cap) \in Int /\ Kept(c, p, cap) <= cap
<1> DEFINE x == Least(Least(10000, p) * (IF c.sports THEN 75 ELSE 100), 100 * cap)
<1>1. x \in Int /\ x <= 100 * cap
  BY SMT DEF Least
<1> HIDE DEF x
<1>2. CASE Discount(c) = 65
  BY <1>1, <1>2, SMT DEF Kept, RoundDiv, x
<1>3. CASE Discount(c) = 80
  BY <1>1, <1>3, SMT DEF Kept, RoundDiv, x
<1>4. CASE Discount(c) = 100
  BY <1>1, <1>4, SMT DEF Kept, RoundDiv, x
<1>5. QED
  BY <1>2, <1>3, <1>4, NewsBounds, SMT

\* It grows with the components and with the cap.
LEMMA KeptGrows ==
  ASSUME NEW c, NEW p \in Int, NEW q \in Int, NEW cap \in Int, NEW low \in Int,
         q <= p, low <= cap
  PROVE Kept(c, q, low) <= Kept(c, p, cap)
<1> DEFINE f(v, w) == Least(Least(10000, v) * (IF c.sports THEN 75 ELSE 100), 100 * w)
<1>1. f(p, cap) \in Int /\ f(q, low) \in Int /\ f(q, low) <= f(p, cap)
  BY SMT DEF Least
<1>2. Kept(c, p, cap) = RoundDiv(f(p, cap) * Discount(c), 10000)
      /\ Kept(c, q, low) = RoundDiv(f(q, low) * Discount(c), 10000)
  BY SMT DEF Kept
<1> HIDE DEF f
<1>3. CASE Discount(c) = 65
  BY <1>1, <1>2, <1>3, SMT DEF RoundDiv
<1>4. CASE Discount(c) = 80
  BY <1>1, <1>2, <1>4, SMT DEF RoundDiv
<1>5. CASE Discount(c) = 100
  BY <1>1, <1>2, <1>5, SMT DEF RoundDiv
<1>6. QED
  BY <1>3, <1>4, <1>5, NewsBounds, SMT

\* The final score is bounded by what bounds its parts.
LEMMA FinalBounds ==
  ASSUME NEW l \in Int, NEW s \in Int, NEW b \in Int, 0 <= l, l <= b, s <= b,
         NEW v, v = 65 \/ v = 80 \/ v = 100
  PROVE FinalScore(l, s, v) \in Int /\ FinalScore(l, s, v) <= b
  BY SMT DEF FinalScore, Least, Most, RoundDiv

\* It grows with its parts.
LEMMA FinalGrows ==
  ASSUME NEW l \in Int, NEW s \in Int, NEW m \in Int, NEW t \in Int, m <= l, t <= s,
         NEW v, v = 65 \/ v = 80 \/ v = 100
  PROVE FinalScore(m, t, v) <= FinalScore(l, s, v)
  BY SMT DEF FinalScore, Least, Most, RoundDiv

\* A cap is a score.
LEMMA CapTypes ==
  ASSUME NEW d, NEW k
  PROVE ContextCap(d, k) \in Int /\ 0 <= ContextCap(d, k) /\ ContextCap(d, k) <= 10000
  BY SMT DEF ContextCap, Either, NoCap

\* The context score is a number below its cap.
LEMMA ContextTyped ==
  ASSUME NEW c \in Contexts, NEW d, NEW k \in Int, NEW l \in Int
  PROVE ContextScore(c, d, k, l) \in Int /\ ContextScore(c, d, k, l) <= ContextCap(d, k)
<1> DEFINE p == WithPriority(c, Components(c, d, k, l))
<1>1. p \in Int
  BY ComponentsGrow, PriorityGrows, SMT
<1>2. ContextScore(c, d, k, l) = Kept(c, p, ContextCap(d, k))
  BY ContextIs, SMT
<1> HIDE DEF p
<1>3. QED
  BY <1>1, <1>2, CapTypes, KeptBounds, SMT

\* Whatever surrounds it, a trade below 25 dollars scores below 5, and below 3
\* out of a cluster.
LEMMA SmallScore ==
  ASSUME NEW d \in Int, 0 <= d, d < 25, NEW e \in Features, NEW c \in Contexts
  PROVE /\ Score(d, e, c) \in Int /\ Score(d, e, c) < 5000
        /\ e.cluster < 3000 => Score(d, e, c) < MinScore
<1> DEFINE l == LocalScore(d, e)
           s == ContextScore(c, d, e.cluster, l)
<1>1. l \in Int /\ 0 <= l /\ l <= 4667 /\ (e.cluster < 3000 => l <= 667)
  BY SmallLocal, SMT
<1>2. s \in Int /\ s <= ContextCap(d, e.cluster)
  BY <1>1, FeatureBounds, ContextTyped, SMT
<1>3. ContextCap(d, e.cluster) <= 3000 /\ (e.cluster < 3000 => ContextCap(d, e.cluster) <= 2000)
  BY FeatureBounds, SMT DEF ContextCap, Either, Unpriced
<1>4. Score(d, e, c) = FinalScore(l, s, Discount(c))
  BY SMT DEF Score
<1> HIDE DEF l, s
<1>5. s <= 4667 /\ (e.cluster < 3000 => s <= 2000)
  BY <1>2, <1>3, CapTypes, SMT
<1>6. Score(d, e, c) \in Int /\ Score(d, e, c) <= 4667
  <2>1. FinalScore(l, s, Discount(c)) \in Int /\ FinalScore(l, s, Discount(c)) <= 4667
    BY <1>1, <1>2, <1>5, NewsBounds, FinalBounds, SMT
  <2>2. QED
    BY <1>4, <2>1, SMT
<1>7. ASSUME e.cluster < 3000 PROVE Score(d, e, c) <= 2000
  <2>1. l <= 2000
    BY <1>1, <1>7, SMT
  <2>2. FinalScore(l, s, Discount(c)) <= 2000
    BY <1>1, <1>2, <1>5, <1>7, <2>1, NewsBounds, FinalBounds, SMT
  <2>3. QED
    BY <1>4, <2>2, SMT
<1>8. QED
  BY <1>6, <1>7, SMT DEF MinScore

----------------------------------------------------------------------------

Single(e) == [e EXCEPT !.cluster = 0]

\* A trade by itself, outside any cluster, has features too.
LEMMA SingleTyped ==
  ASSUME NEW e \in Features
  PROVE Single(e) \in Features /\ Single(e).cluster = 0
  BY SMT DEF Features, Single

\* The cluster never lowers the weighted sum.
LEMMA RawGrows ==
  ASSUME NEW e \in Features
  PROVE Raw(Single(e)) <= Raw(e)
<1>1. /\ Single(e).size = e.size /\ Single(e).move = e.move /\ Single(e).jump = e.jump
      /\ Single(e).cluster = 0
  BY SMT DEF Features, Single
<1>2. ClusterPart(Single(e)) = 0
  BY <1>1, SMT DEF ClusterPart
<1>3. ClusterPart(e) \in Int /\ 0 <= ClusterPart(e)
  BY FeatureBounds, SMT DEF ClusterPart
<1>4. QED
  BY <1>1, <1>2, <1>3, FeatureBounds, SMT DEF Raw

\* Products of larger factors are larger.
LEMMA Products ==
  ASSUME NEW a \in Int, NEW b \in Int, NEW m \in Int, NEW n \in Int,
         0 <= a, a <= b, 0 <= m, m <= n
  PROVE a * m \in Int /\ b * n \in Int /\ a * m <= b * n
<1>1. a * m <= b * m
  BY SMT
<1>2. b * m <= b * n
  BY SMT
<1>3. QED
  BY <1>1, <1>2, SMT

\* The cluster never lowers the multiplier.
LEMMA MultiplierGrows ==
  ASSUME NEW d \in Int, NEW e \in Features
  PROVE /\ Multiplier(d, e) \in Int /\ 0 <= Multiplier(d, Single(e))
        /\ Multiplier(d, Single(e)) \in Int /\ Multiplier(d, Single(e)) <= Multiplier(d, e)
<1>1. ClusterFloor(d, Single(e)) = 0
  BY SingleTyped, SMT DEF ClusterFloor
<1>2. ClusterFloor(d, e) \in Int /\ 0 <= ClusterFloor(d, e)
  BY SMT DEF ClusterFloor
<1>3. AmountShare(d) \in Int /\ 0 <= AmountShare(d)
  BY SMT DEF AmountShare
<1>4. QED
  BY <1>1, <1>2, <1>3, SMT DEF Multiplier, Most

\* Nor, so, the local score.
LEMMA LocalGrows ==
  ASSUME NEW d \in Int, NEW e \in Features
  PROVE /\ LocalScore(d, e) \in Int /\ LocalScore(d, Single(e)) \in Int
        /\ LocalScore(d, Single(e)) <= LocalScore(d, e)
<1> DEFINE x == Raw(Single(e)) * Multiplier(d, Single(e))
           y == Raw(e) * Multiplier(d, e)
<1>1. x \in Int /\ y \in Int /\ x <= y
  <2>1. /\ Raw(e) \in Int /\ Raw(Single(e)) \in Int
        /\ 0 <= Raw(Single(e)) /\ Raw(Single(e)) <= Raw(e)
    BY RawBounds, RawGrows, SingleTyped, SMT
  <2>2. QED
    BY <2>1, MultiplierGrows, Products, SMT
<1>2. /\ LocalScore(d, e) = Least(10000, RoundDiv(y, 4500))
      /\ LocalScore(d, Single(e)) = Least(10000, RoundDiv(x, 4500))
  BY LocalIs, SMT
<1> HIDE DEF x, y
<1>3. QED
  BY <1>1, <1>2, SMT DEF Least, RoundDiv

\* A cluster never lowers a score, but for amounts between 100 and 249 dollars.
LEMMA ClusterRaises ==
  ASSUME NEW d \in Int, d < 100 \/ d > 249, NEW e \in Features, NEW c \in Contexts
  PROVE Score(d, Single(e), c) <= Score(d, e, c)
<1> DEFINE l == LocalScore(d, e)
           m == LocalScore(d, Single(e))
           k == e.cluster
           p == WithPriority(c, Components(c, d, k, l))
           q == WithPriority(c, Components(c, d, 0, m))
           s == ContextScore(c, d, k, l)
           t == ContextScore(c, d, 0, m)
<1>1. l \in Int /\ m \in Int /\ m <= l
  BY LocalGrows, SMT
<1>2. k \in Int /\ 0 <= k
  BY FeatureBounds, SMT
<1>3. Score(d, e, c) = FinalScore(l, s, Discount(c)) /\ Score(d, Single(e), c) = FinalScore(m, t, Discount(c))
  BY SingleTyped, SMT DEF Score
<1>4. s = Kept(c, p, ContextCap(d, k)) /\ t = Kept(c, q, ContextCap(d, 0))
  BY ContextIs, SMT
<1> HIDE DEF l, m, k
<1>5. p \in Int /\ q \in Int /\ q <= p
  BY <1>1, <1>2, ComponentsGrow, PriorityGrows, SMT
<1>6. ContextCap(d, 0) <= ContextCap(d, k)
  BY <1>2, SMT DEF ContextCap, Either, NoCap
<1>7. s \in Int /\ t \in Int
  BY <1>1, <1>2, ContextTyped, SMT
<1> HIDE DEF p, q, s, t
<1>8. t <= s
  BY <1>4, <1>5, <1>6, CapTypes, KeptGrows, SMT
<1>9. FinalScore(m, t, Discount(c)) <= FinalScore(l, s, Discount(c))
  BY <1>1, <1>7, <1>8, NewsBounds, FinalGrows, SMT
<1>10. QED
  BY <1>3, <1>9, SMT

----------------------------------------------------------------------------
(* The rows                                                                  *)

Levels == {"none", "low", "medium", "high", "critical"}

Rows == [score : Int, severity : Levels, promoted : {None, "triggered", "case"},
         case : BOOLEAN, features : Features \union {None},
         context : Contexts \union {None}]

\* What holds of the flag r of a trade over d dollars with features f.
RowOk(d, f, r) ==
  r = NoFlag \/
    /\ r.features \in Features /\ r.context \in Contexts
    /\ r.features.cluster <= f.cluster
    /\ r.score = Score(d, r.features, r.context)
    /\ 0 <= d /\ d < 25 =>
         /\ r.severity = "low" /\ r.promoted = None /\ ~r.case
         /\ f.cluster >= 3000

\* The features as they were before later trades joined the cluster.
LEMMA TruncatedTyped ==
  ASSUME NEW e \in Features, NEW k \in Nat
  PROVE Truncated(e, k) \in Features /\ Truncated(e, k).cluster <= e.cluster
<1> DEFINE size == IF k >= 3 THEN e.size ELSE 0
           move == IF k >= 4 THEN e.move ELSE 0
           jump == IF k >= 1 THEN e.jump ELSE 0
           cluster == IF k >= 2 THEN Least(e.cluster, 500 * (k - 1)) ELSE 0
           steady == k >= 3 /\ e.steady
<1>1. size \in Nat /\ size <= 6000 /\ move \in Nat /\ move <= 6000 /\ jump \in Nat /\ jump <= 4000
  BY FeatureBounds, SMT
<1>2. cluster \in Nat /\ cluster <= e.cluster /\ cluster <= 3000
  BY FeatureBounds, SMT DEF Least
<1>3. steady \in BOOLEAN
  OBVIOUS
<1>4. Truncated(e, k) = [size |-> size, move |-> move, jump |-> jump, cluster |-> cluster,
                         steady |-> steady]
  BY DEF Truncated
<1> HIDE DEF size, move, jump, cluster, steady
<1>5. QED
  BY <1>1, <1>2, <1>3, <1>4, SMT DEF Features

\* A score is a number.
LEMMA ScoreTyped ==
  ASSUME NEW d \in Int, NEW e \in Features, NEW c \in Contexts
  PROVE Score(d, e, c) \in Int
<1> DEFINE l == LocalScore(d, e)
           s == ContextScore(c, d, e.cluster, l)
<1>1. l \in Int
  BY LocalGrows, SMT
<1>2. s \in Int
  BY <1>1, FeatureBounds, ContextTyped, SMT
<1>3. Score(d, e, c) = FinalScore(l, s, Discount(c))
  BY SMT DEF Score
<1> HIDE DEF l, s
<1>4. QED
  BY <1>1, <1>2, <1>3, NewsBounds, SMT DEF FinalScore, Least, Most, RoundDiv

\* A row that is scored again is as good as before.
LEMMA RescoredOk ==
  ASSUME NEW d \in Int, NEW f \in Features, NEW e \in Features, e.cluster <= f.cluster,
         NEW c \in Contexts, NEW r \in Rows, RowOk(d, f, r)
  PROVE Rescored(r, d, e, c) \in Rows /\ RowOk(d, f, Rescored(r, d, e, c))
<1> DEFINE score == Score(d, e, c)
           row == [score |-> score, severity |-> Severity(score), features |-> e, context |-> c,
                   promoted |-> r.promoted, case |-> r.case]
<1>1. score \in Int
  BY ScoreTyped, SMT
<1>2. CASE score < MinScore
  BY <1>2, SMT DEF Rescored
<1>3. CASE ~(score < MinScore)
  <2>1. Rescored(r, d, e, c) = Promoted(row, score, c)
    BY <1>3, SMT DEF Rescored
  <2>2. Severity(score) \in Levels
    BY SMT DEF Severity, Levels
  <2> HIDE DEF score
  <2>3. /\ row \in Rows /\ row.features = e /\ row.context = c /\ row.score = score
        /\ row.severity = Severity(score) /\ row.promoted = r.promoted /\ row.case = r.case
    <3>1. r.promoted \in {None, "triggered", "case"} /\ r.case \in BOOLEAN
      BY DEF Rows
    <3>2. QED
      BY <1>1, <2>2, <3>1 DEF Rows
  <2> HIDE DEF row
  <2>4. Promotion(score, c) \in {None, "triggered", "case"}
    BY SMT DEF Promotion
  <2> DEFINE new == Promoted(row, score, c)
  <2>5. /\ new \in Rows /\ new.features = e /\ new.context = c /\ new.score = score
        /\ new.severity = Severity(score)
    <3>1. CASE Promotion(score, c) = None
      BY <2>3, <3>1 DEF Promoted
    <3>2. CASE Promotion(score, c) # None
      <4> DEFINE p == Promotion(score, c)
      <4>1. row = [score |-> row.score, severity |-> row.severity, promoted |-> row.promoted,
                   case |-> row.case, features |-> row.features, context |-> row.context]
        BY <2>3 DEF Rows
      <4>2. new = [score |-> row.score, severity |-> row.severity, promoted |-> p,
                   case |-> p = "case", features |-> row.features, context |-> row.context]
        BY <3>2, <4>1 DEF Promoted
      <4>3. QED
        BY <1>1, <2>2, <2>3, <2>4, <4>2 DEF Rows
    <3>3. QED
      BY <3>1, <3>2
  <2>6. ASSUME 0 <= d, d < 25
        PROVE /\ new.severity = "low" /\ new.promoted = None /\ ~new.case /\ f.cluster >= 3000
    <3>1. score < 5000 /\ e.cluster >= 3000
      BY <1>1, <1>3, <2>6, SmallScore, FeatureBounds, SMT DEF score, MinScore
    <3>2. f.cluster >= 3000
      BY <3>1, FeatureBounds, SMT
    <3>3. Severity(score) = "low" /\ Promotion(score, c) = None
      BY <1>1, <3>1, SMT DEF Severity, Promotion, CaseScore, TriggeredScore
    <3>4. new = row
      BY <3>3, SMT DEF Promoted
    <3>5. r.promoted = None /\ ~r.case
      BY <2>6, SMT DEF RowOk, NoFlag
    <3>6. QED
      BY <2>3, <3>2, <3>3, <3>4, <3>5, SMT
  <2> HIDE DEF new
  <2>7. RowOk(d, f, new)
    BY <2>5, <2>6, SMT DEF RowOk, score
  <2>8. QED
    BY <2>1, <2>5, <2>7, SMT DEF new
<1>4. QED
  BY <1>2, <1>3, SMT

----------------------------------------------------------------------------
(* The sweep                                                                 *)

Trades == [market : Nat, dollars : Nat \union {Unpriced}, features : Features]

\* Rows that a transaction may commit.
RowsOk(rows) ==
  /\ rows \in [DOMAIN tape -> Rows]
  /\ \A i \in DOMAIN tape : RowOk(tape[i].dollars, tape[i].features, rows[i])

\* The inductive invariant.
IInv ==
  /\ tape \in Seq(Trades) /\ arrived \in 0 .. Len(tape)
  /\ RowsOk(flag)
  /\ sweep.at # "idle" => sweep.batch \subseteq DOMAIN tape
  /\ sweep.at = "market" => RowsOk(sweep.rows)

\* No flag at all is a row.
LEMMA NoFlagRow == NoFlag \in Rows
  BY DEF NoFlag, Rows, Levels

\* No row is written at first.
LEMMA InitHolds ==
  ASSUME SweepAssumption, Init
  PROVE IInv
<1>1. tape \in Seq(Trades)
  BY DEF SweepAssumption, Init, Trades
<1>2. arrived \in 0 .. Len(tape)
  BY <1>1, SMT DEF Init
<1>3. RowsOk(flag)
  BY NoFlagRow DEF Init, RowsOk, RowOk
<1>4. sweep.at = "idle"
  BY DEF Init, Idle
<1>5. QED
  BY <1>1, <1>2, <1>3, <1>4 DEF IInv

\* A trade that arrives changes no row.
LEMMA ArriveHolds ==
  ASSUME IInv, Arrive
  PROVE IInv'
<1>1. tape' = tape /\ flag' = flag /\ sweep' = sweep
  BY DEF Arrive
<1>2. arrived' \in 0 .. Len(tape)
  <2>1. Len(tape) \in Nat
    BY DEF IInv
  <2>2. QED
    BY <2>1, SMT DEF IInv, Arrive
<1>3. QED
  BY <1>1, <1>2 DEF IInv, RowsOk

\* Nor does a sweep that begins.
LEMMA BeginSweepHolds ==
  ASSUME SweepAssumption, IInv, BeginSweep
  PROVE IInv'
<1> DEFINE batch == (Most(0, arrived - MaxTrades) + 1) .. arrived
<1>1. tape' = tape /\ flag' = flag /\ arrived' = arrived /\ sweep'.at = "between"
      /\ sweep'.batch = batch
  BY DEF BeginSweep
<1>2. batch \subseteq DOMAIN tape
  <2>1. Len(tape) \in Nat /\ DOMAIN tape = 1 .. Len(tape) /\ arrived \in 0 .. Len(tape)
        /\ MaxTrades \in Nat
    BY DEF IInv, SweepAssumption
  <2>2. QED
    BY <2>1, SMT DEF Most
<1> HIDE DEF batch
<1>3. QED
  BY <1>1, <1>2 DEF IInv, RowsOk

\* A market's transaction begins with the rows that are there.
LEMMA BeginMarketHolds ==
  ASSUME IInv, NEW m, BeginMarket(m)
  PROVE IInv'
<1>1. tape' = tape /\ flag' = flag /\ arrived' = arrived
      /\ sweep.at = "between" /\ sweep'.batch = sweep.batch /\ sweep'.rows = flag
  BY DEF BeginMarket
<1>2. QED
  BY <1>1 DEF IInv, RowsOk

\* The trades before one can be counted.
LEMMA BeforeTyped ==
  ASSUME IInv, sweep.at = "market", NEW i
  PROVE Before(i) \in Nat
<1>1. Len(tape) \in Nat /\ DOMAIN tape = 1 .. Len(tape)
  BY DEF IInv
<1>2. IsFiniteSet(DOMAIN tape)
  BY <1>1, FS_Interval, SMT
<1>3. {j \in sweep.batch : j < i /\ tape[j].market = tape[i].market} \subseteq DOMAIN tape
  BY DEF IInv
<1>4. QED
  BY <1>2, <1>3, FS_Subset, FS_CardinalityType DEF Before

\* A trade that is scored gets a row as it should be.
LEMMA ScoreTradeHolds ==
  ASSUME SweepAssumption, IInv, NEW i \in DOMAIN tape, ScoreTrade(i)
  PROVE IInv'
<1> DEFINE d == tape[i].dollars
           f == tape[i].features
           e == Truncated(f, Before(i))
<1>1. PICK c \in Surroundings :
        /\ sweep'.at = "market" /\ sweep'.batch = sweep.batch
        /\ sweep'.rows = [sweep.rows EXCEPT ![i] = Rescored(@, d, e, c)]
  BY DEF ScoreTrade
<1>2. sweep.at = "market" /\ tape' = tape /\ flag' = flag /\ arrived' = arrived
  BY DEF ScoreTrade
<1>3. RowsOk(sweep.rows)
  BY <1>2 DEF IInv
<1>4. d \in Int /\ f \in Features
  <2>1. tape[i] \in Trades
    BY DEF IInv
  <2>2. QED
    BY <2>1, SMT DEF Trades, Unpriced
<1>5. e \in Features /\ e.cluster <= f.cluster
  BY <1>2, <1>4, BeforeTyped, TruncatedTyped
<1>6. c \in Contexts
  BY DEF SweepAssumption
<1>7. sweep.rows[i] \in Rows /\ RowOk(d, f, sweep.rows[i])
  BY <1>3 DEF RowsOk
<1> HIDE DEF d, f, e
<1>8. Rescored(sweep.rows[i], d, e, c) \in Rows /\ RowOk(d, f, Rescored(sweep.rows[i], d, e, c))
  BY <1>4, <1>5, <1>6, <1>7, RescoredOk
<1>9. RowsOk(sweep'.rows)
  BY <1>1, <1>3, <1>8 DEF RowsOk, d, f
<1>10. QED
  BY <1>1, <1>2, <1>9 DEF IInv, RowsOk

\* The commit puts good rows in place of good rows.
LEMMA CommitMarketHolds ==
  ASSUME IInv, CommitMarket
  PROVE IInv'
<1>1. /\ tape' = tape /\ arrived' = arrived /\ flag' = sweep.rows /\ sweep.at = "market"
      /\ sweep' = Idle \/ sweep' = [at |-> "between", batch |-> sweep.batch, left |-> sweep.left]
  BY DEF CommitMarket, Done
<1>2. sweep'.at # "market" /\ (sweep'.at # "idle" => sweep'.batch = sweep.batch)
  BY <1>1 DEF Idle
<1>3. QED
  BY <1>1, <1>2 DEF IInv, RowsOk

\* A market that fails leaves the rows as they were.
LEMMA FailMarketHolds ==
  ASSUME IInv, FailMarket
  PROVE IInv'
<1>1. /\ tape' = tape /\ arrived' = arrived /\ flag' = flag /\ sweep.at = "market"
      /\ sweep' = Idle \/ sweep' = [at |-> "between", batch |-> sweep.batch, left |-> sweep.left]
  BY DEF FailMarket, Done
<1>2. sweep'.at # "market" /\ (sweep'.at # "idle" => sweep'.batch = sweep.batch)
  BY <1>1 DEF Idle
<1>3. QED
  BY <1>1, <1>2 DEF IInv, RowsOk

\* So no step breaks the invariant.
LEMMA NextHolds ==
  ASSUME SweepAssumption, IInv, [Next]_vars
  PROVE IInv'
<1>1. CASE UNCHANGED vars
  BY <1>1 DEF vars, IInv, RowsOk
<1>2. CASE Next
  BY <1>2, ArriveHolds, BeginSweepHolds, BeginMarketHolds, ScoreTradeHolds, CommitMarketHolds,
     FailMarketHolds DEF Next
<1>3. QED
  BY <1>1, <1>2

\* And it holds in every state.
LEMMA Inductive == SweepAssumption /\ Spec => [](SweepAssumption /\ IInv)
<1> DEFINE Inv == SweepAssumption /\ IInv
<1>1. SweepAssumption /\ Init => Inv
  BY InitHolds
<1>2. Inv /\ [Next]_vars => Inv'
  BY NextHolds DEF SweepAssumption, Contexts, Features
<1> HIDE DEF Inv
<1>3. SweepAssumption /\ Spec => []Inv
  BY <1>1, <1>2, PTL DEF Spec
<1>4. QED
  BY <1>3 DEF Inv

----------------------------------------------------------------------------
(* The theorems                                                              *)

\* Small bets stay quiet, for any tapes, surroundings and batch sizes: a trade
\* below 25 dollars is flagged only at the end of a cluster, low, and promotes
\* nothing, however often it is scored again.
THEOREM SweepSmallBetsQuiet == SweepAssumption /\ Spec => []SmallBetsQuiet
<1>1. IInv => SmallBetsQuiet
  <2>1. SUFFICES ASSUME IInv, NEW i \in DOMAIN tape, Flagged(i), tape[i].dollars \in 0 .. 24
                 PROVE /\ flag[i].severity = "low" /\ flag[i].promoted = None /\ ~flag[i].case
                       /\ tape[i].features.cluster >= 3000
    BY DEF SmallBetsQuiet
  <2>2. RowOk(tape[i].dollars, tape[i].features, flag[i]) /\ flag[i] # NoFlag
    BY <2>1 DEF IInv, RowsOk, Flagged
  <2>3. 0 <= tape[i].dollars /\ tape[i].dollars < 25
    BY <2>1, SMT
  <2>4. QED
    BY <2>2, <2>3 DEF RowOk
<1>2. QED
  BY <1>1, Inductive, PTL

\* A cluster never lowers a stored score, for any tapes, surroundings and batch
\* sizes, except between 100 and 249 dollars.
THEOREM SweepClustersRaise == SweepAssumption /\ Spec => []ClustersRaise
<1>1. SweepAssumption /\ IInv => ClustersRaise
  <2>1. SUFFICES ASSUME IInv, NEW i \in DOMAIN tape, Flagged(i),
                        tape[i].dollars \notin 100 .. 249
                 PROVE flag[i].score >= Score(tape[i].dollars, Single(flag[i].features),
                                              flag[i].context)
    BY DEF ClustersRaise, Single
  <2> DEFINE d == tape[i].dollars
             e == flag[i].features
             c == flag[i].context
  <2>2. RowOk(d, tape[i].features, flag[i]) /\ flag[i] # NoFlag
    BY <2>1 DEF IInv, RowsOk, Flagged
  <2>3. e \in Features /\ c \in Contexts /\ flag[i].score = Score(d, e, c)
    BY <2>2 DEF RowOk
  <2>4. d \in Int
    <3>1. tape[i] \in Trades
      BY <2>1 DEF IInv
    <3>2. QED
      BY <3>1, SMT DEF Trades, Unpriced
  <2>5. d < 100 \/ d > 249
    BY <2>1, <2>4, SMT
  <2> HIDE DEF d, e, c
  <2>6. Score(d, Single(e), c) <= Score(d, e, c) /\ Score(d, e, c) \in Int
        /\ Score(d, Single(e), c) \in Int
    BY <2>3, <2>4, <2>5, ClusterRaises, ScoreTyped, SingleTyped
  <2>7. QED
    BY <2>3, <2>6, SMT DEF d, e, c
<1>2. QED
  BY <1>1, Inductive, PTL

(* ---- Links between news and trades --------------------------------------- *)

\* Links have a status and a score; scores are on their way to them.
LinksKnown ==
  /\ \A l \in News!Link : event[l] # NoRow => event[l] \in News!Event
  /\ \A l \in DOMAIN hand : hand[l] \in Scores

NewsInv == LinksKnown /\ News!StrongHasCase

\* A link that is found again keeps its status, and a new one is no signal.
LEMMA RelinkedKnown ==
  ASSUME NewsInv, NEW S, NEW p, News!WriteLinks(S, p), UNCHANGED <<cases, caseTier>>
  PROVE  /\ \A l \in News!Link : event'[l] # NoRow => event'[l] \in News!Event
         /\ News!StrongHasCase'
<1>1. ASSUME NEW l \in News!Link, event'[l] # NoRow, event'[l] # event[l]
      PROVE  /\ event'[l] \in News!Event
             /\ event'[l].status = "strong_pre_news_signal"
                  => event[l] # NoRow /\ event[l].status = "strong_pre_news_signal"
  <2>1. event'[l] = News!Candidate(l, p)
    BY <1>1 DEF News!WriteLinks
  <2>2. CASE event[l] = NoRow
    BY <2>1, <2>2 DEF News!Candidate, News!Event
  <2>3. CASE event[l] # NoRow
    <3>1. event'[l].status = event[l].status /\ event'[l] \in News!Event
      BY <2>1, <2>3 DEF NewsInv, LinksKnown, News!Candidate, News!Event
    <3> QED
      BY <2>3, <3>1
  <2> QED
    BY <2>2, <2>3
<1> QED
  BY <1>1 DEF NewsInv, LinksKnown, News!StrongHasCase

\* A score that makes a strong signal makes a case.
LEMMA ScoredKnown ==
  ASSUME NewsInv, News!CommitBatch
  PROVE  NewsInv'
<1>1. ASSUME NEW l \in News!Link, l \in DOMAIN hand
      PROVE  /\ event'[l] \in News!Event
             /\ event'[l].status = "strong_pre_news_signal"
                  => l \in cases' /\ l[2] \in caseTier'
  <2>1. event[l] \in News!Event
        /\ event'[l] = [event[l] EXCEPT !.status = News!StatusForScore(hand[l]), !.score = hand[l]]
    BY <1>1 DEF News!CommitBatch, News!Standing, NewsInv, LinksKnown
  <2>2. hand[l] \in Scores
    BY <1>1 DEF NewsInv, LinksKnown
  <2>3. event'[l] \in News!Event
    BY <2>1, <2>2 DEF News!Event, News!StatusForScore
  <2>4. ASSUME event'[l].status = "strong_pre_news_signal"
        PROVE  l \in News!Promoted
    <3>1. hand[l] >= News!StrongScore
      BY <2>1, <2>4 DEF News!StatusForScore
    <3> QED
      BY <1>1, <3>1 DEF News!Promoted, News!StrongScore, News!CaseScore
  <2>5. /\ cases' = cases \cup News!Promoted
        /\ caseTier' = caseTier \cup {k[2] : k \in News!Promoted}
    BY DEF News!CommitBatch
  <2> QED
    BY <2>3, <2>4, <2>5
<1>2. ASSUME NEW l \in News!Link, l \notin DOMAIN hand
      PROVE  event'[l] = event[l]
  BY <1>2 DEF News!CommitBatch
<1>3. cases \subseteq cases' /\ caseTier \subseteq caseTier' /\ DOMAIN hand' = {}
  BY DEF News!CommitBatch, News!Nothing
<1> QED
  BY <1>1, <1>2, <1>3 DEF NewsInv, LinksKnown, News!StrongHasCase

(***************************************************************************)
(* A link that was ever scored as strong has its case and its market was   *)
(* promoted, for any feeds, relevance, scores, batches and failures:       *)
(* _promote_news_event_if_needed of app/services/news_trade_correlation.py *)
(* beside relinking and revalidation.                                      *)
(***************************************************************************)
THEOREM StrongLinksHaveCases == News!Spec => []StrongHasCase
<1>1. News!Init => NewsInv
  BY DEF News!Init, News!Nothing, NewsInv, LinksKnown, News!StrongHasCase
<1>2. ASSUME NewsInv, [News!Next]_(News!vars)
      PROVE  NewsInv'
  <2>1. ASSUME UNCHANGED <<event, cases, caseTier>>, hand' = hand \/ hand' = News!Nothing
        PROVE  NewsInv'
    BY <1>2, <2>1 DEF NewsInv, LinksKnown, News!StrongHasCase, News!Nothing
  <2>2. CASE News!StartIngest \/ News!StageFails \/ News!BatchStale \/ News!EndCycle
             \/ (\E m \in Market : News!Revise(m)) \/ UNCHANGED News!vars
    BY <2>1, <2>2 DEF News!StartIngest, News!StageFails, News!BatchStale, News!EndCycle,
                      News!Revise, News!Tables, News!vars
  <2>3. ASSUME NEW fetched \in SUBSET Article, News!CommitIngest(fetched)
        PROVE  NewsInv'
    <3>1. /\ \E S, p : News!WriteLinks(S, p)
          /\ UNCHANGED <<cases, caseTier, hand>>
      BY <2>3 DEF News!CommitIngest
    <3> QED
      BY <1>2, <3>1, RelinkedKnown DEF NewsInv, LinksKnown
  <2>4. CASE News!LoadBatch
    <3>1. UNCHANGED <<event, cases, caseTier>> /\ \A l \in DOMAIN hand' : hand'[l] \in Scores
      BY <2>4 DEF News!LoadBatch, News!Tables
    <3> QED
      BY <1>2, <3>1 DEF NewsInv, LinksKnown, News!StrongHasCase
  <2>5. CASE News!CommitBatch
    BY <1>2, <2>5, ScoredKnown
  <2>6. ASSUME NEW bar \in News!Bars, News!Revalidate(bar)
        PROVE  NewsInv'
    <3>1. /\ \A l \in News!Link :
               event'[l] # NoRow =>
                 /\ event[l] # NoRow
                 /\ \/ event'[l] = event[l]
                    \/ \E w \in BOOLEAN : event'[l] = [event[l] EXCEPT !.weak = w]
          /\ UNCHANGED <<cases, caseTier, hand>>
      BY <2>6 DEF News!Revalidate
    <3>2. \A l \in News!Link :
            event'[l] # NoRow =>
              /\ event[l] # NoRow /\ event'[l] \in News!Event
              /\ event'[l].status = event[l].status
      BY <1>2, <3>1 DEF NewsInv, LinksKnown, News!Event
    <3> QED
      BY <1>2, <3>1, <3>2 DEF NewsInv, LinksKnown, News!StrongHasCase
  <2>7. ASSUME NEW bar \in News!Bars, News!Relink(bar)
        PROVE  NewsInv'
    <3>1. /\ \E S, p : News!WriteLinks(S, p)
          /\ UNCHANGED <<cases, caseTier, hand>>
      BY <2>7 DEF News!Relink
    <3> QED
      BY <1>2, <3>1, RelinkedKnown DEF NewsInv, LinksKnown
  <2> QED
    BY <1>2, <2>2, <2>3, <2>4, <2>5, <2>6, <2>7 DEF News!Next, News!Cycle
<1>3. NewsInv => StrongHasCase
  BY DEF NewsInv, StrongHasCase
<1> QED
  BY <1>1, <1>2, <1>3, PTL DEF News!Spec

(* ---- The supervisor leaves nobody behind ---------------------------------- *)

\* Where the supervisor is among its children: those it has not launched are new, the
\* one it is about to restart has exited, and those it has stopped stay stopped.
SuperInv ==
  /\ Super!TypeOK
  /\ main.place \in {"launch", "poll", "restart", "stop", "wait"} => main.i \in 1 .. Len(Children)
  /\ main.place = "launch" =>
       \A j \in main.i .. Len(Children) : child[Children[j]] = "new"
  /\ main.place = "restart" => child[Children[main.i]] = "dead"
  /\ main.place \in {"stop", "wait"} =>
       \A j \in 1 .. main.i - 1 : child[Children[j]] # "alive"
  /\ Super!NobodyLeft

\* What the list of processes is.
LEMMA ChildrenAre ==
  ASSUME Super!SupervisorConstants
  PROVE  /\ Len(Children) \in Nat \ {0} /\ DOMAIN Children = 1 .. Len(Children)
         /\ \A j \in 1 .. Len(Children) : Children[j] \in Super!Child
         /\ \A c \in Super!Child : \E j \in 1 .. Len(Children) : c = Children[j]
         /\ \A j, k \in 1 .. Len(Children) : j # k => Children[j] # Children[k]
         /\ MaxBackoff \in Nat \ {0} /\ MaxBad \in Nat
<1>1. /\ Children \in Seq(Super!Child) /\ Children # <<>>
      /\ \A i, j \in DOMAIN Children : i # j => Children[i] # Children[j]
      /\ MaxBackoff \in Nat \ {0} /\ MaxBad \in Nat
  BY DEF Super!SupervisorConstants
<1>2. Len(Children) \in Nat /\ DOMAIN Children = 1 .. Len(Children)
  BY <1>1
<1>3. Len(Children) # 0
  BY <1>1
<1>4. \A c : c \in Super!Child <=> \E j \in DOMAIN Children : c = Children[j]
  BY DEF Super!Child
<1> QED
  BY <1>1, <1>2, <1>3, <1>4

\* It begins with the first process, and all are new.
LEMMA SuperStarts ==
  ASSUME Super!SupervisorConstants, Super!Init
  PROVE  SuperInv
<1>1. main = [place |-> "launch", i |-> 1]
  BY DEF Super!Init, Super!At
<1>2. main.place = "launch" /\ main.i = 1 /\ 1 \in 1 .. Len(Children)
  BY <1>1, ChildrenAre
<1>3. child = [c \in Super!Child |-> "new"]
  BY DEF Super!Init
<1>4. \A j \in main.i .. Len(Children) : child[Children[j]] = "new"
  BY <1>2, <1>3, ChildrenAre
<1>5. Super!TypeOK
  <2>1. 1 \in 1 .. MaxBackoff /\ 0 \in 0 .. MaxBackoff /\ 0 \in 0 .. MaxBad
        /\ 1 \in 0 .. Len(Children)
    BY ChildrenAre
  <2>2. /\ backoff = [c \in Super!Child |-> 1] /\ slept = [c \in Super!Child |-> 0]
        /\ unseen = Super!Child /\ stopping = FALSE /\ bad = 0
    BY DEF Super!Init
  <2>3. backoff \in [Super!Child -> 1 .. MaxBackoff] /\ slept \in [Super!Child -> 0 .. MaxBackoff]
        /\ child \in [Super!Child -> {"new", "alive", "dead"}]
    BY <1>3, <2>1, <2>2
  <2>4. main \in [place : {"launch", "gone", "poll", "restart", "sleep", "stop", "wait",
                           "ended"}, i : 0 .. Len(Children)]
    BY <1>1, <2>1
  <2> QED
    BY <2>1, <2>2, <2>3, <2>4 DEF Super!TypeOK
<1> QED
  BY <1>2, <1>4, <1>5 DEF SuperInv, Super!NobodyLeft

\* The child after the current one, or the end of the list.
LEMMA BehindIs ==
  ASSUME Super!SupervisorConstants, NEW place, NEW end, main.i \in 1 .. Len(Children)
  PROVE  \/ main.i = Len(Children) /\ Super!Behind(place, end) = end
         \/ /\ main.i + 1 \in 1 .. Len(Children)
            /\ Super!Behind(place, end) = [place |-> place, i |-> main.i + 1]
BY ChildrenAre DEF Super!Behind, Super!At

\* A process that is started again, or for the first time.
LEMMA StartIs ==
  ASSUME Super!SupervisorConstants, Super!TypeOK, main.i \in 1 .. Len(Children),
         Super!Start(Super!Current)
  PROVE  /\ child' \in [Super!Child -> {"new", "alive", "dead"}]
         /\ backoff' \in [Super!Child -> 1 .. MaxBackoff] /\ unseen' \subseteq Super!Child
         /\ \A j \in 1 .. Len(Children) : j # main.i => child'[Children[j]] = child[Children[j]]
<1>1. Super!Current = Children[main.i] /\ Super!Current \in Super!Child
  BY ChildrenAre DEF Super!Current
<1>2. /\ child' = [child EXCEPT ![Super!Current] = "alive"]
      /\ backoff' = [backoff EXCEPT ![Super!Current] = 1]
      /\ unseen' = unseen \union {Super!Current}
  BY DEF Super!Start
<1>3. /\ child \in [Super!Child -> {"new", "alive", "dead"}]
      /\ backoff \in [Super!Child -> 1 .. MaxBackoff] /\ unseen \subseteq Super!Child
  BY DEF Super!TypeOK
<1>4. 1 \in 1 .. MaxBackoff
  BY ChildrenAre
<1>5. \A j \in 1 .. Len(Children) : j # main.i => /\ Children[j] \in Super!Child
                                                 /\ Children[j] # Super!Current
  BY <1>1, ChildrenAre
<1> QED
  BY <1>1, <1>2, <1>3, <1>4, <1>5

\* What is left when only main moves.
LEMMA MainMoves ==
  ASSUME SuperInv, UNCHANGED <<child, backoff, slept, unseen>>, stopping' \in BOOLEAN,
         bad' \in 0 .. MaxBad,
         main' \in [place : {"launch", "gone", "poll", "restart", "sleep", "stop", "wait",
                             "ended"}, i : 0 .. Len(Children)]
  PROVE  Super!TypeOK'
BY DEF SuperInv, Super!TypeOK

\* Launching.
LEMMA LaunchStays ==
  ASSUME Super!SupervisorConstants, SuperInv, Super!Launch
  PROVE  SuperInv'
<1>1. /\ main.place = "launch" /\ Super!Start(Super!Current)
      /\ main' = Super!Behind("launch", [place |-> "poll", i |-> 1])
      /\ UNCHANGED <<slept, stopping, bad>>
  BY DEF Super!Launch, Super!At
<1>2. Super!TypeOK /\ main.i \in 1 .. Len(Children)
  BY <1>1 DEF SuperInv
<1>3. /\ child' \in [Super!Child -> {"new", "alive", "dead"}]
      /\ backoff' \in [Super!Child -> 1 .. MaxBackoff] /\ unseen' \subseteq Super!Child
      /\ \A j \in 1 .. Len(Children) : j # main.i => child'[Children[j]] = child[Children[j]]
  BY <1>1, <1>2, StartIs
<1>4. CASE main.i = Len(Children) /\ main' = [place |-> "poll", i |-> 1]
  <2>1. main'.place = "poll" /\ main'.i = 1 /\ 1 \in 1 .. Len(Children) /\ 1 \in 0 .. Len(Children)
    BY <1>4, ChildrenAre
  <2>2. Super!TypeOK'
    BY <1>1, <1>2, <1>3, <1>4, <2>1 DEF Super!TypeOK
  <2> QED
    BY <2>1, <2>2 DEF SuperInv, Super!NobodyLeft
<1>5. CASE main.i + 1 \in 1 .. Len(Children) /\ main' = [place |-> "launch", i |-> main.i + 1]
  <2>1. main'.place = "launch" /\ main'.i = main.i + 1 /\ main.i + 1 \in 0 .. Len(Children)
    BY <1>5
  <2>2. Super!TypeOK'
    BY <1>1, <1>2, <1>3, <1>5, <2>1 DEF Super!TypeOK
  <2>3. ASSUME NEW j \in main'.i .. Len(Children)
        PROVE  child'[Children[j]] = "new"
    <3>1. Len(Children) \in Nat /\ main.i \in Nat
      BY <1>2, ChildrenAre
    <3>2. j \in main.i .. Len(Children) /\ j \in 1 .. Len(Children) /\ j # main.i
      BY <1>2, <2>1, <2>3, <3>1
    <3> QED
      BY <1>1, <1>3, <3>2 DEF SuperInv
  <2> QED
    BY <1>5, <2>1, <2>2, <2>3 DEF SuperInv, Super!NobodyLeft
<1> QED
  BY <1>1, <1>2, <1>4, <1>5, BehindIs

\* Restarting.
LEMMA RestartStays ==
  ASSUME Super!SupervisorConstants, SuperInv, Super!Restart
  PROVE  SuperInv'
<1>1. /\ main.place = "restart" /\ Super!Start(Super!Current)
      /\ slept' = [slept EXCEPT ![Super!Current] = backoff[Super!Current]]
      /\ main' = Super!Behind("poll", [place |-> "sleep", i |-> 0])
      /\ UNCHANGED <<stopping, bad>>
  BY DEF Super!Restart, Super!AfterRestart, Super!Polled, Super!At
<1>2. Super!TypeOK /\ main.i \in 1 .. Len(Children)
  BY <1>1 DEF SuperInv
<1>3. /\ child' \in [Super!Child -> {"new", "alive", "dead"}]
      /\ backoff' \in [Super!Child -> 1 .. MaxBackoff] /\ unseen' \subseteq Super!Child
  BY <1>1, <1>2, StartIs
<1>4. slept' \in [Super!Child -> 0 .. MaxBackoff]
  <2>1. Super!Current \in Super!Child
    BY <1>2, ChildrenAre DEF Super!Current
  <2>2. backoff[Super!Current] \in 0 .. MaxBackoff /\ slept \in [Super!Child -> 0 .. MaxBackoff]
    BY <1>2, <2>1, ChildrenAre DEF Super!TypeOK
  <2> QED
    BY <1>1, <2>2
<1>5. CASE main' = [place |-> "sleep", i |-> 0]
  <2>1. main'.place = "sleep" /\ 0 \in 0 .. Len(Children)
    BY <1>5, ChildrenAre
  <2>2. Super!TypeOK'
    BY <1>1, <1>2, <1>3, <1>4, <1>5, <2>1 DEF Super!TypeOK
  <2> QED
    BY <2>1, <2>2 DEF SuperInv, Super!NobodyLeft
<1>6. CASE main.i + 1 \in 1 .. Len(Children) /\ main' = [place |-> "poll", i |-> main.i + 1]
  <2>1. main'.place = "poll" /\ main'.i = main.i + 1 /\ main.i + 1 \in 0 .. Len(Children)
    BY <1>6
  <2>2. Super!TypeOK'
    BY <1>1, <1>2, <1>3, <1>4, <1>6, <2>1 DEF Super!TypeOK
  <2> QED
    BY <1>6, <2>1, <2>2 DEF SuperInv, Super!NobodyLeft
<1> QED
  BY <1>1, <1>2, <1>5, <1>6, BehindIs

\* A child exits.
LEMMA ExitStays ==
  ASSUME Super!SupervisorConstants, SuperInv, NEW c \in Super!Child, Super!Exit(c)
  PROVE  SuperInv'
<1>1. /\ child' = [child EXCEPT ![c] = "dead"] /\ child[c] = "alive"
      /\ UNCHANGED <<backoff, slept, unseen, main, stopping, bad>>
  BY DEF Super!Exit
<1>2. child \in [Super!Child -> {"new", "alive", "dead"}]
  BY DEF SuperInv, Super!TypeOK
<1>3. \A d \in Super!Child : /\ child[d] = "new" => child'[d] = "new"
                             /\ child[d] = "dead" => child'[d] = "dead"
                             /\ child[d] # "alive" => child'[d] # "alive"
  <2>1. child' = [d \in Super!Child |-> IF d = c THEN "dead" ELSE child[d]]
    BY <1>1, <1>2
  <2>2. child'[c] = "dead" /\ \A d \in Super!Child : d # c => child'[d] = child[d]
    BY <2>1
  <2> QED
    BY <1>1, <2>2
<1>4. Super!TypeOK'
  BY <1>1, <1>2 DEF SuperInv, Super!TypeOK
<1>5. main'.place = main.place /\ main'.i = main.i
  BY <1>1
<1>6. main.place = "launch" =>
        \A j \in main.i .. Len(Children) : child'[Children[j]] = "new"
  <2> SUFFICES ASSUME main.place = "launch", NEW j \in main.i .. Len(Children)
               PROVE  child'[Children[j]] = "new"
    OBVIOUS
  <2>1. main.i \in 1 .. Len(Children) /\ child[Children[j]] = "new"
    BY DEF SuperInv
  <2>2. j \in 1 .. Len(Children)
    BY <2>1, ChildrenAre
  <2> QED
    BY <1>3, <2>1, <2>2, ChildrenAre
<1>7. main.place = "restart" => child'[Children[main.i]] = "dead"
  BY <1>3, ChildrenAre DEF SuperInv
<1>8. main.place \in {"stop", "wait"} =>
        \A j \in 1 .. main.i - 1 : child'[Children[j]] # "alive"
  <2> SUFFICES ASSUME main.place \in {"stop", "wait"}, NEW j \in 1 .. main.i - 1
               PROVE  child'[Children[j]] # "alive"
    OBVIOUS
  <2>1. main.i \in 1 .. Len(Children) /\ child[Children[j]] # "alive"
    BY DEF SuperInv
  <2>2. j \in 1 .. Len(Children)
    BY <2>1, ChildrenAre
  <2> QED
    BY <1>3, <2>1, <2>2, ChildrenAre
<1>9. Super!NobodyLeft'
  BY <1>3, <1>5 DEF SuperInv, Super!NobodyLeft
<1> QED
  BY <1>4, <1>5, <1>6, <1>7, <1>8, <1>9, <1>1 DEF SuperInv

\* A restart that fails: the supervisor stops what it has started.
LEMMA RestartFailsStays ==
  ASSUME Super!SupervisorConstants, SuperInv, Super!RestartFails
  PROVE  SuperInv'
<1>1. /\ main.place = "restart" /\ bad < MaxBad /\ bad' = bad + 1
      /\ backoff' = [backoff EXCEPT ![Super!Current] =
                       IF 2 * @ < MaxBackoff THEN 2 * @ ELSE MaxBackoff]
      /\ main' = [place |-> "stop", i |-> 1]
      /\ UNCHANGED <<child, slept, unseen, stopping>>
  BY DEF Super!RestartFails, Super!At
<1>2. Super!TypeOK
  BY DEF SuperInv
<1>3. backoff' \in [Super!Child -> 1 .. MaxBackoff]
  <2>1. \A b \in 1 .. MaxBackoff :
          (IF 2 * b < MaxBackoff THEN 2 * b ELSE MaxBackoff) \in 1 .. MaxBackoff
    BY ChildrenAre
  <2>2. backoff \in [Super!Child -> 1 .. MaxBackoff]
    BY <1>2 DEF Super!TypeOK
  <2> QED
    BY <1>1, <2>1, <2>2
<1>4. bad' \in 0 .. MaxBad
  <2>1. bad \in 0 .. MaxBad /\ MaxBad \in Nat
    BY <1>2, ChildrenAre DEF Super!TypeOK
  <2> QED
    BY <1>1, <2>1
<1>5. main'.place = "stop" /\ main'.i = 1 /\ 1 \in 1 .. Len(Children) /\ 1 \in 0 .. Len(Children)
  BY <1>1, ChildrenAre
<1>6. Super!TypeOK'
  BY <1>1, <1>2, <1>3, <1>4, <1>5 DEF Super!TypeOK
<1>7. \A j \in 1 .. main'.i - 1 : child'[Children[j]] # "alive"
  BY <1>5
<1> QED
  BY <1>5, <1>6, <1>7 DEF SuperInv, Super!NobodyLeft

\* A child that has been stopped, or had exited before: the next one, or the end.
LEMMA StoppedStays ==
  ASSUME Super!SupervisorConstants, SuperInv, main.place \in {"stop", "wait"},
         child' \in [Super!Child -> {"new", "alive", "dead"}],
         child'[Children[main.i]] # "alive",
         \A j \in 1 .. Len(Children) : j # main.i => child'[Children[j]] = child[Children[j]],
         main' = Super!Behind("stop", [place |-> "ended", i |-> 0]),
         UNCHANGED <<backoff, slept, unseen, stopping, bad>>
  PROVE  SuperInv'
<1>1. Super!TypeOK /\ main.i \in 1 .. Len(Children) /\ Len(Children) \in Nat
      /\ \A j \in 1 .. main.i - 1 : child[Children[j]] # "alive"
  BY ChildrenAre DEF SuperInv
<1>2. \A j \in 1 .. main.i : child'[Children[j]] # "alive"
  <2> SUFFICES ASSUME NEW j \in 1 .. main.i
               PROVE  child'[Children[j]] # "alive"
    OBVIOUS
  <2>1. CASE j = main.i
    BY <2>1
  <2>2. CASE j # main.i
    <3>1. j \in 1 .. main.i - 1 /\ j \in 1 .. Len(Children)
      BY <1>1, <2>2
    <3> QED
      BY <1>1, <2>2, <3>1
  <2> QED
    BY <2>1, <2>2
<1>3. CASE main.i = Len(Children) /\ main' = [place |-> "ended", i |-> 0]
  <2>1. main'.place = "ended" /\ 0 \in 0 .. Len(Children)
    BY <1>1, <1>3
  <2>2. Super!TypeOK'
    BY <1>1, <1>3, <2>1 DEF Super!TypeOK
  <2>3. Super!NobodyLeft'
    BY <1>2, <1>3, ChildrenAre DEF Super!NobodyLeft
  <2> QED
    BY <2>1, <2>2, <2>3 DEF SuperInv
<1>4. CASE main.i + 1 \in 1 .. Len(Children) /\ main' = [place |-> "stop", i |-> main.i + 1]
  <2>1. main'.place = "stop" /\ main'.i = main.i + 1 /\ main.i + 1 \in 0 .. Len(Children)
    BY <1>4
  <2>2. Super!TypeOK'
    BY <1>1, <1>4, <2>1 DEF Super!TypeOK
  <2>3. \A j \in 1 .. main'.i - 1 : child'[Children[j]] # "alive"
    <3>1. main'.i - 1 = main.i
      BY <1>1, <2>1
    <3> QED
      BY <1>2, <3>1
  <2> QED
    BY <1>4, <2>1, <2>2, <2>3 DEF SuperInv, Super!NobodyLeft
<1> QED
  BY <1>1, <1>3, <1>4, BehindIs

\* Terminating a child, and waiting for it.
LEMMA StopStays ==
  ASSUME Super!SupervisorConstants, SuperInv, Super!Terminate \/ Super!Wait
  PROVE  SuperInv'
<1>1. Super!TypeOK /\ main.place \in {"stop", "wait"} /\ main.i \in 1 .. Len(Children)
  BY DEF SuperInv, Super!Terminate, Super!Wait
<1>2. Super!Current = Children[main.i] /\ Super!Current \in Super!Child
  BY <1>1, ChildrenAre DEF Super!Current
<1>3. child \in [Super!Child -> {"new", "alive", "dead"}]
  BY <1>1 DEF Super!TypeOK
<1>4. CASE Super!Terminate /\ child[Super!Current] = "alive"
  <2>1. /\ main.place = "stop" /\ main' = [place |-> "wait", i |-> main.i]
        /\ UNCHANGED <<child, backoff, slept, unseen, stopping, bad>>
    BY <1>4 DEF Super!Terminate, Super!At
  <2>2. main'.place = "wait" /\ main'.i = main.i /\ main.i \in 0 .. Len(Children)
    BY <1>1, <2>1
  <2>3. Super!TypeOK'
    BY <1>1, <2>1, <2>2 DEF Super!TypeOK
  <2> QED
    BY <1>1, <2>1, <2>2, <2>3 DEF SuperInv, Super!NobodyLeft
<1>5. CASE Super!Terminate /\ child[Super!Current] # "alive"
  <2>1. /\ main' = Super!Behind("stop", [place |-> "ended", i |-> 0])
        /\ UNCHANGED <<child, backoff, slept, unseen, stopping, bad>>
    BY <1>5 DEF Super!Terminate, Super!Stopped, Super!At
  <2>2. child'[Children[main.i]] # "alive"
    BY <1>2, <1>5, <2>1
  <2> QED
    BY <1>1, <1>3, <2>1, <2>2, StoppedStays
<1>6. CASE Super!Wait
  <2>1. /\ child' = [child EXCEPT ![Super!Current] = "dead"]
        /\ main' = Super!Behind("stop", [place |-> "ended", i |-> 0])
        /\ UNCHANGED <<backoff, slept, unseen, stopping, bad>>
    BY <1>6 DEF Super!Wait, Super!Reap, Super!Stopped, Super!At
  <2>2. child'[Children[main.i]] # "alive"
        /\ child' \in [Super!Child -> {"new", "alive", "dead"}]
    BY <1>2, <1>3, <2>1
  <2>3. ASSUME NEW j \in 1 .. Len(Children), j # main.i
        PROVE  child'[Children[j]] = child[Children[j]]
    <3>1. Children[j] \in Super!Child /\ Children[j] # Super!Current
      BY <1>1, <1>2, <2>3, ChildrenAre
    <3> QED
      BY <1>3, <2>1, <3>1
  <2> QED
    BY <1>1, <2>1, <2>2, <2>3, StoppedStays
<1> QED
  BY <1>4, <1>5, <1>6

\* Every other step moves the supervisor, or sets its flag.
LEMMA SuperStays ==
  ASSUME Super!SupervisorConstants, SuperInv, [Super!Next]_superVars
  PROVE  SuperInv'
<1>1. Super!TypeOK /\ Len(Children) \in Nat \ {0} /\ MaxBad \in Nat
  BY ChildrenAre DEF SuperInv
<1>2. CASE Super!LaunchFails
  <2>1. /\ main' = [place |-> "gone", i |-> 0] /\ bad < MaxBad /\ bad' = bad + 1
        /\ UNCHANGED <<child, backoff, slept, unseen, stopping>>
    BY <1>2 DEF Super!LaunchFails, Super!At
  <2>2. main'.place = "gone" /\ 0 \in 0 .. Len(Children)
    BY <1>1, <2>1
  <2>3. bad' \in 0 .. MaxBad
    <3>1. bad \in 0 .. MaxBad
      BY <1>1 DEF Super!TypeOK
    <3> QED
      BY <1>1, <2>1, <3>1
  <2>4. Super!TypeOK'
    BY <1>1, <2>1, <2>2, <2>3 DEF Super!TypeOK
  <2> QED
    BY <2>2, <2>4 DEF SuperInv, Super!NobodyLeft
<1>3. CASE Super!Signal
  BY <1>1, <1>3 DEF Super!Signal, SuperInv, Super!TypeOK, Super!NobodyLeft
<1>4. CASE Super!PollAlive
  <2>1. /\ main.place = "poll" /\ unseen' = unseen \ {Super!Current}
        /\ main' = Super!Behind("poll", [place |-> "sleep", i |-> 0])
        /\ UNCHANGED <<child, backoff, slept, stopping, bad>>
    BY <1>4 DEF Super!PollAlive, Super!Polled, Super!At
  <2>2. main.i \in 1 .. Len(Children) /\ unseen' \subseteq Super!Child
    BY <1>1, <2>1 DEF SuperInv, Super!TypeOK
  <2>3. \/ main' = [place |-> "sleep", i |-> 0]
        \/ main' = [place |-> "poll", i |-> main.i + 1] /\ main.i + 1 \in 1 .. Len(Children)
    BY <2>1, <2>2, BehindIs
  <2>4. /\ main' \in [place : {"launch", "gone", "poll", "restart", "sleep", "stop", "wait",
                               "ended"}, i : 0 .. Len(Children)]
        /\ main'.place \in {"sleep", "poll"}
        /\ main'.place = "poll" => main'.i \in 1 .. Len(Children)
    BY <1>1, <2>3
  <2>5. Super!TypeOK'
    BY <1>1, <2>1, <2>2, <2>4 DEF Super!TypeOK
  <2> QED
    BY <2>4, <2>5 DEF SuperInv, Super!NobodyLeft
<1>5. CASE Super!PollDead
  <2>1. /\ main.place = "poll" /\ child[Children[main.i]] = "dead"
        /\ main' = [place |-> "restart", i |-> main.i]
        /\ UNCHANGED <<child, backoff, slept, unseen, stopping, bad>>
    BY <1>5 DEF Super!PollDead, Super!Current, Super!At
  <2>2. main.i \in 1 .. Len(Children) /\ main.i \in 0 .. Len(Children)
        /\ main'.place = "restart" /\ main'.i = main.i
    BY <1>1, <2>1 DEF SuperInv
  <2>3. Super!TypeOK'
    BY <1>1, <2>1, <2>2 DEF Super!TypeOK
  <2> QED
    BY <2>1, <2>2, <2>3 DEF SuperInv, Super!NobodyLeft
<1>6. CASE Super!Wake
  <2>1. /\ main' = IF stopping THEN [place |-> "stop", i |-> 1] ELSE [place |-> "poll", i |-> 1]
        /\ UNCHANGED <<child, backoff, slept, unseen, stopping, bad>>
    BY <1>6 DEF Super!Wake, Super!At
  <2>2. /\ main' \in [place : {"launch", "gone", "poll", "restart", "sleep", "stop", "wait",
                               "ended"}, i : 0 .. Len(Children)]
        /\ main'.place \in {"stop", "poll"} /\ main'.i = 1 /\ 1 \in 1 .. Len(Children)
    BY <1>1, <2>1
  <2>3. Super!TypeOK'
    BY <1>1, <2>1, <2>2 DEF Super!TypeOK
  <2>4. 1 .. main'.i - 1 = {}
    BY <2>2
  <2> QED
    BY <2>2, <2>3, <2>4 DEF SuperInv, Super!NobodyLeft
<1>7. CASE UNCHANGED superVars
  BY <1>7 DEF superVars, SuperInv, Super!TypeOK, Super!NobodyLeft
<1> QED
  BY <1>2, <1>3, <1>4, <1>5, <1>6, <1>7, LaunchStays, RestartStays, ExitStays,
     RestartFailsStays, StopStays DEF Super!Next, Super!Supervise

\* A process never runs twice, and when the supervisor has ended none of its children
\* lives on, for any list of processes, exits, failed starts and signals: main and
\* ManagedProcess of run_pipeline.py.
THEOREM SupervisorLeavesNobody ==
  ASSUME Super!SupervisorConstants
  PROVE  Super!Spec => [](Super!TypeOK /\ Super!NobodyTwice /\ Super!NobodyLeft)
<1>1. Super!Init => SuperInv
  BY SuperStarts
<1>2. SuperInv /\ [Super!Next]_superVars => SuperInv'
  BY SuperStays
<1>3. SuperInv => Super!TypeOK /\ Super!NobodyTwice /\ Super!NobodyLeft
  <2>1. SuperInv /\ main.place = "launch" => child[Children[main.i]] = "new"
    <3>1. Len(Children) \in Nat
      BY ChildrenAre
    <3> QED
      BY <3>1 DEF SuperInv
  <2> QED
    BY <2>1 DEF SuperInv, Super!NobodyTwice, Super!Current
<1>4. Super!Spec => Super!Init /\ [][Super!Next]_superVars
  BY DEF Super!Spec, Super!supervisorVars, superVars
<1> QED
  BY <1>1, <1>2, <1>3, <1>4, PTL
=============================================================================
