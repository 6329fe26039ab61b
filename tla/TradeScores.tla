---------------------------- MODULE TradeScores ----------------------------
(***************************************************************************)
(* The score of a trade: explain_trades_against_window of                  *)
(* app/services/trade_suspicion.py (how it stands out of its market's      *)
(* tape), explain_trades_with_context of app/services/trade_context.py     *)
(* (what surrounds it) and what app/services/trade_flag_materializer.py    *)
(* makes of the two.                                                       *)
(*                                                                         *)
(* Scores and features are thousandths, multipliers per cent, prices       *)
(* cents, amounts dollars. The features of a trade (how far its size and   *)
(* its move are from the median, the move itself, the cluster it ends) and *)
(* the measures of its surroundings are given; here is what they add up    *)
(* to, with every cap, floor and discount.                                 *)
(***************************************************************************)
EXTENDS Integers

CONSTANT None    \* no news on that side of the trade

Unpriced == -1   \* the amount of a trade without count or price

Least(a, b) == IF a <= b THEN a ELSE b
Most(a, b) == IF a >= b THEN a ELSE b

\* round(a / b, 0) of naturals
RoundDiv(a, b) == (2 * a + b) \div (2 * b)

----------------------------------------------------------------------------
(* Against the market's own tape                                            *)

\* Features of a trade: distances of size and move (_robust_z, at most 6), the
\* move itself (at most 4), the score of the cluster it ends (at most 3), and
\* whether the market's side was the same all along.
Features ==
  {e \in [size : Nat, move : Nat, jump : Nat, cluster : Nat, steady : BOOLEAN] :
     e.size <= 6000 /\ e.move <= 6000 /\ e.jump <= 4000 /\ e.cluster <= 3000}

Sudden(e) == e.cluster >= 1500 /\ ~e.steady

\* A burst of small trades keeps more of the score.
ClusterFloor(d, e) ==
  IF ~Sudden(e) \/ e.cluster < 3000 THEN 0
  ELSE IF d < 25 THEN 35 ELSE IF d < 100 THEN 55 ELSE IF d < 250 THEN 75 ELSE 0

\* What the amount alone leaves of the score.
AmountShare(d) ==
  IF d < 10 THEN 3 ELSE IF d < 25 THEN 5 ELSE IF d < 100 THEN 20 ELSE IF d < 250 THEN 45
  ELSE IF d < 1000 THEN 100 ELSE IF d < 5000 THEN 112 ELSE 130

\* _notional_multiplier
Multiplier(d, e) ==
  IF d = Unpriced THEN 100 ELSE Most(AmountShare(d), ClusterFloor(d, e))

ClusterPart(e) ==
  IF e.size >= 1500 \/ e.jump >= 500 \/ Sudden(e) THEN e.cluster ELSE 0

LocalScore(d, e) ==
  Least(10000, RoundDiv((45 * e.size + 35 * e.move + 15 * e.jump + 20 * ClusterPart(e))
                          * Multiplier(d, e), 4500))

\* What is left of the features with only k earlier trades of the market.
Truncated(e, k) ==
  [size    |-> IF k >= 3 THEN e.size ELSE 0,
   move    |-> IF k >= 4 THEN e.move ELSE 0,
   jump    |-> IF k >= 1 THEN e.jump ELSE 0,
   cluster |-> IF k >= 2 THEN Least(e.cluster, 500 * (k - 1)) ELSE 0,
   steady  |-> k >= 3 /\ e.steady]

----------------------------------------------------------------------------
(* In its context                                                           *)

\* Hours to the nearest linked news after a trade, and since the last one
\* before it: further news does not count.
Ahead == (0 .. 72) \union {None}
Behind == (0 .. 24) \union {None}

\* Siblings that moved: how many have a price before the trade and one after,
\* and the median of their moves in about ten minutes.
SiblingMoves == [siblings : Nat, median : 0 .. 100]

\* Surroundings of a trade: its share of the open interest and of the day's
\* volume and its impact per contract, as points (0 below their thresholds); a
\* wide spread; the move, the move in the direction of the taker and the one
\* that followed, in cents; size and move against the peers; the news around
\* it and the siblings; the prior, the close and the sector of the market.
Contexts ==
  {c \in [interest : Nat, day : Nat, impact : Nat, wide : BOOLEAN, move : Nat, push : Int,
          follow : Int, peers : {0, 700, 1200}, peerMove : BOOLEAN, ahead : Ahead,
          behind : Behind, sibling : SiblingMoves, prior : BOOLEAN, closing : BOOLEAN,
          sports : BOOLEAN] :
     c.interest <= 1000 /\ c.day <= 800 /\ c.impact <= 800}

Points(condition, n) == IF condition THEN n ELSE 0

\* Small trades out of a cluster have no impact of their own.
Meaningful(d, cluster) == d = Unpriced \/ d >= 25 \/ cluster >= 3000

LiquidityImpact(c, d, cluster) ==
  Least(2000, c.interest + c.day + Points(Meaningful(d, cluster), c.impact)
              + Points(c.wide /\ c.move >= 3, 400))

Followthrough(c) ==
  LET points == Points(c.push >= 3 /\ c.follow >= 3, 1200)
                + Points(c.follow >= 8 /\ c.move < 3, 1400)
                - Points(c.push >= 5 /\ c.follow < 0, 500)
  IN Most(0, Least(2000, points))

PeerBaseline(c) == Least(2000, c.peers + Points(c.peerMove, 800))

\* News within three days that the price moved ahead of.
NewsTiming(c) ==
  IF c.ahead = None \/ c.follow < 3 THEN 0
  ELSE IF c.ahead <= 6 THEN 2000 ELSE IF c.ahead <= 24 THEN 1200 ELSE 600

CrossMarket(c) ==
  IF c.sibling.siblings = 0 THEN 0
  ELSE IF c.sibling.median >= 3 /\ c.follow >= 3 THEN 1000
  ELSE Points(c.sibling.siblings >= 2 /\ (c.follow >= 8 \/ c.follow <= -8) /\ c.sibling.median < 1, 700)

\* The components before the last one.
Components(c, d, cluster, localScore) ==
  Least(2500, RoundDiv(localScore, 4)) + LiquidityImpact(c, d, cluster) + Followthrough(c)
  + PeerBaseline(c) + NewsTiming(c) + CrossMarket(c)

\* priority_context: a risky kind of market, or one that closes within a day.
WithPriority(c, points) ==
  points + (IF c.prior /\ points >= 2000 THEN 500 ELSE Points(c.closing, 400))

NoCap == 10000

\* What a cap is for a burst and for a single trade.
Either(burst, b, single) == IF burst THEN b ELSE single

\* Mutant: the cap of the smallest trades is missing.
ContextCap_Tiny(d, cluster) ==
  IF d >= 25 /\ d < 100 THEN Either(cluster >= 3000, 4500, 3500) ELSE NoCap

\* Mutant: whatever costs 100 dollars or more is capped like 100 to 249.
ContextCap_Large(d, cluster) ==
  LET burst == cluster >= 3000 IN
  IF d = Unpriced THEN NoCap
  ELSE IF d < 10 THEN Either(burst, 2500, 1500)
  ELSE IF d < 25 THEN Either(burst, 3000, 2000)
  ELSE IF d < 100 THEN Either(burst, 4500, 3500)
  ELSE Either(burst, 6000, NoCap)

\* _low_notional_context_cap
ContextCap(d, cluster) ==
  LET burst == cluster >= 3000 IN
  IF d = Unpriced \/ d >= 250 THEN NoCap
  ELSE IF d < 10 THEN Either(burst, 2500, 1500)
  ELSE IF d < 25 THEN Either(burst, 3000, 2000)
  ELSE IF d < 100 THEN Either(burst, 4500, 3500)
  ELSE Either(burst, 6000, NoCap)

\* A trade after its news, and before no other, counts less.
Discount(c) ==
  IF c.behind = None \/ c.ahead # None THEN 100 ELSE IF c.behind <= 6 THEN 65 ELSE 80

ContextScore(c, d, cluster, localScore) ==
  LET points == Least(10000, WithPriority(c, Components(c, d, cluster, localScore)))
      capped == Least(points * (IF c.sports THEN 75 ELSE 100), 100 * ContextCap(d, cluster))
  IN RoundDiv(capped * Discount(c), 10000)

----------------------------------------------------------------------------
(* The flag                                                                 *)

\* final_trade_flag_score
FinalScore(localScore, contextScore, discount) ==
  Least(10000, Most(contextScore,
                    IF discount < 100 THEN RoundDiv(localScore * discount, 100)
                    ELSE localScore))

Score(d, e, c) ==
  FinalScore(LocalScore(d, e), ContextScore(c, d, e.cluster, LocalScore(d, e)), Discount(c))

MinScore == 3000        \* TRADE_FLAG_MIN_SCORE
TriggeredScore == 7000  \* TRADE_FLAG_TRIGGERED_SCORE
CaseScore == 8500       \* TRADE_FLAG_CASE_SCORE

\* severity_for_score
Severity(score) ==
  IF score >= CaseScore THEN "critical"
  ELSE IF score >= TriggeredScore THEN "high"
  ELSE IF score >= 5000 THEN "medium" ELSE "low"

\* The tier that a flag asks for, if any: _promote_flag_if_needed.
Promotion(score, c) ==
  IF score < TriggeredScore THEN None
  ELSE IF score >= CaseScore \/ NewsTiming(c) > 0 THEN "case" ELSE "triggered"
=============================================================================
