----------------------------- MODULE TierPolicy -----------------------------
(***************************************************************************)
(* Which raw events of a market are worth keeping (app/services/           *)
(* retention.py).  The reasons that hold for an event are a set; each has  *)
(* a weight, and the sum decides the storage tier.                         *)
(***************************************************************************)
EXTENDS Integers, FiniteSetsExt

\* retention_score: what each reason adds.
Weight ==
  [high_prior |-> 30, medium_prior |-> 10, closing_soon |-> 20,
   volume_24h_floor |-> 15, open_interest_floor |-> 10,
   materialized_anomaly |-> 35, severe_anomaly |-> 40, price_zscore |-> 25,
   trade_burst |-> 25, news_match |-> 30, pre_news_directional_move |-> 40,
   l2_pull |-> 20]
Reason == DOMAIN Weight
RetentionScore(reasons) == MapThenSumSet(LAMBDA r : Weight[r], reasons)

\* The decision for a score: the rate is the percentage of events kept.
Decision(tier, raw, rate, evidence) ==
  [tier |-> tier, raw |-> raw, rate |-> rate, evidence |-> evidence]
TierOf(score) ==
  CASE score >= 110 -> Decision("case", TRUE, 100, TRUE)
    [] score >= 80 /\ score < 110 -> Decision("triggered", TRUE, 100, TRUE)
    [] score >= 50 /\ score < 80 -> Decision("hot", TRUE, 100, FALSE)
    [] score >= 20 /\ score < 50 -> Decision("sampled", TRUE, 10, FALSE)
    [] score >= 0 /\ score < 20 -> Decision("observe_only", FALSE, 0, FALSE)
    [] OTHER -> Decision("ignored", FALSE, 0, FALSE)
StorageDecision(reasons) == TierOf(RetentionScore(reasons))

\* should_sample_event: the hash of the key decides, so a key is kept at every
\* rate above its own.  Hashed are the keys whose hash is below 10 %.
SampleEvent(key, rate, Hashed) == rate = 100 \/ (rate > 0 /\ key \in Hashed)

\* is_in_scope: categories and priors that are not watched at all.
InScope(c) ==
  /\ c.category \notin {"exotic_combo", "crypto_strike"}
  /\ c.prior # "very_low"

\* _raw_tape_decision: only an event that would not be kept looks for an alert,
\* and only without one for a severe trade flag, which counts as a burst.
RawTapeDecision(hints, anomaly, severeFlag) ==
  LET cheap == StorageDecision(hints) IN
  IF cheap.raw THEN cheap
  ELSE IF anomaly THEN StorageDecision(hints \union {"materialized_anomaly"})
  ELSE IF severeFlag THEN StorageDecision(hints \union {"trade_burst"})
  ELSE cheap
=============================================================================
