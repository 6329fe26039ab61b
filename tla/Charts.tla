------------------------------- MODULE Charts -------------------------------
(***************************************************************************)
(* The chart of a market, from three sides: the ledger of its rows         *)
(* (ChartHistory, whose names this module has), the quotes that reach      *)
(* them (QuoteTape), and the prices that one wide row shows of its fine    *)
(* ones (ChartMerge). The ledger takes quotes and prices for granted, the  *)
(* quotes only ask whether a bucket has a row, and the prices only which   *)
(* rows are compacted into one, so each runs by itself.                    *)
(***************************************************************************)
EXTENDS ChartHistory

CONSTANTS Ticked, Offer, NoQuote, Absent, Kept, Gate, MinGap, Heartbeat, Fresh, BucketWidth,
          MaxTxn, MaxMinute, MaxFail

VARIABLES minute, metric, snapshot, chart, mark, gated, hot, handler, poller, bump, told,
          spent, fails

\* Ticked, Offer: the markets and the quotes of QuoteTape.
Quotes == INSTANCE QuoteTape WITH
  Market <- Ticked, Quote <- Offer, Width <- BucketWidth, MaxTime <- MaxMinute,
  now <- minute

quoteVars == <<minute, metric, snapshot, chart, mark, gated, hot, handler, poller, bump,
               told, spent, fails>>

\* ChartMerge, where FineWidth is the width of a fine bucket and WideTime the clock's end
CONSTANTS FineWidth, WideTime, Price, Bid, MaxObs

VARIABLES hour, fine, wide, history

Merge == INSTANCE ChartMerge WITH Width <- FineWidth, MaxTime <- WideTime, now <- hour

mergeVars == <<hour, fine, wide, history>>

----------------------------------------------------------------------------
(* What the parts promise, as their modules state and explain it            *)

\* A market shows the quote of its last tick: QuoteTape.
QuoteFollows == Quotes!QuoteFollows

\* A handled tick leaves a chart row: QuoteTape.
HoleBounded == Quotes!HoleBounded

\* Wide and fine rows together show what the history shows: ChartMerge.
CompactionFaithful == Merge!CompactionFaithful
=============================================================================
