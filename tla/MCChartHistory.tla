--------------------------- MODULE MCChartHistory ---------------------------
(* Instances for TLC: the chart ledger with intervals of 1, 2 and 4 units    *)
(* for the 300, 3600 and 86400 seconds of the budget deployment and its      *)
(* policies; beside it the prices of one wide bucket and its fine ones, and  *)
(* the quotes of one market, with the write gate and the chart throttle at   *)
(* two units, a bucket, the snapshot heartbeat and the freshness of the      *)
(* poller at three. The write gate is tried with a market in a low tier,     *)
(* where it holds most back, and single writes with one in a tier that keeps *)
(* every change. A behaviour is one of one part, chosen at the start. The    *)
(* two compactors do the same, so they are symmetric, and so are the two     *)
(* observations of the first market, both quotes.                            *)
EXTENDS Charts, TLC

CONSTANTS o1, o2, o3

VARIABLES part

\* What the theorems about QuoteTape and ChartMerge assume of these constants.
ASSUME MCChartConstants == Quotes!QuoteConstants /\ Merge!MergeConstants

Symmetry == Permutations(Compactor) \union Permutations({o1, o2})

MCMarketOf == [o \in Obs |-> IF o = o3 THEN 2 ELSE 1]
MCWidth == <<1, 2, 4>>
MCPolicies ==
  << [source |-> 1, target |-> 2, grace |-> 2, closedOnly |-> TRUE],
     [source |-> 2, target |-> 3, grace |-> 3, closedOnly |-> FALSE] >>

MCBid == {-1, 1}

\* Bound: markets close early. With a grace of two no cutoff before the end of
\* the clock reaches a later close, so such a market is like an open one.
EarlyClose == \A m \in Market : closed[m] <= 1

MCInit ==
  /\ part \in {"ledger", "merge", "quotes"}
  /\ Init /\ Merge!Init /\ Quotes!Init
  /\ IF part = "quotes" THEN hot = {} <=> gated ELSE hot = {} /\ gated

MCNext ==
  /\ UNCHANGED part
  /\ \/ part = "ledger" /\ Next /\ EarlyClose' /\ UNCHANGED <<mergeVars, quoteVars>>
     \/ part = "merge" /\ Merge!Next /\ UNCHANGED <<vars, quoteVars>>
     \/ part = "quotes" /\ Quotes!Next /\ UNCHANGED <<vars, mergeVars>>

MCSpec == MCInit /\ [][MCNext]_<<part, vars, mergeVars, quoteVars>>
=============================================================================
