---------------------------- MODULE MCTradeTape ----------------------------
(* Instance of TradeTape for TLC: two trades and a book message of a market  *)
(* of low prior, so that each tier but "case" is reached through an alert, a *)
(* flag or its volume. The two trades go to one table, the message to        *)
(* another.                                                                  *)
EXTENDS TradeTape, TLC

CONSTANTS w1, w2, t1, t2, b1, home

Workers == Permutations(Worker)
MCMarketOf == [r \in Row |-> home]
MCTableOf == [r \in Row |-> IF r \in Trade THEN "trades" ELSE "l2"]
MCClass == home :> [category |-> "judicial", prior |-> "low"]
MCMaxDeliver == [r \in Row |-> IF r = t1 THEN 2 ELSE 1]
MCLevels == {{}, {"volume_24h_floor"}}
=============================================================================
