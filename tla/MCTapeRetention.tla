-------------------------- MODULE MCTapeRetention --------------------------
(* Instances of TapeRetention for TLC: two tiers, and chart intervals 1   *)
(* that covers a trade for its deletion and 2 that does not.  A market    *)
(* must have closed more than Days[k] units ago.                          *)
EXTENDS TapeRetention, TLC

CONSTANTS t1, t2

MCMarketOf == [t \in Trade |-> 1]
MCDays == <<0, 1>>
MCLongDays == <<1, 2>>
MCPolicies ==
  {[source |-> 1, target |-> 2, grace |-> 1, closedOnly |-> TRUE],
   [source |-> 1, target |-> 2, grace |-> 2, closedOnly |-> FALSE]}
=============================================================================
