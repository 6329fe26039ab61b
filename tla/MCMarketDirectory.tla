-------------------------- MODULE MCMarketDirectory --------------------------
(* Instances of MarketDirectory for TLC. The item of market a says more than *)
(* its ticker and title; market b turns out to be out of scope. At the start *)
(* the directory is empty, or has an old row of both, that of b hydrated.    *)
EXTENDS MarketDirectory, TLC

CONSTANTS a, b

Other == [cat |-> "other", prior |-> "medium"]
Court == [cat |-> "judicial", prior |-> "high"]
Rain == [cat |-> "weather", prior |-> "very_low"]

MCVerdicts == {Other, Court, Rain}
MCByTicker == [m \in Market |-> Other]
MCByTitle == [m \in Market |-> Other]
MCByItem == [m \in Market |-> IF m = b THEN Rain ELSE Court]
MCGaps == {{}, {"title"}, {"status"}}

MCInit ==
  /\ Init
  /\ row[a] = NoRow <=> row[b] = NoRow
  /\ row[a] # NoRow => row[a].id = 1 /\ row[b].titled

MCSpec == MCInit /\ [][Next]_vars /\ Fairness
=============================================================================
