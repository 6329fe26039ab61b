----------------------------- MODULE FlagSweep -----------------------------
(***************************************************************************)
(* materialize_trade_flags of app/services/trade_flag_materializer.py: a   *)
(* sweep scores the newest trades of the tape, market by market, each      *)
(* market in a transaction of its own, and writes a flag for a score that  *)
(* is high enough.  A later sweep scores a trade again with less of the    *)
(* tape before it and other surroundings: quotes, siblings and news.       *)
(*                                                                         *)
(* Trades arrive in the order of their times, with a price each; there is  *)
(* one scorer version, and trades stay (TapeRetention takes them away).    *)
(***************************************************************************)
EXTENDS TradeScores, Sequences, FiniteSets

CONSTANTS
  Tapes,         \* tapes: sequences of trades with market, dollars and features
  Surroundings,  \* what a sweep may find around a trade, in Contexts
  MaxTrades      \* max_trades of a sweep

\* What the theorems assume of the constants.
SweepAssumption ==
  /\ Tapes \subseteq Seq([market : Nat, dollars : Nat \union {Unpriced}, features : Features])
  /\ Surroundings \subseteq Contexts /\ MaxTrades \in Nat \ {0}

VARIABLES
  tape,     \* the trades of this behaviour, in the order of their times
  arrived,  \* how many of them are stored
  flag,     \* flag[i]: the flag of the i-th trade
  sweep     \* the sweep in progress

vars == <<tape, arrived, flag, sweep>>

NoFlag == [score |-> 0, severity |-> "none", promoted |-> None, case |-> FALSE,
           features |-> None, context |-> None]
Idle == [at |-> "idle"]

Init ==
  /\ tape \in Tapes /\ arrived = 0
  /\ flag = [i \in DOMAIN tape |-> NoFlag] /\ sweep = Idle

\* handle_trade_message stores the next trade.
Arrive ==
  /\ arrived < Len(tape) /\ arrived' = arrived + 1
  /\ UNCHANGED <<tape, flag, sweep>>

\* The newest trades, oldest first.
BeginSweep ==
  LET batch == (Most(0, arrived - MaxTrades) + 1) .. arrived IN
  /\ sweep = Idle /\ batch # {}
  /\ sweep' = [at |-> "between", batch |-> batch, left |-> {tape[i].market : i \in batch}]
  /\ UNCHANGED <<tape, arrived, flag>>

\* _materialize_market_trade_flags for the next market of the batch: the one
\* of the first trade that is left.
BeginMarket(m) ==
  /\ sweep.at = "between" /\ m \in sweep.left
  /\ \E i \in sweep.batch : /\ tape[i].market = m
                            /\ \A j \in sweep.batch : j < i => tape[j].market \notin sweep.left
  /\ sweep' = [at |-> "market", batch |-> sweep.batch, left |-> sweep.left \ {m},
               todo |-> {i \in sweep.batch : tape[i].market = m}, rows |-> flag]
  /\ UNCHANGED <<tape, arrived, flag>>

\* The earlier trades of the market that the batch still has.
Before(i) == Cardinality({j \in sweep.batch : j < i /\ tape[j].market = tape[i].market})

\* _promote_flag_if_needed: the row of a flag below the triggered score is left.
Promoted(row, score, c) ==
  IF Promotion(score, c) = None THEN row
  ELSE [row EXCEPT !.promoted = Promotion(score, c), !.case = Promotion(score, c) = "case"]

\* _upsert_flag and the promotion, if the score is high enough for a flag; a
\* flag that the trade has is left when it is not.
Rescored(row, d, e, c) ==
  LET score == Score(d, e, c) IN
  IF score < MinScore THEN row
  ELSE Promoted([score |-> score, severity |-> Severity(score), features |-> e, context |-> c,
                 promoted |-> row.promoted, case |-> row.case], score, c)

ScoreTrade(i) ==
  /\ sweep.at = "market" /\ i \in sweep.todo /\ \A j \in sweep.todo : i <= j
  /\ \E c \in Surroundings :
       sweep' = [at |-> "market", batch |-> sweep.batch, left |-> sweep.left,
                 todo |-> sweep.todo \ {i},
                 rows |-> [sweep.rows EXCEPT ![i] =
                             Rescored(@, tape[i].dollars, Truncated(tape[i].features, Before(i)), c)]]
  /\ UNCHANGED <<tape, arrived, flag>>

Done(left, batch) ==
  IF left = {} THEN Idle ELSE [at |-> "between", batch |-> batch, left |-> left]

CommitMarket ==
  /\ sweep.at = "market" /\ sweep.todo = {}
  /\ flag' = sweep.rows /\ sweep' = Done(sweep.left, sweep.batch)
  /\ UNCHANGED <<tape, arrived>>

\* A deadlock takes the market out of the sweep, any other error ends it.
FailMarket ==
  /\ sweep.at = "market"
  /\ sweep' \in {Done(sweep.left, sweep.batch), Idle}
  /\ UNCHANGED <<tape, arrived, flag>>

Next ==
  \/ Arrive \/ BeginSweep
  \/ sweep # Idle /\ \E m \in {tape[i].market : i \in sweep.batch} : BeginMarket(m)
  \/ \E i \in DOMAIN tape : ScoreTrade(i)
  \/ CommitMarket \/ FailMarket

Spec == Init /\ [][Next]_vars

----------------------------------------------------------------------------
(* What must hold                                                           *)

Flagged(i) == flag[i] # NoFlag

\* Small bets stay quiet: a trade below 25 dollars is flagged only if it ends a
\* sudden cluster, and then with the lowest severity and without a promotion,
\* whatever surrounds it and however often it is scored again.
SmallBetsQuiet ==
  \A i \in DOMAIN tape :
    Flagged(i) /\ tape[i].dollars \in 0 .. 24 =>
      /\ flag[i].severity = "low" /\ flag[i].promoted = None /\ ~flag[i].case
      /\ tape[i].features.cluster >= 3000

\* A cluster never lowers the score of the trade that ends it, except between
\* 100 and 249 dollars, where only clusters have a cap.
ClustersRaise ==
  \A i \in DOMAIN tape :
    Flagged(i) /\ tape[i].dollars \notin 100 .. 249 =>
      flag[i].score >= Score(tape[i].dollars, [flag[i].features EXCEPT !.cluster = 0],
                             flag[i].context)
=============================================================================
