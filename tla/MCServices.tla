----------------------------- MODULE MCServices -----------------------------
(* The parts that share no state with the rest, each in a small instance:    *)
(* the news pipeline, the compaction loop, the supervisor, the batcher under *)
(* a feed that need never pause, and the sweeps over a tape of nine trades,  *)
(* eight at a time, of which the eighth stands out. A behaviour is one of    *)
(* one part, chosen at the start; the variables of the others stay as they   *)
(* are.                                                                      *)
EXTENDS TradeSignals

CONSTANTS Nobody, trade, book

VARIABLES
  part,
  now, at, closed, recorded, rows, lock, pc, policy, cutoff, todo, batch, aborts, reader,
  asked, gathered,
  child, backoff, slept, unseen, main, stopping, bad,
  queue, buffers, thread, flushing, closing, accepted, inserted, lost

(* Two markets, a story of two articles, of which the second represents it;  *)
(* the first market fails the gate after its third revision, and the second  *)
(* article is weak for the second market.                                    *)
NewsLinks ==
  {l \in {"a1", "a2"} \X {"m1", "m2"} \X (1 .. 3) :
     l[1] = "a2" => l[2] = "m1" /\ l[3] # 3}

MCWeak == {<<"a2", "m2", 1>>}

MCStory == [a1 |-> "story", a2 |-> "story"]
MCRank == [a1 |-> 1, a2 |-> 2]

(* Intervals of 1, 2 and 4 units, and the two policies of the deployment.    *)
Watch == INSTANCE ChartHistory WITH
  Obs <- {"o1", "o3"}, QuoteObs <- {"o1"}, Market <- {1, 2}, MarketOf <- [o1 |-> 1, o3 |-> 2],
  Interval <- {1, 2, 3}, Width <- <<1, 2, 4>>,
  Policies <- << [source |-> 1, target |-> 2, grace |-> 2, closedOnly |-> TRUE],
                 [source |-> 2, target |-> 3, grace |-> 3, closedOnly |-> FALSE] >>,
  MaxLag <- 1, MaxMarkets <- 1, MaxRows <- 1, Compactor <- {"c1", "c2"}, MaxTime <- 3,
  MaxAbort <- 1

Super == INSTANCE Supervisor WITH
  Children <- <<"poller", "ws">>, MaxBackoff <- 4, MaxBad <- 1

(* Two tables, and rows of both for as long as the behaviour lasts.          *)
Batcher == INSTANCE ClickHouseBatcher WITH
  Row <- {trade, book}, Table <- {"trades", "l2"},
  TableOf <- [r \in {trade, book} |-> IF r = trade THEN "trades" ELSE "l2"],
  MaxRows <- 2, QueueSize <- 2,
  todo <- flushing, stopping <- closing

Plain == [size |-> 0, move |-> 0, jump |-> 0, cluster |-> 0, steady |-> TRUE]
Loud == [size |-> 6000, move |-> 6000, jump |-> 4000, cluster |-> 3000, steady |-> FALSE]

\* Six trades of the market, one of another, the trade, and one more.
TapeOf(d, e) ==
  [i \in 1 .. 9 |-> [market |-> IF i = 9 THEN 2 ELSE 1,
                     dollars |-> IF i = 8 THEN d ELSE 5,
                     features |-> IF i = 8 THEN e ELSE Plain]]

Quiet == [interest |-> 0, day |-> 0, impact |-> 0, wide |-> FALSE, move |-> 0, push |-> 0,
          follow |-> 0, peers |-> 0, peerMove |-> FALSE, ahead |-> None,
          behind |-> None, sibling |-> [siblings |-> 0, median |-> 0], prior |-> FALSE,
          closing |-> FALSE, sports |-> FALSE]
Telling == [interest |-> 1000, day |-> 800, impact |-> 800, wide |-> TRUE, move |-> 5,
            push |-> 5, follow |-> 9, peers |-> 1200, peerMove |-> TRUE, ahead |-> 2,
            behind |-> None, sibling |-> [siblings |-> 2, median |-> 4], prior |-> TRUE,
            closing |-> TRUE, sports |-> FALSE]
After == [Telling EXCEPT !.ahead = None, !.behind = 3]

MCTapes ==
  {TapeOf(d, e) : d \in {-1, 5, 10, 24, 25, 99, 100, 249, 250, 1000, 5000},
                  e \in {Loud, [Loud EXCEPT !.cluster = 0],
                         [Loud EXCEPT !.size = 1000, !.steady = TRUE]}}

MCSurroundings ==
  {Quiet, Telling, [Telling EXCEPT !.sports = TRUE], After,
   [After EXCEPT !.behind = 9, !.impact = 0]}

\* What the theorems about FlagSweep assume of these constants.
ASSUME MCSweepAssumption == SweepAssumption

\* And what those about Supervisor do.
ASSUME MCSupervisorAssumption == Super!SupervisorConstants

readVars == <<reader, asked, gathered>>
watchVars == <<now, at, closed, recorded, rows, lock, pc, policy, cutoff, todo, batch, aborts>>
superVars == <<child, backoff, slept, unseen, main, stopping, bad>>
batcherVars == <<queue, buffers, thread, flushing, closing, accepted, inserted, lost>>

(* Rows of either table may be handed over for ever: rows that are settled   *)
(* leave the counters before anything else happens.                          *)
Settled == {r \in {trade, book} : inserted[r] + lost[r] > 0}
Forget ==
  /\ Settled # {}
  /\ accepted' = [r \in {trade, book} |-> accepted[r] - inserted[r] - lost[r]]
  /\ inserted' = [r \in {trade, book} |-> 0] /\ lost' = [r \in {trade, book} |-> 0]
  /\ UNCHANGED <<queue, buffers, thread, flushing, closing>>
FeedThread == Forget \/ (Settled = {} /\ Batcher!BatchThread)
FeedNext ==
  \/ FeedThread
  \/ Settled = {} /\ (Batcher!Stop \/ \E r \in {trade, book} : Batcher!Enqueue(r))

MCInit ==
  /\ part \in {"news", "watch", "super", "flags", "feed"}
  /\ News!Init /\ Watch!Init /\ Super!Init /\ Batcher!BatcherInit
  /\ IF part = "flags" THEN Init
     ELSE tape = <<>> /\ arrived = 0 /\ flag = <<>> /\ sweep = Idle

(* Requests read nothing in the instance of the compaction loop.             *)
OnlyNews ==
  part = "news" /\ UNCHANGED <<part, vars, readVars, watchVars, superVars, batcherVars>>
OnlyWatch ==
  part = "watch" /\ UNCHANGED <<part, vars, newsVars, readVars, superVars, batcherVars>>
OnlySuper ==
  part = "super" /\ UNCHANGED <<part, vars, newsVars, readVars, watchVars, batcherVars>>
OnlyFlags ==
  part = "flags" /\ UNCHANGED <<part, newsVars, readVars, watchVars, superVars, batcherVars>>
OnlyFeed ==
  part = "feed" /\ UNCHANGED <<part, vars, newsVars, readVars, watchVars, superVars>>

MCNext ==
  \/ OnlyNews /\ News!Next
  \/ OnlyWatch /\ Watch!Write
  \/ OnlySuper /\ Super!Next
  \/ OnlyFlags /\ Next
  \/ OnlyFeed /\ FeedNext

allVars == <<part, vars, newsVars, readVars, watchVars, superVars, batcherVars>>

(* The fairness of each part, as its own module states it.                   *)
MCSpec ==
  /\ MCInit /\ [][MCNext]_allVars
  /\ WF_allVars(OnlyNews /\ News!Cycle)
  /\ WF_allVars(OnlySuper /\ Super!Supervise)
  /\ WF_allVars(OnlyFeed /\ FeedThread)
  /\ \A c \in {"c1", "c2"} : WF_allVars(OnlyWatch /\ Watch!Compact(c))

(* ---- Properties, stated and explained in the modules of the parts ------ *)

\* Candidates are scored in the end: NewsDesk.
CandidatesScored == News!CandidatesScored

\* Profiles follow the metadata in the end: NewsDesk.
ProfilesFollow == News!ProfilesFollow

\* Old chart rows are compacted again and again: ChartHistory.
OldRowsCompacted == Watch!OldRowsCompacted

\* A buffer waits for ever only behind a faster one: ClickHouseBatcher.
RowsHandedIn == Batcher!RowsHandedIn

\* A child that exits runs again: Supervisor.
Restarted == Super!Restarted

\* A supervisor that is stopped leaves no child: Supervisor.
StopsAll == Super!StopsAll
=============================================================================
