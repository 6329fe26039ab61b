--------------------------- MODULE TapeRetention ---------------------------
(***************************************************************************)
(* The life of the raw tape.  A trade handler stores a trade; the flag     *)
(* sweep (app/services/trade_flag_materializer.py) flags suspicious ones   *)
(* and promotes the storage tier of their market; the retention sweep      *)
(* (scripts/run_retention_maintenance.py) copies flagged trades of markets *)
(* closed long ago to trade_evidence, then deletes raw trades, each tier   *)
(* after its own window, with the flags that reference them (ON DELETE     *)
(* CASCADE).  Chart compaction moves the rows that the deletion relies on. *)
(*                                                                         *)
(* PostgreSQL is read committed: a DELETE chooses its rows in the snapshot *)
(* of its start and deletes them when it holds their locks, so it is two   *)
(* steps; it waits for a flag insert that holds the row, and does not look *)
(* at the trade again.  Every other step is a transaction.  Scores,        *)
(* evidence payloads and case windows are left out; so are book events and *)
(* snapshots, which the sweep deletes first.  An advisory lock admits one  *)
(* retention sweep at a time.                                              *)
(***************************************************************************)
EXTENDS Integers, Sequences, FiniteSets

CONSTANTS
  Trade, Market,
  MarketOf,      \* MarketOf[t]: the market of t
  Days,          \* Days[k]: days after close of tier k; the last is "case"
  Promoted,      \* the tiers a flag can promote a market to
  Interval,      \* chart intervals, 1 the live one
  Covering,      \* the intervals whose rows cover a trade for the deletion
  Policies,      \* chart compaction: [source, target, grace, closedOnly]
  DeleteFlagged, \* --delete-flagged-trades-with-evidence
  BatchSize,     \* --batch-size
  MaxBatches,    \* --max-batches
  ScanAge,       \* bound: age of the trades among the latest max_trades
  ScanTime,      \* bound: duration of a flag sweep
  MaxLag,        \* bound: delay between a trade and its handler
  MaxVersion,    \* bound: scorer versions
  MaxTime,       \* bound: the clock
  MaxAbort       \* bound: failures of retention sweeps

ASSUME ConstantsOk ==
  /\ MarketOf \in [Trade -> Market]
  /\ Days \in Seq(Nat) /\ Days # <<>>
  /\ Promoted \subseteq DOMAIN Days
  /\ Interval \subseteq Nat \ {0} /\ 1 \in Interval /\ Covering \subseteq Interval
  /\ Policies \subseteq [source : Interval, target : Interval, grace : Nat,
                            closedOnly : BOOLEAN]
  /\ DeleteFlagged \in BOOLEAN
  /\ BatchSize \in Nat \ {0} /\ MaxBatches \in Nat \ {0}
  /\ ScanAge \in Nat /\ ScanTime \in Nat /\ MaxLag \in Nat
  /\ MaxVersion \in Nat /\ MaxTime \in Nat /\ MaxAbort \in Nat

Unset == -1

VARIABLES
  now,
  closed,    \* closed[m]: m is closed, or settled, or the like
  closeTime, \* closeTime[m]: its close_time once it is closed, or Unset
  tier,      \* tier[m]: market_metrics.storage_tier
  taken,     \* the trades the handler has stored
  at,        \* at[t]: the timestamp of t
  raw,       \* the rows of trades
  chart,     \* chart[t]: interval of the chart row of t, 0 if it has none
  version,   \* TRADE_SCORER_VERSION of the code that runs
  flags,     \* flags[t]: scorer versions of the rows of trade_flags
  flagged,   \* flagged[t]: the versions it was ever flagged with
  evidence,  \* evidence[t]: scorer versions of the rows of trade_evidence
  scan,      \* the trades that the flag sweep has read and not yet scored
  scanStart, \* when it read them
  stage,     \* where the retention sweep is
  level,     \* the tier it is at
  cutoff,    \* its cutoff
  batches,   \* batches of its current loop
  picked,    \* the rows its DELETE has chosen
  aborts

market == <<closed, closeTime>>
tape == <<taken, at, raw>>
flagTables == <<flags, flagged>>
flagSweep == <<scan, scanStart>>
retention == <<stage, level, cutoff, batches, picked, aborts>>
vars == <<now, market, tier, tape, chart, version, flagTables, evidence,
          flagSweep, retention>>

Init ==
  /\ now = 0
  /\ closed = [m \in Market |-> FALSE]
  /\ closeTime = [m \in Market |-> Unset]
  /\ tier = [m \in Market |-> 1]
  /\ taken = {} /\ at = [t \in Trade |-> 0] /\ raw = {}
  /\ chart = [t \in Trade |-> 0]
  /\ version = 1
  /\ flags = [t \in Trade |-> {}] /\ flagged = [t \in Trade |-> {}]
  /\ evidence = [t \in Trade |-> {}]
  /\ scan = {} /\ scanStart = 0
  /\ stage = "idle" /\ level = 0 /\ cutoff = 0 /\ batches = 0 /\ picked = {}
  /\ aborts = 0

-----------------------------------------------------------------------------
(* The world: time, the exchange, and the other writers.                   *)

\* A flag sweep lasts ScanTime at most.
Tick ==
  /\ now < MaxTime
  /\ scan # {} => now < scanStart + ScanTime
  /\ now' = now + 1
  /\ UNCHANGED <<market, tier, tape, chart, version, flagTables, evidence,
                 flagSweep, retention>>

\* The ingestor stores the status of a market that closed, and its close_time
\* if the exchange tells it.
CloseMarket(m) ==
  /\ ~closed[m]
  /\ closed' = [closed EXCEPT ![m] = TRUE]
  /\ \E time \in {now, Unset} : closeTime' = [closeTime EXCEPT ![m] = time]
  /\ UNCHANGED <<now, tier, tape, chart, version, flagTables, evidence,
                 flagSweep, retention>>

\* A quote of an open market: bulk_upsert_quote_metrics writes the tier that
\* was decided for it, whatever the tier was.
Ticker(m) ==
  /\ ~closed[m]
  /\ \E k \in DOMAIN Days : tier' = [tier EXCEPT ![m] = k]
  /\ UNCHANGED <<now, market, tape, chart, version, flagTables, evidence,
                 flagSweep, retention>>

\* _promote_market_metric_for_news_signal, with "case".
NewsPromote(m) ==
  /\ tier' = [tier EXCEPT ![m] = Len(Days)]
  /\ UNCHANGED <<now, market, tape, chart, version, flagTables, evidence,
                 flagSweep, retention>>

\* The trade handler: the raw row, and the chart row of a trade with a price
\* while chart history is enabled.  No trade is younger than the close.
TakeTrade(t) ==
  /\ t \notin taken
  /\ taken' = taken \cup {t} /\ raw' = raw \cup {t}
  /\ \E ts \in 0..now :
       /\ now - MaxLag <= ts
       /\ closeTime[MarketOf[t]] # Unset => ts <= closeTime[MarketOf[t]]
       /\ at' = [at EXCEPT ![t] = ts]
  /\ \E interval \in {0, 1} : chart' = [chart EXCEPT ![t] = interval]
  /\ UNCHANGED <<now, market, tier, version, flagTables, evidence, flagSweep,
                 retention>>

\* compact_chart_history moves the row that covers t.
CompactChart(t) ==
  /\ \E p \in Policies :
       /\ chart[t] = p.source /\ at[t] <= now - p.grace
       /\ p.closedOnly => closed[MarketOf[t]]
       /\ chart' = [chart EXCEPT ![t] = p.target]
  /\ UNCHANGED <<now, market, tier, tape, version, flagTables, evidence,
                 flagSweep, retention>>

-----------------------------------------------------------------------------
(* The flag sweep: materialize_trade_flags.                                *)

\* A new scorer is deployed: the running sweep, if any, is over.
Deploy ==
  /\ scan = {} /\ version < MaxVersion
  /\ version' = version + 1
  /\ UNCHANGED <<now, market, tier, tape, chart, flagTables, evidence,
                 flagSweep, retention>>

\* The latest trades are read.
FlagScan ==
  /\ scan = {}
  /\ \E age \in 0..ScanAge : scan' = {t \in raw : now - at[t] <= age}
  /\ scan' # {}
  /\ scanStart' = now
  /\ UNCHANGED <<now, market, tier, tape, chart, version, flagTables, evidence,
                 retention>>

\* What is left to be scored.
ScanLeft(S) == scan' = S /\ scanStart' = IF S = {} THEN 0 ELSE scanStart

OfMarket(S, m) == {t \in S : MarketOf[t] = m}

\* _materialize_market_trade_flags and its commit: some of the trades are
\* flagged, which the foreign key allows while their rows are there; the last
\* one with a high score sets the tier.
FlagMarket(m) ==
  /\ OfMarket(scan, m) # {}
  /\ ScanLeft(scan \ OfMarket(scan, m))
  /\ \E S \in SUBSET (OfMarket(scan, m) \cap raw) :
       /\ flags' = [t \in Trade |-> flags[t] \cup (IF t \in S THEN {version} ELSE {})]
       /\ flagged' = [t \in Trade |-> flagged[t] \cup (IF t \in S THEN {version} ELSE {})]
       /\ \/ UNCHANGED tier
          \/ S # {} /\ \E k \in Promoted : tier' = [tier EXCEPT ![m] = k]
  /\ UNCHANGED <<now, market, tape, chart, version, evidence, retention>>

\* A deadlock: the market is rolled back and skipped.
FlagSkip(m) ==
  /\ OfMarket(scan, m) # {}
  /\ ScanLeft(scan \ OfMarket(scan, m))
  /\ UNCHANGED <<now, market, tier, tape, chart, version, flagTables, evidence,
                 retention>>

\* Another error, a flag for a deleted trade among them, ends the sweep.
FlagFail ==
  /\ scan # {}
  /\ ScanLeft({})
  /\ UNCHANGED <<now, market, tier, tape, chart, version, flagTables, evidence,
                 retention>>

-----------------------------------------------------------------------------
(* The retention sweep: run_retention_maintenance with --execute.          *)

StartSweep ==
  /\ stage = "idle"
  /\ stage' = "next"
  /\ UNCHANGED <<now, market, tier, tape, chart, version, flagTables, evidence,
                 flagSweep, level, cutoff, batches, picked, aborts>>

\* The next tier, with its cutoff.
StartTier ==
  /\ stage = "next" /\ level < Len(Days)
  /\ stage' = "evidence"
  /\ level' = level + 1
  /\ cutoff' = now - Days[level + 1]
  /\ UNCHANGED <<now, market, tier, tape, chart, version, flagTables, evidence,
                 flagSweep, batches, picked, aborts>>

\* The market of t is of tier k and closed before the limit
\* (_CLOSED_MARKET_STATUS_SQL).
Expired(t, k, limit) ==
  LET m == MarketOf[t]
  IN  /\ tier[m] = k
      /\ IF closeTime[m] # Unset THEN closeTime[m] < limit
         ELSE closed[m] /\ at[t] < limit

Unevidenced == {f \in Trade \X (1..version) : f[2] \in flags[f[1]] \ evidence[f[1]]}

\* LIMIT n, whatever the order.
Batch(S) == {B \in SUBSET S : IF Cardinality(S) <= BatchSize THEN B = S
                              ELSE Cardinality(B) = BatchSize}

\* trade_evidence with a row for every flag of B.
Copied(B) == [t \in Trade |-> evidence[t] \cup {v \in 1..version : <<t, v>> \in B}]

\* Mutant: flags that have evidence are candidates too.
EvidenceBatch_All ==
  LET due == {f \in Trade \X (1..version) : /\ f[2] \in flags[f[1]]
                                           /\ Expired(f[1], level, cutoff)}
  IN  /\ stage = "evidence"
      /\ IF due = {} \/ batches = MaxBatches
           THEN /\ stage' = "delete" /\ batches' = 0
                /\ UNCHANGED evidence
           ELSE /\ \E B \in Batch(due) : evidence' = Copied(B)
                /\ batches' = batches + 1
                /\ UNCHANGED stage
      /\ UNCHANGED <<now, market, tier, tape, chart, version, flagTables,
                     flagSweep, level, cutoff, picked, aborts>>

\* _materialize_trade_evidence_batch and its commit, or the end of the loop.
EvidenceBatch ==
  LET due == {f \in Unevidenced : Expired(f[1], level, cutoff)}
  IN  /\ stage = "evidence"
      /\ IF due = {} \/ batches = MaxBatches
           THEN /\ stage' = "delete" /\ batches' = 0
                /\ UNCHANGED evidence
           ELSE /\ \E B \in Batch(due) : evidence' = Copied(B)
                /\ batches' = batches + 1
                /\ UNCHANGED stage
      /\ UNCHANGED <<now, market, tier, tape, chart, version, flagTables,
                     flagSweep, level, cutoff, picked, aborts>>

\* Mutant: flags are not looked at.
Deletable_Flagged(t) == Expired(t, level, cutoff) /\ chart[t] \in Covering

\* Mutant: chart coverage is not looked at.
Deletable_Uncovered(t) ==
  /\ Expired(t, level, cutoff)
  /\ flags[t] = {} \/ (DeleteFlagged /\ flags[t] \subseteq evidence[t])

\* The trade may go: it is not flagged, or its evidence may stand for it, and
\* the chart still covers it.
Deletable(t) ==
  /\ Expired(t, level, cutoff)
  /\ flags[t] = {} \/ (DeleteFlagged /\ flags[t] \subseteq evidence[t])
  /\ chart[t] \in Covering

\* _delete_trades_batch begins: its rows are chosen.  Or its loop is over.
PickBatch ==
  LET due == {t \in raw : Deletable(t)}
  IN  /\ stage = "delete"
      /\ IF due = {} \/ batches = MaxBatches
           THEN stage' = "next" /\ batches' = 0 /\ UNCHANGED picked
           ELSE stage' = "apply" /\ picked' \in Batch(due) /\ UNCHANGED batches
      /\ UNCHANGED <<now, market, tier, tape, chart, version, flagTables,
                     evidence, flagSweep, level, cutoff, aborts>>

\* It deletes them, their flags go too, and is committed.
DeleteBatch ==
  /\ stage = "apply"
  /\ stage' = "delete"
  /\ raw' = raw \ picked /\ picked' = {}
  /\ flags' = [t \in Trade |-> IF t \in picked THEN {} ELSE flags[t]]
  /\ batches' = batches + 1
  /\ UNCHANGED <<now, market, tier, taken, at, chart, version, flagged,
                 evidence, flagSweep, level, cutoff, aborts>>

\* The sweep is over, by itself or not; its variables are gone.
Leave ==
  /\ stage' = "idle"
  /\ level' = 0 /\ cutoff' = 0 /\ batches' = 0 /\ picked' = {}

EndSweep ==
  /\ stage = "next" /\ level = Len(Days)
  /\ Leave
  /\ UNCHANGED <<now, market, tier, tape, chart, version, flagTables, evidence,
                 flagSweep, aborts>>

\* An error or a kill; the open transaction is rolled back, and the supervisor
\* starts the script again.
Abort ==
  /\ stage # "idle" /\ aborts < MaxAbort
  /\ Leave
  /\ aborts' = aborts + 1
  /\ UNCHANGED <<now, market, tier, tape, chart, version, flagTables, evidence,
                 flagSweep>>

-----------------------------------------------------------------------------
World ==
  \/ Tick
  \/ \E m \in Market : CloseMarket(m) \/ Ticker(m) \/ NewsPromote(m)
  \/ \E t \in Trade : TakeTrade(t) \/ CompactChart(t)

Flagging ==
  \/ Deploy \/ FlagScan \/ FlagFail
  \/ \E m \in Market : FlagMarket(m) \/ FlagSkip(m)

Sweep ==
  StartSweep \/ StartTier \/ EvidenceBatch \/ PickBatch \/ DeleteBatch \/ EndSweep

Next == World \/ Flagging \/ Sweep \/ Abort

Spec == Init /\ [][Next]_vars

\* The watch loop sweeps again and again, and its statements return.
FairSpec == Spec /\ WF_vars(Sweep)

-----------------------------------------------------------------------------
(* Properties.                                                             *)

\* The variables have their types.
TypeOK ==
  /\ now \in Nat
  /\ closed \in [Market -> BOOLEAN] /\ closeTime \in [Market -> Nat \cup {Unset}]
  /\ tier \in [Market -> DOMAIN Days]
  /\ taken \in SUBSET Trade /\ at \in [Trade -> Nat] /\ raw \in SUBSET taken
  /\ chart \in [Trade -> Interval \cup {0}]
  /\ version \in Nat
  /\ flags \in [Trade -> SUBSET Nat] /\ flagged \in [Trade -> SUBSET Nat]
  /\ evidence \in [Trade -> SUBSET Nat]
  /\ scan \in SUBSET Trade /\ scanStart \in Nat
  /\ stage \in {"idle", "next", "evidence", "delete", "apply"}
  /\ level \in 0..Len(Days) /\ cutoff \in Int /\ batches \in Nat
  /\ picked \in SUBSET Trade /\ aborts \in Nat

\* The latest trades are younger than the shortest window, for as long as a
\* flag sweep lasts: so it is when max_trades are made in less than a day.
ScanApart == \A k \in DOMAIN Days : ScanAge + ScanTime <= Days[k]

\* A trade that was ever flagged has its flag, or evidence that outlives it:
\* the retention sweep never takes a flag away before its copy is committed.
EvidenceLeft ==
  \A t \in Trade : flagged[t] \subseteq flags[t] \cup evidence[t]

\* A trade that was deleted is still in the chart, in a row of some interval.
ChartKept == \A t \in taken \ raw : chart[t] # 0

\* No trade of a market is younger than its close, or than the clock.
TradesPast ==
  \A t \in taken :
    /\ at[t] <= now
    /\ closeTime[MarketOf[t]] # Unset => at[t] <= closeTime[MarketOf[t]]

\* The flag sweep has read young trades, a short time ago.
ScanYoung ==
  /\ scan \subseteq taken
  /\ \A t \in scan : scanStart - at[t] <= ScanAge
  /\ scan # {} => now <= scanStart + ScanTime

\* A sweep that is at a tier looks past the window of that tier.
CutoffPast ==
  stage \in {"evidence", "delete", "apply"} =>
    level \in DOMAIN Days /\ cutoff + Days[level] <= now

\* The rows chosen by a DELETE need no flag, are covered, and are older than
\* anything the flag sweep looks at.
PickedSafe ==
  \A t \in picked :
    /\ t \in taken /\ chart[t] # 0
    /\ flagged[t] \subseteq evidence[t]
    /\ \E k \in DOMAIN Days : at[t] + Days[k] < now

\* The inductive invariant behind EvidenceLeft and ChartKept.
TapeInv ==
  /\ TypeOK /\ TradesPast /\ ScanYoung /\ CutoffPast /\ PickedSafe
  /\ EvidenceLeft /\ ChartKept

\* A trade that the sweep should delete is gone in the end, or is needed
\* again: no batch limit, no other trade and no failure keeps it for ever.
Due(t) ==
  /\ t \in raw
  /\ \E k \in DOMAIN Days : Expired(t, k, now - Days[k])
  /\ flags[t] = {} \/ DeleteFlagged
  /\ chart[t] \in Covering

TapePruned == []<>(\A t \in Trade : ~Due(t))
=============================================================================
