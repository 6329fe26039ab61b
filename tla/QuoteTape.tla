------------------------------ MODULE QuoteTape ------------------------------
(***************************************************************************)
(* Quotes on their way into market_metrics, the snapshots and the chart:   *)
(* handle_ticker_messages_batch and handle_ticker_message of               *)
(* app/services/kalshi_ws.py beside ingest_markets_payload of              *)
(* app/services/market_ingestor.py and the counters of                     *)
(* app/services/market_metrics.py.                                         *)
(*                                                                         *)
(* A handler decides everything when it reads (Begin...) and writes all of *)
(* it when it commits.  What it keeps in the memory of its process - the   *)
(* throttle of should_write_quote_history - changes at the read, and a     *)
(* rollback does not take it back.  updated_at is now(), which in          *)
(* PostgreSQL is the start of the transaction.  There is one ticker        *)
(* handler at a time, as with one writer worker; storage tiers are those   *)
(* of TradeTape, and here only say whether every change is kept; without   *)
(* ticker snapshots no tier keeps any. The poller writes no snapshots, as   *)
(* it does unless it is told to.                                           *)
(***************************************************************************)
EXTENDS Integers, FiniteSets

CONSTANTS
  Market,
  Quote,       \* quotes, each a set of price fields
  NoQuote,     \* a quote without any price, in Quote
  Absent,      \* no row, no time
  Kept,        \* quotes whose sampling hash is below the rate of a cool tier
  Gate,        \* _WS_TICKER_METRICS_MIN_INTERVAL_SEC
  MinGap,      \* _QUOTE_MIN_INTERVAL_SEC
  Heartbeat,   \* heartbeat_seconds of a snapshot
  Fresh,       \* KALSHI_POLLER_QUOTE_SNAPSHOT_FRESHNESS_SEC
  Width,       \* width of a chart bucket
  MaxTxn,      \* bound: duration of a transaction
  MaxTime,     \* bound: the clock
  MaxFail      \* bound: failures of transactions and ends of the consumer

QuoteConstants ==
  /\ {Gate, MinGap, Fresh, MaxTxn} \subseteq Nat /\ NoQuote \in Quote
  /\ Absent \notin Int \union [quote : Quote, updated : Int] \union [quote : Quote, at : Int]

VARIABLES
  now,
  metric,    \* metric[m]: prices and updated_at of its market_metrics row, or Absent
  snapshot,  \* snapshot[m]: the newest snapshot, metric.latest_snapshot_id
  chart,     \* pairs of a market and a bucket with a chart row
  mark,      \* mark[m]: when the consumer last marked m in its throttle cache
  gated,     \* batch writes with the write gate, the default, or single writes
  hot,       \* markets in a tier that keeps every change
  handler,   \* the transaction of the ticker handler
  poller,    \* the page and the transaction of the poller
  bump,      \* bump[m]: start of a transaction that only counts a trade of m
  told,      \* history: last tick of m handled, and when it was read
  spent,     \* history: markets whose last mark by the consumer came to nothing
  fails

dbVars == <<metric, snapshot, chart>>
historyVars == <<told, spent>>
vars == <<now, metric, snapshot, chart, mark, gated, hot, handler, poller, bump, told,
          spent, fails>>

Idle == [at |-> "idle"]
Bucket(t) == t \div Width

Init ==
  /\ now = 0 /\ metric = [m \in Market |-> Absent]
  /\ snapshot = [m \in Market |-> Absent] /\ chart = {}
  /\ mark = [m \in Market |-> Absent]
  /\ gated \in BOOLEAN /\ hot \in SUBSET Market
  /\ handler = Idle /\ poller = Idle /\ bump = [m \in Market |-> Absent]
  /\ told = [m \in Market |-> Absent] /\ spent = {}
  /\ fails = 0

----------------------------------------------------------------------------
(* Decisions                                                                *)

\* Mutant: the throttle forgets that its marks are per bucket.
MayChart_AnyBucket(m) == mark[m] = Absent \/ now - mark[m] >= MinGap

\* should_write_quote_history: the first write of a bucket, or a later one.
MayChart(m) ==
  \/ mark[m] = Absent
  \/ Bucket(mark[m]) # Bucket(now)
  \/ now - mark[m] >= MinGap

\* snapshot_row_is_duplicate
Duplicate(m, q) ==
  /\ snapshot[m] # Absent
  /\ snapshot[m].quote = q /\ now - snapshot[m].at < Heartbeat

\* _should_store_ticker_snapshot, for a quote that is not a duplicate.
MaySnapshot(m, q) == ~Duplicate(m, q) /\ (m \in hot \/ q \in Kept)

\* Mutant: the gate looks at the age of the row only.
MayUpsert_Age(m, q) ==
  ~gated \/ metric[m] = Absent \/ MaySnapshot(m, q) \/ now - metric[m].updated >= Gate

\* _should_upsert_ticker_metric
MayUpsert(m, q) ==
  \/ ~gated \/ metric[m] = Absent \/ MaySnapshot(m, q)
  \/ metric[m].quote # q
  \/ now - metric[m].updated >= Gate

\* _metric_is_fresh: the row was touched lately, by a quote or by a counter.
MetricIsFresh(m) == metric[m] # Absent /\ now - metric[m].updated < Fresh

\* quote_history_row: chart rows for the markets of S that have a price.
ChartRows(page, S) == {<<m, Bucket(now)>> : m \in {n \in S : page[n] # NoQuote}}

\* bulk_upsert_quote_metrics, upsert_quote_metrics: the rows of S get their
\* quote of the page and the start of the transaction.
Upserted(page, S, start) == [m \in Market |->
  IF m \in S THEN [quote |-> page[m], updated |-> start] ELSE metric[m]]

----------------------------------------------------------------------------
(* The ticker handler                                                       *)

\* One transaction over the coalesced states: reads, decisions, marks.
BeginTicks(batch, attempt) ==
  LET S == DOMAIN batch
      charted == {m \in S : MayChart(m)}
  IN
  /\ handler' = [at |-> "open", batch |-> batch, attempt |-> attempt, read |-> now,
                 puts |-> {m \in S : MayUpsert(m, batch[m])},
                 snaps |-> {m \in S : MaySnapshot(m, batch[m])},
                 rows |-> ChartRows(batch, charted), passed |-> {}]
  /\ mark' = [m \in Market |-> IF m \in charted THEN now ELSE mark[m]]
  /\ spent' = (spent \ charted) \union {m \in charted : batch[m] = NoQuote}
  /\ UNCHANGED <<now, metric, snapshot, chart, gated, hot, poller, bump, told, fails>>

\* A batch of the coalescer, or one message.
TakeTicks ==
  /\ handler = Idle
  /\ \E S \in SUBSET Market \ {{}} : \E batch \in [S -> Quote] : BeginTicks(batch, 1)

\* Run over again after a deadlock.
RetryTicks ==
  /\ handler.at = "again"
  /\ BeginTicks(handler.batch, 2)

\* bulk_upsert_quote_metrics, bulk_upsert_chart_history and the snapshots.  A
\* row lock makes the statement wait for whoever has written the row before.
CommitTicks ==
  LET q == handler.batch
      S == DOMAIN q
  IN
  /\ handler.at = "open"
  /\ metric' = Upserted(q, handler.puts, handler.read)
  /\ snapshot' = [m \in Market |->
       IF m \in handler.snaps THEN [quote |-> q[m], at |-> handler.read] ELSE snapshot[m]]
  /\ chart' = chart \union handler.rows
  /\ told' = [m \in Market |->
       IF m \in S THEN [quote |-> q[m], at |-> handler.read] ELSE told[m]]
  /\ poller' = IF poller.at = "open"
               THEN [poller EXCEPT !.passed = @ \union S] ELSE poller
  /\ handler' = Idle
  /\ UNCHANGED <<now, mark, gated, hot, bump, spent, fails>>

\* The transaction is rolled back: tried again once if it was a deadlock.
FailTicks(deadlock) ==
  /\ handler.at = "open" /\ fails < MaxFail
  /\ fails' = fails + 1
  /\ spent' = spent \union {row[1] : row \in handler.rows}
  /\ handler' = IF deadlock /\ handler.attempt = 1
                THEN [at |-> "again", batch |-> handler.batch] ELSE Idle
  /\ UNCHANGED <<now, dbVars, mark, gated, hot, poller, bump, told>>

\* The consumer dies and comes back: its memory is gone.
Restart ==
  /\ fails < MaxFail /\ fails' = fails + 1
  /\ handler' = Idle /\ spent' = {}
  /\ mark' = [m \in Market |-> Absent]
  /\ UNCHANGED <<now, dbVars, gated, hot, poller, bump, told>>

----------------------------------------------------------------------------
(* The poller                                                               *)

\* A page of GET /markets, of a moment ago: ingest_markets_payload reads the
\* metrics rows and skips the markets whose row is fresh. The throttle of its
\* own process decides which of the others get a chart row; any of them may.
ReadMetrics(page) ==
  LET stale == {m \in Market : ~MetricIsFresh(m)} IN
  /\ poller = Idle
  /\ \E charted \in SUBSET stale :
       poller' = [at |-> "open", page |-> page, read |-> now, puts |-> stale,
                  rows |-> ChartRows(page, charted), passed |-> {}]
  /\ UNCHANGED <<now, dbVars, mark, gated, hot, handler, bump, historyVars, fails>>

CommitPage ==
  /\ poller.at = "open"
  /\ metric' = Upserted(poller.page, poller.puts, poller.read)
  /\ chart' = chart \union poller.rows
  /\ handler' = IF handler.at = "open"
                THEN [handler EXCEPT !.passed = @ \union poller.puts] ELSE handler
  /\ poller' = Idle
  /\ UNCHANGED <<now, snapshot, mark, gated, hot, bump, historyVars, fails>>

FailPage ==
  /\ poller # Idle /\ fails < MaxFail
  /\ fails' = fails + 1 /\ poller' = Idle
  /\ UNCHANGED <<now, dbVars, mark, gated, hot, handler, bump, historyVars>>

----------------------------------------------------------------------------
(* Counters, the exchange, the clock                                        *)

\* A transaction that counts a trade or an alert of m.
BeginBump(m) ==
  /\ bump[m] = Absent
  /\ bump' = [bump EXCEPT ![m] = now]
  /\ UNCHANGED <<now, dbVars, mark, gated, hot, handler, poller,
                 historyVars, fails>>

\* bump_trade_metrics, bump_anomaly_metrics: updated_at and no prices.
CommitBump(m) ==
  /\ bump[m] # Absent
  /\ metric' = [metric EXCEPT ![m] =
       [quote |-> IF metric[m] = Absent THEN NoQuote ELSE metric[m].quote,
        updated |-> bump[m]]]
  /\ bump' = [bump EXCEPT ![m] = Absent]
  /\ UNCHANGED <<now, snapshot, chart, mark, gated, hot, handler, poller,
                 historyVars, fails>>

Open == ({bump[m] : m \in Market} \ {Absent})
        \union {t.read : t \in {u \in {handler, poller} : u.at = "open"}}
Tick ==
  /\ now < MaxTime /\ now' = now + 1
  /\ \A start \in Open : now - start < MaxTxn
  /\ UNCHANGED <<dbVars, mark, gated, hot, handler, poller, bump,
                 historyVars, fails>>

Next ==
  \/ TakeTicks \/ RetryTicks \/ CommitTicks
  \/ \E deadlock \in BOOLEAN : FailTicks(deadlock)
  \/ Restart
  \/ \E page \in [Market -> Quote] : ReadMetrics(page)
  \/ CommitPage \/ FailPage
  \/ \E m \in Market : BeginBump(m) \/ CommitBump(m)
  \/ Tick

Spec == Init /\ [][Next]_vars

----------------------------------------------------------------------------
(* What must hold                                                           *)

\* A market shows the quote of its last tick, unless the poller wrote it after
\* that: while the tick was being handled, or once nothing had touched the row
\* for the freshness time. That is counted from updated_at, which a tick behind
\* the gate does not renew and a long transaction sets back, so the quote of a
\* tick is safe for that time less the larger of the two.
Slack == IF Gate > MaxTxn THEN Gate ELSE MaxTxn
Shown(m) == IF metric[m] = Absent THEN NoQuote ELSE metric[m].quote
QuoteFollows ==
  [][\A m \in Market :
       told'[m] # Absent /\ (Shown(m)' # Shown(m) \/ told'[m] # told[m]) =>
         \/ Shown(m)' = told'[m].quote
         \/ handler.at = "open" /\ m \in handler.passed
         \/ handler'.at = "open" /\ m \in handler'.passed
         \/ poller.at = "open" /\ m \in poller.passed
         \/ poller.at = "open" /\ poller.read - told'[m].at >= Fresh - Slack]_vars

\* A handled tick leaves a chart row in its bucket, except for up to MinGap
\* after a mark that came to nothing: its transaction was rolled back, or its
\* message had no price.
HoleBounded ==
  [][\A m \in Market :
       told'[m] # told[m] /\ told'[m].quote # NoQuote =>
         \/ <<m, Bucket(told'[m].at)>> \in chart'
         \/ /\ m \in spent /\ Bucket(mark[m]) = Bucket(told'[m].at)
            /\ told'[m].at - mark[m] < MinGap]_vars
=============================================================================
