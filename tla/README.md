# A TLA+ model of the prediction-market surveillance backend

The backend watches Kalshi markets: it ingests quotes, trades and order-book
events, keeps a chart history and raw tape in PostgreSQL (and optionally
ClickHouse), scores trades and markets, links news, and prunes what is old; an
API shows it to a dashboard. This directory holds TLA+ modules of it, TLC
configurations that check them on small instances, and TLAPS proofs of what
matters most. Paths below are relative to the repository.

## 1. Inventory

| Component | State | Operations | Hard behaviours | What makes it correct |
| --- | --- | --- | --- | --- |
| WebSocket consumer, `app/services/kalshi_ws.py` | pending tickers, bounded queue, allowlist, worker tasks; throttles and gates in memory | read, coalesce, flush, dispatch, retry, shut down; the ticker, trade and order-book handlers | coroutines that interleave at every await, bounded queue, deadlock retry, reconnect, kill; memory that changes before a commit | a stored ticker state never goes back; events are written at most once and in order; a session that ends leaves nothing behind and always ends; a market shows its last quote |
| Chart history, `market_price_history.py` | rows per market, interval and bucket | upsert (SQL merge), coalesce (Python merge) | two implementations of one merge, null prices, ties | a row shows what its observations say |
| Chart compaction, `scripts/run_chart_history_compaction.py` | the same rows, an advisory lock | lock, choose markets, read, rewrite, release | overlap with the live writer, another run and readers; failure in the middle | every observation is counted once; old rows are compacted in the end; a reader misses only what shares a timestamp |
| Raw tape retention, `scripts/run_retention_maintenance.py` | trades, flags, evidence | copy evidence, delete in batches, tier by tier | flag inserts, promotions and compaction in between; batch limits; failure | no flag is lost without evidence; no trade goes that the chart does not cover; what is due goes |
| Storage policy, `retention.py` | a decision per event | weigh reasons, tier, sample | duplicates, replays | the same event gets the same answer |
| ClickHouse batcher, `clickhouse_writer.py` | queue, buffers, thread | enqueue, flush by size or time, stop | dropped rows, starvation, stop | the rows of a table keep their order, each at most once; a row is not held for ever while others pause |
| Trade scores and flags, `trade_suspicion.py`, `trade_context.py`, `trade_flag_materializer.py` | flags, tiers, case windows | read the latest trades, score, flag, promote | a later sweep scores the same trade with another tape | small bets stay quiet; more evidence never lowers a score |
| Metrics projection, `market_metrics.py` | one row per market | upsert quote, bump counters | several writers | counters never fall short of rows |
| Anomalies, `anomaly_materializer.py`, `scripts/run_anomaly_retention.py` | anomalies, summaries, evidence | create, update, compact, delete, roll up | two writers, cooldown, counters | summaries and rows add up; a transition is kept |
| Ingestion and lifecycle, `market_ingestor.py`, `scripts/poll_markets.py`, `hydrate_unknown_markets.py`, `prune_markets.py`, `market_lifecycle.py` | markets, stubs, missing tickers | sweep, hydrate, refresh, classify, prune | races with lazy creation, stale pages, limits | metadata is not taken back; every stub is looked up; a market that settles is noticed |
| Classifier, `app/services/classifier/` | tables | four layers asked in turn | a language model that may answer anything | the first confident verdict wins and is in the vocabulary |
| News pipeline, `news_*.py`, `scripts/run_news_surveillance_pipeline.py` | articles, profiles, links, cases | refresh profiles, ingest, link, score, promote, relink, revalidate | batches with limits, relinking of scored links, failed cycles | a strong link has its case; no candidate and no profile waits for ever |
| Supervisor, `scripts/run_pipeline.py` | child processes, backoff | start, poll, restart, stop | children that fail at once, signals at any moment | a child that exits runs again; a stop leaves no child |
| Heartbeats and health panel, `pipeline_heartbeat.py` | a row per job | report, read | lost reports, dead jobs, failing queries | a healthy entry vouches for its job |
| Dashboard API, `app/api/routes/dashboard.py`, `scripts/warm_dashboard_cache.py` | payloads in Redis and in the process | read, build, warm; charts, suspicious trades, active lists | several queries in one request, several caches | a payload is no older than it may be; a list misses nothing |
| Search, `search_index.py`, `scripts/rebuild_search_index.py` | two indexes | rebuild page by page, search, fall back | rows that join while it pages; a failure at any call | what matched at the last rebuild is found |
| Rate limiter, `app/core/rate_limit.py` | counters per window | increment, fall back | Redis failure | nobody is refused within the limit, and the limit holds |
| Backfill, frontend, deployment | - | - | - | (section 8) |

They meet in the database. The consumer and the poller write markets, quotes,
trades, metrics and live chart rows; flags read trades and write flags and
tiers; compaction moves the chart rows on which retention relies when it deletes
the trades; news links read trades and flags; the API reads all of it while it
changes. `run_pipeline.py` runs each as a process. PROJECT.json lists every
component with what is left out of it, and the hazards of the code line by line.

## 2. Modules

| Module | Models |
| --- | --- |
| `TapeChannel` | the contract of the live feed, abstractly: latest ticker state wins, events at most once and in order |
| `WsSession` | the consumer's session: reader, coalescer, queue, allowlist task, workers, shutdown, kill; refines `TapeChannel` |
| `TierPolicy` | the storage decision: reasons, weights, tiers |
| `LossySink` | what a caller may rely on of a batching writer, abstractly: the rows of a table in order, each at most once |
| `ClickHouseBatcher` | the batching thread and its stop |
| `TradeTape` | extends both: the trade and order-book handlers, run by several workers, beside the batcher; refines `LossySink` |
| `QuoteTape` | the ticker handlers, the poller's quotes, the throttles and gates between them |
| `ChartHistory` | chart rows as a ledger: live writer, compactors under the advisory lock, series requests |
| `ChartRow`, `ChartMerge` | a chart row and its two merges; fine rows and a wide row against a reference reading of the history |
| `TapeRetention` | trades, flags, evidence, tiers: handlers, flag sweep, chart compaction, retention sweep |
| `TradeScores`, `FlagSweep` | the arithmetic of a trade's score, and the sweeps that apply it again and again |
| `AnomalyLedger` | alerts and their counters: materializer transactions and anomaly retention |
| `MarketDirectory` | stubs, sweep, hydration, refresh, classification, pruning |
| `SqlLogic`, `MarketScopes` | three-valued conditions of SQL; the scope of a market list, as a filter in SQL and as a label in Python |
| `Classifier` | the four layers and the orchestrator, as functions |
| `NewsDesk` | the news cycle, relinking and revalidation |
| `Supervisor` | processes, restarts and signals |
| `HealthBoard` | heartbeats and the health panel |
| `FlagBoard` | the list of suspicious trades, over a tape that retention empties |
| `QuoteEdges` | which markets an active list leaves out, in Python and in SQL |
| `PayloadCache`, `RateLimiter` | a payload in Redis and in each process; fixed windows with their fallback |
| `SearchDesk` | the rebuild of the indexes, and search with its fallback |
| `Charts`, `TradeSignals`, `Dashboard` | parts side by side, for a proof module and an MC module to extend: the ledger, the quotes and the prices of wide rows; flags and news; limiter, caches, health panel, list, search and scope |
| `..._proof` | theorems and their proofs (section 5): `WsSession_proof`, `TradeTape_proof`, `TapeRetention_proof` and `AnomalyLedger_proof` about the module they are named after, `ChartHistory_proof` about `Charts`, `ChartRow` and `ChartMerge`, `FlagSweep_proof` about `TradeSignals` and `Supervisor`, `MarketDirectory_proof` about it, `Classifier` and `QuoteEdges`, `Api_proof` about `Dashboard` |
| `MC...` | instances for TLC |

Three MC modules compose small instances of parts that share no state
(`MCChartHistory`, `MCServices`, `MCSignals`; the first two from `Charts` and
`TradeSignals`, the last from `Dashboard` and `AnomalyLedger`): a variable `part` is
chosen at the start and never changes, so that a behaviour is a behaviour of one
part. What the parts have in common is checked where they meet: `TradeTape`
(handlers, policy, batcher), `ChartHistory` (writers, compactors, readers),
`TapeRetention` (handlers, flags, compaction, retention), `QuoteTape` (consumer and
poller), `FlagBoard` (sweep, retention and request).

### WsSession

A coroutine gives way only at an await, so one action is the code between two
awaits: `ReadTick`/`ReadEvent`/`ReaderPut` are the body of the `async for` loop,
`CoalesceTick`/`CoalescePut`/`CoalesceLoop` are `_ticker_coalescer_worker` with
`_flush_ticker_coalescer`, `WorkerGet` ... `WorkerFail` are `_ws_writer_worker`
with its two attempts, `KnownLoop`/`KnownRefresh` are the allowlist task, and
`Close`, `KnownJoined`, `CoalescerJoined`, `PutPill`, `Join` are the awaits of
the `finally` block. A handler runs in a thread and commits once, so its effect
is `WorkerCommit`; an attempt that fails is rolled back and has none. `Crash`
is a kill and loses memory. `missed` and `dropped` are history variables: what
was lost, so that the drain properties can say "everything else is there".
What happens inside the handlers is `TradeTape` and `QuoteTape`.

### TradeTape, ClickHouseBatcher, TierPolicy

A handler is `TradeBegin`/`BookBegin` (it reads the market and decides),
`Insert` (it inserts and hands the row over) and a commit or a rollback; what it
handed to the batcher before a rollback stays there. Messages may be delivered
`MaxDeliver` times, as after a reconnect. The batcher's thread is `Take`, `Idle`
(queue.get gave up, so the flush interval has passed and no clock is needed),
the flushes and the end; `stop` waits, but not for ever, and a pill that a
restarted thread meets is taken for a row: it flushes nothing until the interval
has passed (`TakePill`). `TierPolicy` sums the weights of the reasons that hold and
picks the tier. ClickHouse is offered a second copy of a trade only for an attempt that was
rolled back after its hand-over (`OfferedOnce`).

`LossySink` promises the order of each table: rows leave in the order they were
handed over, and a flush takes the oldest. `RowsHandedIn` says what the thread does
not promise: `last_flush` is renewed by the size flush of any table, and
`queue.get` gives up only when nothing comes, so rows of a slow table wait as
long as another table goes on filling its buffer. It is checked in `services`, on
the batcher alone under a feed that need never pause; the deliveries of
`trade_tape` are finite, and would make it hold for the wrong reason.

### QuoteTape

A ticker handler decides everything when it reads and writes all of it when it
commits; the throttle of chart rows changes at the read and a rollback does not take
it back. `updated_at` is the start of the transaction. Both modes of the consumer
(batch writes with the write gate, and single writes) are initial states. What the
code does and no property denies: a trade or anomaly counter renews `updated_at`, so
the poller may take an old quote for a fresh one; the retry after a deadlock is
throttled by the mark of its first attempt; a tick without a price marks its bucket
and leaves no row in it; `updated_at` may go back. There is one ticker handler at a
time, and the poller's own chart throttle is a nondeterministic choice.

### ChartHistory, ChartRow, ChartMerge

The counters of a row are additive and its prices are not, so they are two models.
In `ChartHistory` `rows[l][o]` is how often observation `o` was added to the row of
interval `l`; what a compaction adds to the target and deletes from the source is
exact in it. `SelectRows` and `Rewrite` are separate because PostgreSQL is read
committed and the live writer comes between. A policy must leave a live bucket alone
until no observation can be added to it: `ConstantsOk` asks for a grace of at least
`MaxLag` plus the width of a live bucket (the deployment has days of grace for
300-second buckets). A series request reads the live rows and then the wider ones,
and keeps one row of each timestamp, that of the narrowest interval
(`dashboard.py:591-615`); a row has the timestamp of its last quote, or of its last
price (`Latest`). A compaction that commits between the queries may give a wide row
the timestamp of a live row that has been read already; the answer then drops the
wide row, and with it what an earlier compaction had put there. `ReadComplete` says
that this is the only way to miss something. Keeping the wider row would miss
nothing, since the live row went into it. `ChartRow` has the ON CONFLICT clause
(`SqlMerge`) and `_merge_history_row` (`PyMerge`); `ChartMerge` assumes that rows of
one market are written in the order of their timestamps.

### TapeRetention

`TakeTrade` is the trade handler, `FlagScan`, `FlagMarket`, `FlagSkip` and
`FlagFail` are `materialize_trade_flags`, `StartTier`, `EvidenceBatch`,
`PickBatch`, `DeleteBatch`, `EndSweep` and `Abort` are the retention sweep.
A DELETE is two steps: it chooses rows in the snapshot of its start, and takes
them when it has their locks; a flag insert holds a key-share lock on its trade,
which delays the DELETE and does not make it look again. Flags are scorer
versions, because evidence is kept per trade and version; `Deploy` is a new
scorer. `Ticker` overwrites the tier, as `bulk_upsert_quote_metrics` does.

### TradeScores and FlagSweep

Scores are thousandths and multipliers per cent, with every cap, floor and
discount of the code; the statistics that measure a feature are real arithmetic
and are inputs. A sweep scores the newest `MaxTrades` trades, so a trade is
scored again with less tape before it. What the code does and no property
denies: between 100 and 249 dollars only clusters are capped, so a
cluster lowers the score; a rescoring below the minimum leaves the old flag; a
rescoring that ends in "triggered" clears `case_evidence_id` (the case row stays
without its flag) and overwrites the tier "case". The model has whole dollars and
one scorer version.

### AnomalyLedger

`ReadExisting` and `ReadLatest` are the two queries of
`materialize_market_anomaly`; `ClearAlert`, `UpdateAlert` and `CreateAlert` are
what its commit does, with `bump_anomaly_metrics` in the last. The session does
not flush by itself, so the writes of a transaction come with its commit: an
UPDATE names only the columns that changed, fails if its row has gone, and a
DELETE of a row that has gone does nothing. `ChooseVictims` and `RollUp` are the
one statement of retention, in two steps for the same reason as in
`TapeRetention`. A verdict is the severity of the score, `Low` when it is below
the gate (3, above the lower limit of "medium"), so only rows of earlier
versions (`Legacy`) are weak, and `--severities none,low` prunes those only.
The model has one severity for "none" and "low", one for "high" and "critical".

Properties that one might expect and the code does not have, so none is stated:
the counters are upper bounds and not the number of rows (a writer that deletes a row
lowers nothing, an upgrade in place raises nothing); a row that a writer makes
severe after the statement chose it is deleted with the other victims; two
retention processes at once would add the same victims to the summaries, since
nothing locks them out. `RolledUpOnce` is therefore about one process, as
deployed; `CountersCover` holds for any number. `backfill_market_metrics`, which
sets the counters from a count of the rows, is a migration step and is left out:
a bump that commits between its count and its write is lost.

### MarketDirectory

The session keeps what it has loaded and writes the columns that differ from it,
so a transaction is the row it loaded and the row it wants. The poller is
`SweepPage`, `StartHydrate` and `StartRefresh` with their limits and failures; the consumer
creates a stub (`WsLookup`, `WsCommit`); the scripts are the classification and the pruning.
What the code does and no property denies: `prune_markets` deletes the ids it
selected without looking again, so a stub that was hydrated in between goes;
a titled row whose item is out of scope by now is left alone for good
(`market_ingestor.py:203-218`) and stays active after its market has settled; an active
row without a title is never refreshed (both are exceptions of `SettledNoticed`);
an item without a title writes its ticker as the title over the one the row had
(the exception of `HydratedStays`), and one without a status writes "unknown";
the sweep keeps the classifier's verdict on a stub (`Restamp`,
`market_ingestor.py:243`), although the comment at `kalshi_ws.py:665-668` expects
it to be classified afresh. The limits of the sweeps and of the scripts choose as
the code does, ties included where it breaks them; a run of the classification takes any
rows up to `--max` (`ScriptMax`), of the present version too, as with `--all`.

### MarketScopes, SqlLogic

`market_lifecycle.py` has the scope of a market twice: as filters in SQL, over nullable
columns, and as a label in Python. The model keeps what makes them differ. The date in
a ticker becomes a time in the session's time zone in SQL and in UTC in Python; 29
February of a common year makes `to_timestamp` raise, so that the whole list fails,
and `strptime` return None; the status is compared as it is in SQL and in lower case
in Python; a comparison with NULL is unknown. `ScopesAgree` says that the two filters
divide the rows, and that the label of a listed row is the scope of its list
unless the clock, the time zone or the spelling of the status comes between. The
two readings of a year of two digits differ for 69 only, and are left out; so is the
list of top markets without a metrics table (`dashboard.py:1787-1838`), which filters and
loads in two statements.

### NewsDesk

The ingest of a cycle is one transaction whose upserts come with its commit; the
scoring reads candidates, and works through them in batches that commit one by one.
`Links` says which version of a profile an article passes for, and a score is any of
`Scores`. A link in `Weak` is below the bar of relevance of the scoring
(`news_trade_correlation.py:451`), which a script that relinks or revalidates with a
lower `--min-relevance` may leave behind; it stays a candidate, and is an exception
of `CandidatesScored`.

### Supervisor, HealthBoard

A step of the supervisor is the code between two moments at which a child may exit
or a signal may come. A start that fails, or a signal before the handlers are
installed, ends the supervisor and leaves the children it had (`LaunchFails`);
`StopsAll` is about the time after that. `HealthBoard` has the reports of jobs,
which may be lost, and a panel that fixes its time, reads all heartbeats, and then
the tables of one component after the other. What the code does and no property
denies: a "starting" report hides an earlier error; a count of 0 makes a healthy job
"empty"; without a heartbeat row, or when that query fails, rows of other writers
make a component fresh; several scripts share one key.

### FlagBoard, SearchDesk, QuoteEdges, PayloadCache, RateLimiter

`FlagBoard` reads flags and then evidence in two statements, while the copy and
the deletion commit in between; when both are empty it scores a sample itself,
and then its count may exceed the list. `SearchDesk` rebuilds with OFFSET pages
while rows join. A search during the first rebuild finds a partial index without
falling back, the news filter runs after the limit, and related markets are cut
to three times the room before exclusions. `_bulk` does not refresh the index, so a
document can be found only from its next refresh on (`visible`, `Refresh`), and
`FoundSinceRebuild` excepts one that waits for it. Each index has its own limit, and
0 skips it. Pruning, which could shift the pages, is
not modelled: searchable markets are hydrated, and those are pruned only in the race of
`MarketDirectory`. `PayloadCache` carries the age of a payload from memory back
to Redis, where what is left of it is rounded down to whole seconds and is at least one;
`RateLimiter` has one thread step per call to Redis and per locked section, and an
EXPIRE that fails may have been applied.

Also seen, and not modelled: pages of lists have no tie-break by id;
the series endpoint compares `since` with `>`; an event group shows 0 trades for
a market without metrics; the urgency of a market's projection
(`market_metrics.py:230-269`) is never above that of its worst alert;
`_is_likely_resolved_quote_values` is used by tests only.

## 3. Runs

| Run | Bounds | Shows |
| --- | --- | --- |
| `ws_session` | 2 markets, 1 worker, coalescing and batch writes on, one kill | `PipelineInv`, `TicksDrained`, `ImplementsChannel` |
| `ws_pool` | 2 workers, the queue smaller than what is in flight | `ExactlyOnePlace`, and under fairness `ShutdownTerminates` |
| `ws_order` | 2 workers, 2 events | `EventsInOrder` is violated (section 6) |
| `chart_ledger` | ledger: 3 observations in 2 markets, 3 intervals, 2 policies (one for closed markets), 2 compactors, 1 failure; a market closes by time 1, one row a run; rows: 3 observations, trades and quotes with and without price or bid; quotes: 1 market, gates of 2 and heartbeats of 3 units, 1 failure | `CountedOnce`, `ReadComplete`; `CompactionFaithful`; `QuoteFollows`, `HoleBounded` |
| `tape_retention` | 2 trades, 2 tiers, 2 scorer versions, batches of 1, one batch a loop, 1 failure | `EvidenceLeft`, `ChartKept`, `TapePruned` |
| `tape_race` | flag sweeps that read trades as old as the window of a tier | `EvidenceLeft` is violated (section 6) |
| `trade_tape` | 2 workers, 2 trades (one delivered twice) and 1 book event of one market in scope, which only the theorems leave; all three backends, buffers of 2, a queue of 1, 1 failure or exit | `RowAccounted`, `TradeCountedOnce`, `OfferedOnce`, `SeenMarketsKnown`, `ImplementsSink` |
| `market_directory` | 2 markets, one of them out of scope by its item, which may have an old titled row; items without title or status; limits of 1 for hydration, refresh, classification and pruning, batches of 2; 3 rows over time, 1 failure | `HydratedStays`, `StubsHydrated`, `SettledNoticed` |
| `services` | batcher: 2 tables, rows of both without end, buffers and queue of 2; news: 2 markets, a story of 2 articles, one weak link, batches and limits of 1, 3 revisions; compaction loop: 2 observations, one market and one row a run; supervisor: 2 children, backoff up to 4; sweeps: 9 trades, 8 a sweep, 11 amounts, 3 feature records, 5 surroundings | `RowsHandedIn`; `StrongHasCase`, `CandidatesScored`, `ProfilesFollow`; `OldRowsCompacted`; `Restarted`, `StopsAll`; `SmallBetsQuiet`, `ClustersRaise` |
| `signals` | alerts: 1 market with a row of an earlier version, 2 writers, 1 retention process, 2 batches of 1; list: 8 trades, 3 evidence histories, limits 1 and 5; panel: 1 job; search: 2 markets and 2 articles, one of each late, pages of 1; limiter: 2 threads, limit 1, 2 windows; cache: a request and a warmer, seconds of 2 units and a time to live of 4; scope: 1 market, 3 time zones, 4 spellings, one ticker date, units of six hours | `CountersCover`, `RolledUpOnce`; `BoardComplete`, `ListFills`; `HealthHonest`; `FoundSinceRebuild`; `NoFalseRefusal`, `LimitHolds`; `PayloadAge`; `ScopesAgree` |
| `news_signal` | 2 markets, a story of 2 articles | `SignalScored` is violated (section 6) |
| `supervisor_backoff` | a child that fails | `BacksOff` is violated (section 6) |

Each property is explained at its definition, in the module of its component.

Why the bounds are enough: each hazard needs two of something. Two markets make
coalescing and batching differ; two states of one market make "older over newer"
possible; a queue of two fills up and passes its flush fraction; one of one, in
`trade_tape`, drops whatever comes while it holds a row; two workers are the
smallest pool that reorders. Two observations of one bucket and one of another
market separate what a rewrite may touch, three intervals chain two policies, and
the clock passes every grace. Two trades and batches of one show every limit of the
retention loops, and two tiers with two windows let a promotion or a quote move a
market between them during a sweep. For alerts an old row and a new one are enough
for a writer to load one and find another as the latest, and the clock makes the new
one old enough to be a victim too. Two messages of one table and a buffer of two let
a flush come by size, by time and at the end, and two tables let one wait for the
other. Limits of one with two markets make something wait behind something else in
hydration, refresh, profiles and news batches. The amounts of the swept trade lie on
both sides of every threshold of the score. A row that is out of scope by its item
and titled from the start is what the sweep leaves alone. The ticker date of the
scope is over in the middle of the clock, and the three zones put that before, at
and after the hour it has in UTC. A list of six sports trades has more than the cap
lets through. Pages of one row give a rebuild a gap after every row. Every bound is
a constant with "bound:" in its comment.

The writers of alerts, the compactors and the first market's observations of
`chart_ledger`, the workers of `trade_tape` and the markets of `ws_session` are
interchangeable, and TLC is told so; no liveness is checked in these runs.

`CHECK_DEADLOCK FALSE` is used where a system stops: the history of
`chart_ledger` is finite, the process of `trade_tape` exits, and a supervisor
that was stopped is gone (`services`, `supervisor_backoff`). In `signals` the
limiter and the cache may rest, because their clock is bounded; its other parts
must always have a step. `signals` leaves what jobs report while a panel reads
the tables to the time after it, which no panel can tell apart, and lets a rebuild go on
before a search asks the indexes or gives up on them: it may fail at any
moment without a trace, and the search does not look at them again.

## 4. Fairness

- `WsSession!Fairness`: the event loop runs every ready coroutine and database
  calls return, so each task is weakly fair. Reading from the feed, the end of a
  connection and kills are not fair: nothing makes Kalshi send.
- `ChartHistory!FairSpec` and `TapeRetention!FairSpec`: the scripts loop
  (`--watch`, or restarted by the supervisor) and their statements return, so the
  sweep as a whole is weakly fair. Failures are bounded (`MaxAbort`): a run that
  failed every time would achieve nothing.
- `services`, batcher: the thread runs (its `queue.get` has a timeout). What hands rows
  over, and what restarts a thread, is not fair; `TradeTape` has no fairness.
- `MarketDirectory!FairSpec`: the poller loops, and a market's age passes. Listing,
  trading, handlers and scripts are not fair: a transaction of theirs may hang.
- `NewsDesk!FairSpec` and `Supervisor!FairSpec`: the watch loop and the
  supervisor's loop go on. In `services` the fairness of each of them is that of its module.
- `QuoteTape`, `FlagSweep`, `HealthBoard`, `FlagBoard`, `SearchDesk`,
  `RateLimiter`, `PayloadCache` and `MarketScopes` have safety properties only, and no fairness.

## 5. Proofs

A theorem speaks of every value of the constants that its assumption allows. The
assumptions are definitions beside the constants (`ConstantsOk`,
`SweepAssumption`, `LimiterConstants`, `CacheConstants`, `HealthConstants`,
`BoardConstants`, `DeskConstants`, `ScopeConstants`, `QuoteConstants`, `MergeConstants`,
`SupervisorConstants`, ...), and TLC evaluates each in a run, as an ASSUME.
Some theorems take one more, named with them: `SingleWorker`, `ScanApart` or
`OneRetainer`.

The live feed (`WsSession_proof`):

- `WsTypeCorrect`: types, for any markets and workers, queue size and mode.
- `WsPipelineOrdered`, `WsImplementsChannel`: with one worker
  (`SingleWorker`) the consumer implements `TapeChannel`.
  The invariant `PipelineInv` orders everything in flight - the payload in the
  worker's hand, the queue, what the coalescer and the reader are putting, the
  pending states - and says that all of it is newer than the database. That is
  what makes a commit a `Persist` or `Deliver` step; without the order of the
  parts behind the worker it would not be inductive. With two workers it is false.
- `WsExactlyOnePlace`: for any pool. `PlacedInv` counts the places of an event -
  log, queue, hands of workers and reader, dropped - and says that they are one
  from its arrival on, and none before. That a worker of the pool holds what it
  took off the queue while it writes needs the modes and `DrainInv`.
- `WsTicksDrained`: with one worker. `DrainInv` is what the `finally` block relies on:
  the unfinished count is what is queued or being written, a coalescer that
  ended has nothing left, a session that is down has an empty queue. `LatestInv`
  says that the latest state of a market is stored, given up, or in flight; at
  the end nothing is in flight. With more workers an older state may be stored over
  the latest, and `LatestInv` is false.

The raw tape (`TradeTape_proof`):

- `TypeCorrect`, `RowsAccounted`, `SinkImplemented`: each row that was handed over is in
  the queue, a buffer, ClickHouse, or counted as dropped. What makes it inductive
  is that buffers hold rows of their table only (`Sorted`) and that the last flush
  still has every table with rows ahead of it (`LastFlush`): otherwise the thread
  could end on a full buffer. Every step of the batcher is a step of `LossySink` or a
  stutter, where what waits of a table is its buffer and then its rows in the queue, in
  this order: a flush settles the oldest, and `Take` moves a row without changing it.
- `CountedOnce`, `RowsOfferedOnce`, `SeenKnown`: for any workers, messages and
  deliveries. One transaction at a time inserts a key, and it finds the key new
  exactly if no other has committed it (`OpenAlone`, `WroteNew`); a book message,
  which has no key, is with one worker at most (`BookOnce`); what PostgreSQL holds
  or is about to was offered (`Offers`); the market of a trade in the works is
  known or made by its own transaction (`MarketMade`).

Charts and quotes (`ChartHistory_proof`):

- `ChartLedger`, `ChartCountedOnce`, `ChartReadComplete`: the strengthening says
  that the lock is held by exactly the compactor at work, that the batch a
  compactor has read is still what the source rows say (`BatchCurrent`), and that
  a reader between its queries has seen, or will see in the wider rows, what it
  was asked for (`ReadAhead`). Two rows of one timestamp share an observation
  that a compaction moved between the queries, because observations of one market and
  time move together (`Together`), and what has left its live bucket is out of
  reach of the writer (`CompactedPast`). It uses `ConstantsOk` for the grace.
- `SqlIsPython`, `MergeWellFormed`, `MergeAssociates`: for all rows with any
  prices and times. Together they are why it does not matter where a compaction
  cuts, or whether two rows meet in Python or in SQL.
- `CompactionTells`: for any width, prices and times, and however the compactions
  are cut. A bucket is told by a fold over a history of any length, and the wide
  row with the fine rows by another. Each is shown to be the last value of a run,
  one row at a time: the fold is a choice of a recursive function, which exists
  (`FoldDefined`), and a set of numbers without a least one that fails gives the
  induction. `MergeInv` then needs that no row is of the future and that the
  rows are in the order of time (`InOrder`), so that a new row, a trade or a
  quote, comes after everything it is merged into and a compaction takes the
  first of what is left: that is where `MergeAssociates` applies.
- `QuotesFollow`: for any gate, freshness and length of a transaction. The row of
  a market that ticked is no older than the tick, but for the slack (`ToldKnown`): a
  tick behind the gate leaves a row younger than the gate, and counters and the
  poller write the start of a transaction no longer than `MaxTxn`. A handler that
  leaves a row alone finds its quote there until the poller passes it
  (`HandlerKnown`); the poller holds only markets whose row was stale when it
  looked, hence with an old tick, or that ticked since (`PollerKnown`).
- `HolesBounded`: a mark of the throttle stands for a chart row, written or in
  the handler's hand, unless it came to nothing, and a throttled tick has such a
  mark in its bucket (`MarksKnown`). The first half fails without the rollback in
  `spent`: a rollback takes the row and leaves the mark.

Retention, alerts, signals:

- `TapeSafe`, `TapeEvidenceLeft`: assume `ScanApart`, that a flag sweep reads trades
  younger than the shortest window and ends before they reach it. Then the rows chosen
  by a DELETE (`PickedSafe`) can no longer be flagged. Nothing in the code enforces
  it: `--max-trades` counts trades, not days. It holds as long as the latest 5000
  trades are less than a day old; `tape_race` shows what happens otherwise.
- `TapeTypes`, `TapeChartKept`: without that assumption. A chosen row is in the chart
  and compaction moves rows without removing them (`ChartInv`), whatever is flagged
  meanwhile.
- `LedgerTypes`, `CountersNeverShort`: the strengthening says that alerts are not from
  the future (`RowsPast`; without it the latest row need not exist) and that what a
  transaction is about to write is not weak (`VerdictsStrong`).
- `SummariesExact`: with one retention process (`OneRetainer`), as deployed. A victim
  that a writer deletes after the run has chosen it is counted without being deleted
  by the run: `SummaryInv` bounds the sum of the summaries by what retention and
  writers deleted, less such victims that still wait to be counted (`Missing`); a row
  keeps its market (`OneMarket`), and evidence is of rows that are gone.
- `SweepSmallBetsQuiet`, `SweepClustersRaise`: for every tape, every features and
  every surroundings of the types that `SweepAssumption` names. Lemmas follow one
  score through the caps (each step is monotone, and the last cap of a small bet is
  below the limit of the higher severities); the invariant says that every flag was
  made by a sweep from such a score.
- `StrongLinksHaveCases`: for any links, scores and failures. A link that is found
  again keeps its status and a new one is none, so only a scored batch makes a link
  strong, and it writes the case in the same transaction.
- `SupervisorLeavesNobody` (`Supervisor`): the safety half of `StopsAll`, for any list
  of processes. No process is started twice at a time (`NobodyTwice`), and a
  supervisor that ended after a stop has left none alive (`NobodyLeft`). `SuperInv`
  says that those before the child being stopped have stopped, and that none starts
  again then; that those not launched yet are new; and that the one to restart has
  exited.

The market directory (`MarketDirectory_proof`):

- `DirectoryTypes`, `DirectoryHydratedStays`: the invariant adds that a market without
  a row has no trades (`NoOrphans`). `HydratedStays` is proved writer by writer: a
  transaction writes the columns in which the row it wants differs from the row it
  loaded, and only an item without a title wants none.
- `FiltersAgree`, `ListedPricesOpen` (`QuoteEdges`): the filter in SQL, with its
  three-valued comparisons, and the rule in Python agree for all prices, missing
  ones included; a price that an active list shows is strictly between the edges.
- `FirstConfident`, `LowNeverPromotes`, `StubAgrees`, `CoerceInVocabulary`
  (`Classifier`): for all tables and all answers of the model. The orchestrator
  returns the verdict of the first confident layer and not that of a later one; no
  low verdict takes a market out of scope; a stub gets the class its ticker gives
  it; and whatever the language model answers, the class is in the vocabulary.
  `QuoteEdges` and `Classifier` have no state, so no run steps through them.

The API (`Api_proof`):

- `LimiterFair`: no counter has counted a request twice, so what a counter says and
  what is still on its way to it is at most what was made in the window (`EachOnce`);
  a check that falls back to memory has left Redis for good (`Onward`).
- `LimiterLimits`: in each window what was let through is paid for (`Balanced`): by
  the count in Redis, capped at the limit, by the memory of each process, by the
  counters that were lost, or it was answered late. The balance is kept for windows
  that are not over; for those that are, only late answers change.
- `PayloadsFresh`: a payload in Redis, in a process and in a call is no older than its
  time to live, the calls that carried it and the rest of a second, which Redis rounds
  to (`RedisTimely`, `MemoryTimely`, `CallsTimely`).
- `ScopesAgreed`: for any dates, close times, zones and spellings. Each filter is
  reduced to a condition of two values (`ActiveIs`, `HistoricalIs`), and the one in
  SQL is compared with the label for each way a row can be asked and labelled; the
  invariant keeps that a listed row passed its filter when it was asked for.
- `PanelHonest`: a job was alive when it sent its heartbeat, and an error is what it
  sent last (`BeatsKnown`); the panel holds heartbeats that were there, and what it
  has shown so far it vouches for (`PanelKnown`).
- `ListComplete`: before the first query a trade that is due has its flag or a copy;
  between the queries it has been read or has a copy, unless the first answer was full
  (`ListKnown`). A query that is not full returns every row, by the least row that it
  would leave out (`FirstIsAll`).
- `ListFilled`: for any trades, scores and limits. A pass over the candidates is a run
  as in `CompactionTells`; along it the list is without repetition and within its caps
  and only grows (`Fits`, `Grows`), and a candidate that the second pass has offered
  is in the list, or ruled out for good, or the list is full (`Settled`). The first
  candidate gets in because it is offered to an empty list.
- `SearchFinds`: for any tables, pages, limits and failures. The place of a row is the
  number of rows listed before it, and a page is a window of places (`Places`,
  `WindowIs`). Rows only join, which moves a row back and never forward, so a row that
  was there when the rebuild began and whose place is below the offset has been read
  (`GoodRebuild`), and can be found or waits for a refresh; an empty page means that
  every place is. A search carries what was promised when it began (`GoodSearch`), and
  a stage that found less than its limit has found all of it.

Every invariant and every action property of the passing runs is a theorem. What is
only model-checked is liveness: `ShutdownTerminates`, `TapePruned`,
`RowsHandedIn`, `StubsHydrated`, `SettledNoticed`, `CandidatesScored`,
`ProfilesFollow`, `OldRowsCompacted`, `Restarted` and `StopsAll`. The prover has no
rule for fairness and no ENABLED. What the violated runs show is a trace, found by TLC.

## 6. Where code and documentation differ

- `ws_order`: `kalshi_ws.py:1820` says that trades and order-book messages "must
  keep their original ordering"; with more than one worker, which the README
  suggests for higher throughput, two events may commit in the other order.
- `tape_race`: the README says that flagged prints are copied to
  `trade_evidence` before the tape is removed. A flag committed after the
  DELETE has chosen its rows and before it has their locks is removed by the
  cascade without a copy. It takes a flag sweep that reaches trades older than
  the shortest window, so in a busy deployment it does not happen.
- `news_signal`: `tests/test_news_trade_correlation.py` asserts that signals have
  the score of a signal. The next ingest that fetches the article again sets the score
  of the link to 0 and leaves its status, and the scoring reads candidates only.
- `supervisor_backoff`: the README promises exponential backoff; `start` resets
  what `restart` has just doubled, so a child that exits at once is restarted
  every second.

One more has no run: `scripts/backfill_market_price_history.py` calls its
defaults safe to run on production, and counts again whatever the chart already
has, as counts are added on conflict.

## 7. Plan

Done: the consumer, its channel and its handlers, the batcher, chart history and
its compaction, tape retention, scores and flags, alerts and their retention, the
market directory, the classifier, news, the supervisor, heartbeats, the cache, the
limiter, the list of suspicious trades and search. What would come next:

1. Theorems: the types of `NewsDesk` and `SearchDesk` beside their invariants, and
   the safety that liveness rests on, such as that each cycle of hydration works off the
   busiest stubs it was given.
2. Retention of book events and snapshots, beside that of trades.
3. The removal of duplicate snapshots and the full backfill of the projection.

## 8. Not modelled, and why

Text and statistics: which words make an article relevant to a market, how alike two
titles are, clustering, bursts and baselines. They are inputs of the models
(`Links`, `Scores`, feature records, surroundings): a model could only repeat them.
Single read-only queries of the dashboard have no order or failure that could go
wrong beyond their own. The backfill is a script for empty charts, run by hand.
`raw_retention_strategy.py` reports; of `quote_series.py` the timestamp of a chart
row is modelled (`Latest`), and the rest formats. The frontend renders, and
deployment files give the constants of the instances.

Of the modelled parts: reconnect backoff and subscriptions, message parsing,
evidence payloads, retention of book events and snapshots, scores and days of
alert summaries, ranking of search results, row limits of the series endpoint,
how storage is measured, and the dry runs of scripts, which change nothing.
