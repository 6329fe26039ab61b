------------------------------ MODULE TradeTape ------------------------------
(***************************************************************************)
(* Trades and order-book messages on their way into the raw tape:          *)
(* handle_trade_message and handle_orderbook_*_message of                  *)
(* app/services/kalshi_ws.py, run by writer workers in threads, with the   *)
(* storage decision (TierPolicy) in front and the ClickHouse batcher       *)
(* (ClickHouseBatcher) beside PostgreSQL.                                  *)
(*                                                                         *)
(* A handler is one transaction: it reads the market and the decision      *)
(* (...Begin), inserts the row and hands it to the batcher (Insert), and   *)
(* commits or rolls back.  A first attempt that PostgreSQL ends because of *)
(* a deadlock is tried again.  What went to the batcher before a rollback  *)
(* stays there.                                                            *)
(***************************************************************************)
EXTENDS ClickHouseBatcher, TierPolicy

CONSTANTS
  Worker,      \* writer workers
  Market,
  Class,       \* Class[m]: category and prior the ticker of m is given
  Trade, Book, \* the trades and book messages of the feed
  MarketOf,    \* MarketOf[x]: market of a trade or book message
  Hashed,      \* messages whose sampling hash is below 10 %
  Backends,    \* raw backends to look at: "postgres", "clickhouse", "dual"
  Levels,      \* sets of reasons a ticker message may show for a market
  MaxDeliver,  \* bound: MaxDeliver[x], deliveries of message x
  MaxUpset     \* bound: transactions that fail and ends of the process

ASSUME TapeAssumption ==
  /\ IsFiniteSet(Worker) /\ <<>> \notin Market
  /\ Row = Trade \union Book /\ Trade \intersect Book = {}
  /\ MarketOf \in [Row -> Market] /\ Levels \subseteq SUBSET Reason
  /\ MaxDeliver \in [Row -> Nat] /\ \A b \in Book : MaxDeliver[b] <= 1

VARIABLES
  backend,     \* kalshi_raw_backend
  known,       \* markets with a row in the markets table
  metric,      \* metric[m]: reasons the volumes in market_metrics show
  hint,        \* hint[m]: the same in the cache of the process, or NoHint
  alerts,      \* markets with an anomaly row
  flags,       \* markets with a high or critical trade flag
  tape,        \* trades and book messages in PostgreSQL
  tradeCount,  \* trade_count in market_metrics, over all markets
  charted,     \* charted[t]: how often trade t was added to the chart
  work,        \* work[w]: the transaction of worker w
  delivered,   \* delivered[x]: deliveries so far
  finished,    \* history: trades a handler has returned from normally
  undone,      \* history: undone[x]: rolled-back attempts that had enqueued x
  dropped,     \* history: dropped[x]: rows refused by the full queue
  upsets

dbVars == <<known, metric, alerts, flags, tape, tradeCount, charted>>
runVars == <<delivered, finished, undone, dropped, upsets>>
vars == <<batcherVars, backend, dbVars, hint, work, runVars>>

NoHint == {"none"}
Idling == [at |-> "idle"]
WriteRawPostgres == backend \in {"postgres", "dual"}
WriteRawClickhouse == backend \in {"clickhouse", "dual"}
Busy == {w \in Worker : work[w].at # "idle"}

Init ==
  /\ BatcherInit
  /\ backend \in Backends
  /\ known \in SUBSET {m \in Market : InScope(Class[m])} /\ alerts = {} /\ flags = {}
  /\ metric = [m \in Market |-> {}] /\ hint = [m \in Market |-> NoHint]
  /\ tape = {} /\ tradeCount = 0 /\ charted = [t \in Trade |-> 0]
  /\ work = [w \in Worker |-> Idling]
  /\ delivered = [x \in Row |-> 0] /\ finished = {}
  /\ undone = [x \in Row |-> 0] /\ dropped = [x \in Row |-> 0]
  /\ upsets = 0

----------------------------------------------------------------------------
(* The storage decision                                                     *)

Prior(m) ==
  IF Class[m].prior \in {"high", "medium_high"} THEN {"high_prior"}
  ELSE IF Class[m].prior = "medium" THEN {"medium_prior"} ELSE {}

\* _tape_hints_for_market: the cache while it is fresh, else the metrics row.
TapeHints(m) == IF hint[m] # NoHint THEN hint[m] ELSE metric[m]

\* _raw_tape_decision for a market.
MarketDecision(m) ==
  RawTapeDecision(Prior(m) \union TapeHints(m), m \in alerts, m \in flags)
CacheHints(m) == hint' = [hint EXCEPT ![m] = TapeHints(m)]

\* A ticker message updates the cache and the metrics row; the poller the row.
Quote(m, reasons) ==
  /\ m \in known
  /\ metric[m] \subseteq reasons /\ reasons # metric[m]
  /\ metric' = [metric EXCEPT ![m] = reasons]
  /\ \/ hint' = [hint EXCEPT ![m] = reasons]
     \/ hint' = hint
  /\ UNCHANGED <<batcherVars, backend, known, alerts, flags, tape, tradeCount, charted,
                 work, runVars>>

\* _TAPE_HINT_TTL_SEC passes.
HintExpires(m) ==
  /\ hint[m] # NoHint
  /\ hint' = [hint EXCEPT ![m] = NoHint]
  /\ UNCHANGED <<batcherVars, backend, dbVars, work, runVars>>

\* The materializers write an alert or a severe trade flag.
Signal(m) ==
  /\ m \in known
  /\ \/ m \notin alerts /\ alerts' = alerts \union {m} /\ flags' = flags
     \/ m \notin flags /\ tape # {} /\ flags' = flags \union {m} /\ alerts' = alerts
  /\ UNCHANGED <<batcherVars, backend, known, metric, hint, tape, tradeCount, charted,
                 work, runVars>>

----------------------------------------------------------------------------
(* The trade handler                                                        *)

\* A worker takes a message, or takes it again after a deadlock.  A trade may
\* come again after a reconnect; a book message cannot, as a new session
\* numbers its messages anew.
Deliverable(w, x) ==
  \/ /\ work[w] = Idling /\ ~stopping
     /\ delivered[x] < MaxDeliver[x]
  \/ work[w] = [at |-> "retry", msg |-> x]
Delivered(w, x) ==
  delivered' = IF work[w] = Idling THEN [delivered EXCEPT ![x] = @ + 1] ELSE delivered
Attempt(w) == IF work[w] = Idling THEN 1 ELSE 2

Uncommitted(f) == {work[w][f] : w \in {v \in Busy : work[v].at = "open"}}
Skip(w) == work' = [work EXCEPT ![w] = Idling]

\* Mutant: a message that is not kept is rolled back, its stub with it.
KnownAfterDrop_Rollback(m) == known

\* A trade that is not kept: the commit is for the stub.
KnownAfterDrop(m) == known \union {m}
\* _get_or_create_market makes a stub for a market in scope; an insert of the
\* same market waits for the transaction that is already making one.
TradeBegin(w, t) ==
  LET m == MarketOf[t]
      d == MarketDecision(m)
  IN
  /\ Deliverable(w, t) /\ Delivered(w, t)
  /\ m \in known \/ m \notin Uncommitted("makes")
  /\ IF m \notin known /\ ~InScope(Class[m])
     THEN /\ Skip(w) /\ finished' = finished \union {t}
          /\ UNCHANGED <<hint, known>>
     ELSE /\ CacheHints(m)
          /\ IF d.raw /\ SampleEvent(t, d.rate, Hashed)
             THEN /\ work' = [work EXCEPT ![w] =
                       [at |-> "insert", msg |-> t, attempt |-> Attempt(w),
                        makes |-> IF m \in known THEN Pill ELSE m]]
                  /\ UNCHANGED <<known, finished>>
             ELSE /\ known' = KnownAfterDrop(m)
                  /\ finished' = finished \union {t}
                  /\ Skip(w)
  /\ UNCHANGED <<batcherVars, backend, metric, alerts, flags, tape, tradeCount,
                 charted, undone, dropped, upsets>>

\* handle_orderbook_*_message: never makes a market, and returns without a
\* commit when the message is not kept.
BookBegin(w, b) ==
  LET m == MarketOf[b]
      d == MarketDecision(m)
  IN
  /\ Deliverable(w, b) /\ Delivered(w, b)
  /\ IF m \notin known
     THEN Skip(w) /\ UNCHANGED hint
     ELSE /\ CacheHints(m)
          /\ IF d.raw /\ SampleEvent(b, d.rate, Hashed)
             THEN /\ work' = [work EXCEPT ![w] =
                       [at |-> "insert", msg |-> b, attempt |-> Attempt(w), makes |-> Pill]]
             ELSE Skip(w)
  /\ UNCHANGED <<batcherVars, backend, dbVars, finished, undone, dropped, upsets>>

\* Hand x to the batcher; a full queue refuses it.
HandOver(x) ==
  /\ Enqueue(x)
  /\ dropped' = IF Fits THEN dropped ELSE [dropped EXCEPT ![x] = @ + 1]
NoHandOver == UNCHANGED <<batcherVars, dropped>>

\* Mutant: a trade PostgreSQL already had is sent again.
Sends_Replay(x, new) == WriteRawClickhouse

\* A trade goes to ClickHouse only if PostgreSQL took it, or if PostgreSQL is
\* not written at all; a book message goes there in any case.
Sends(x, new) == WriteRawClickhouse /\ (x \in Book \/ new \/ ~WriteRawPostgres)

\* Mutant: the chart and the counter are updated whatever the insert said.
Wrote_Always(x, new, send) == x \in Trade

\* wrote_trade: PostgreSQL took the row, or the queue of the batcher did.
Wrote(x, new, send) == new \/ (x \in Trade /\ send /\ Fits)

\* INSERT ... ON CONFLICT DO NOTHING waits for another transaction with the
\* same key.
Insert(w) ==
  LET x == work[w].msg
      new == WriteRawPostgres /\ x \notin tape
      send == Sends(x, new)
      wrote == Wrote(x, new, send)
  IN
  /\ work[w].at = "insert"
  /\ WriteRawPostgres => \A v \in Busy : work[v].at = "open" => work[v].msg # x
  /\ IF send THEN HandOver(x) ELSE NoHandOver
  /\ work' = [work EXCEPT ![w] =
       [at |-> "open", msg |-> x, attempt |-> work[w].attempt, makes |-> work[w].makes,
        wrote |-> wrote, sent |-> send /\ Fits]]
  /\ UNCHANGED <<backend, dbVars, hint, delivered, finished, undone, upsets>>

\* The commit: the row, the chart bucket and the counter, and the stub.  A row
\* lock orders the chart and counter updates of two transactions, so each adds
\* to what the other has committed.
Commit(w) ==
  LET x == work[w].msg IN
  /\ work[w].at = "open"
  /\ known' = known \union ({work[w].makes} \ {Pill})
  /\ tape' = IF WriteRawPostgres THEN tape \union {x} ELSE tape
  /\ IF x \in Trade /\ work[w].wrote
     THEN tradeCount' = tradeCount + 1 /\ charted' = [charted EXCEPT ![x] = @ + 1]
     ELSE UNCHANGED <<tradeCount, charted>>
  /\ finished' = finished \union ({x} \intersect Trade)
  /\ Skip(w)
  /\ UNCHANGED <<batcherVars, backend, metric, alerts, flags, hint, delivered, undone,
                 dropped, upsets>>

\* The transaction is rolled back.  After a deadlock the worker tries once
\* more; any other error, or a second one, gives the message up.
Rollback(w, deadlock) ==
  LET x == work[w].msg IN
  /\ work[w].at = "open" /\ upsets < MaxUpset
  /\ upsets' = upsets + 1
  /\ undone' = IF work[w].sent THEN [undone EXCEPT ![x] = @ + 1] ELSE undone
  /\ work' = [work EXCEPT ![w] =
       IF deadlock /\ work[w].attempt = 1 THEN [at |-> "retry", msg |-> x] ELSE Idling]
  /\ UNCHANGED <<batcherVars, backend, dbVars, hint, delivered, finished, dropped>>

----------------------------------------------------------------------------
(* The batcher thread and the end of the process                            *)

Batch == BatchThread /\ UNCHANGED <<backend, dbVars, hint, work, runVars>>

\* The process ends when its workers have: atexit stops the batcher.
Shutdown ==
  /\ Busy = {} /\ upsets < MaxUpset
  /\ Stop /\ UNCHANGED <<backend, dbVars, hint, work, runVars>>

\* The thread has been joined or the join has timed out, or the process was
\* killed; the supervisor starts a new one.
Restart(killed) ==
  /\ upsets < MaxUpset /\ upsets' = upsets + 1
  /\ stopping \/ killed
  /\ Gone
  /\ hint' = [m \in Market |-> NoHint]
  /\ undone' = [x \in Row |->
       undone[x] + Cardinality({w \in Busy : work[w].at = "open" /\ work[w].msg = x
                                             /\ work[w].sent})]
  /\ work' = [w \in Worker |-> Idling]
  /\ UNCHANGED <<backend, dbVars, delivered, finished, dropped>>

WorkerStep(w) ==
  \/ \E t \in Trade : TradeBegin(w, t)
  \/ \E b \in Book : BookBegin(w, b)
  \/ Insert(w) \/ Commit(w)
  \/ \E deadlock \in BOOLEAN : Rollback(w, deadlock)
Next ==
  \/ \E w \in Worker : WorkerStep(w)
  \/ \E m \in Market : HintExpires(m) \/ Signal(m) \/ \E r \in Levels : Quote(m, r)
  \/ Batch
  \/ Shutdown \/ \E killed \in BOOLEAN : Restart(killed)

Spec == Init /\ [][Next]_vars

----------------------------------------------------------------------------
(* What must hold                                                           *)

Transaction ==
  {Idling} \union [at : {"retry"}, msg : Row]
  \union [at : {"insert"}, msg : Row, attempt : {1, 2}, makes : Market \union {Pill}]
  \union [at : {"open"}, msg : Row, attempt : {1, 2}, makes : Market \union {Pill},
          wrote : BOOLEAN, sent : BOOLEAN]
TypeOK ==
  /\ BatcherTypeOK
  /\ delivered \in [Row -> Nat] /\ undone \in [Row -> Nat] /\ dropped \in [Row -> Nat]
  /\ backend \in Backends /\ known \subseteq Market /\ tape \subseteq Row
  /\ metric \in [Market -> SUBSET Reason]
  /\ hint \in [Market -> (SUBSET Reason) \union {NoHint}]
  /\ tradeCount \in Nat /\ charted \in [Trade -> Nat]
  /\ work \in [Worker -> Transaction]

\* A row the batcher took is in the queue, in a buffer, in ClickHouse or lost,
\* and in one of them only: the buffer is cleared with its insert.  The thread
\* hands in what it has buffered before it ends.
RowAccounted ==
  /\ \A r \in Row : accepted[r] = Rows(queue, r) + Rows(buffers[TableOf[r]], r)
                                  + inserted[r] + lost[r]
  /\ thread = "ended" => Filled = {}

\* A caller sees the batcher as a sink that may lose rows, but neither doubles
\* them nor stores them out of the order of their table.
Sink == INSTANCE LossySink WITH waiting <- Waiting
ImplementsSink == Sink!Spec

\* Over replays and retries a trade counts once: it is in the chart once and in
\* trade_count once, exactly if PostgreSQL has its row.
TradeCountedOnce ==
  WriteRawPostgres =>
    /\ tradeCount = Cardinality(tape \intersect Trade)
    /\ \A t \in Trade : charted[t] = IF t \in tape THEN 1 ELSE 0

\* With both stores ClickHouse is offered every row PostgreSQL holds, and a
\* second copy only for an attempt that was rolled back after it was handed over.
OfferedOnce ==
  backend = "dual" =>
    \A x \in Row :
      /\ x \in tape => accepted[x] + dropped[x] > 0
      /\ accepted[x] <= undone[x] + IF x \in tape \/ \E w \in Busy :
                           work[w].at = "open" /\ work[w].msg = x THEN 1 ELSE 0

\* A market in scope whose trade has been handled is known from then on, even
\* when the trade itself is dropped by the gate or the sampler.
SeenMarketsKnown ==
  \A t \in finished : InScope(Class[MarketOf[t]]) => MarketOf[t] \in known
=============================================================================
