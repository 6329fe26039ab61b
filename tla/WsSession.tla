----------------------------- MODULE WsSession -----------------------------
(***************************************************************************)
(* The WebSocket consumer of app/services/kalshi_ws.py: one reader         *)
(* coroutine, the ticker coalescer, the bounded asyncio queue, the pool of *)
(* writer workers with their single retry after a deadlock, the            *)
(* known-market allowlist task, and the shutdown sequence that ends every  *)
(* session before the next connection is made.                             *)
(*                                                                         *)
(* The coroutines of one process interleave only at an await, so a step    *)
(* below is the code between two awaits.  A handler runs in a thread and   *)
(* is one database transaction: its effect is one step, at the commit.     *)
(*                                                                         *)
(* Market is the set of tickers with an in-scope row in the market table   *)
(* (the batch handler skips the others); a ticker state is its number in   *)
(* the order of arrival, and two states differ in their quotes, so the     *)
(* write gate on unchanged quotes is always open.                          *)
(***************************************************************************)
EXTENDS Integers, Sequences, FiniteSets

CONSTANTS
  Market,       \* tickers of the feed
  Worker,       \* the writer tasks of a session (KALSHI_WS_WORKER_COUNT)
  QueueSize,    \* KALSHI_WS_QUEUE_SIZE
  FlushPercent, \* KALSHI_WS_TICKER_FLUSH_MAX_QUEUE_FRACTION, 80 by default
  Coalesce,     \* KALSHI_WS_TICKER_COALESCE_ENABLED
  BatchWrites,  \* KALSHI_WS_TICKER_BATCH_DB_WRITES_ENABLED
  MaxTick,      \* bound: ticker messages per market
  MaxEvent,     \* bound: trade and orderbook messages
  MaxCrash      \* bound: kills of the process

ASSUME ConstantsOk ==
  /\ IsFiniteSet(Worker) /\ Worker # {}
  /\ QueueSize \in Nat \ {0}
  /\ FlushPercent \in 0..100
  /\ Coalesce \in BOOLEAN /\ BatchWrites \in BOOLEAN
  /\ MaxTick \in Nat /\ MaxEvent \in Nat /\ MaxCrash \in Nat

VARIABLES
  phase,    \* where consume_market_data_forever is
  inHand,   \* the message the reader is putting into the queue
  pending,  \* pending_tickers: latest state per market not yet flushed, or 0
  flush,    \* payloads the coalescer has taken from pending and not yet queued
  coal,     \* where _ticker_coalescer_worker is
  queue,    \* the asyncio queue
  unfinished, \* its count of items without task_done, on which join waits
  pills,    \* how many None sentinels are still to be put
  known,    \* _KNOWN_MARKET_TICKERS, {} before the first refresh
  knownTask, \* where _known_market_ticker_worker is
  worker,   \* worker[w]: where _ws_writer_worker w is
  held,     \* held[w]: the payload w is writing
  seen,     \* seen[m]: ticker messages of m accepted past the gate
  arrived,  \* events accepted
  store,    \* store[m]: ticker state of m in the database
  log,      \* events in the database in commit order
  missed,   \* missed[m]: states of m in payloads that were lost
  dropped,  \* events in payloads that were lost
  crashes

session == <<phase, pills>>
coalescer == <<pending, flush, coal>>
allowlist == <<known, knownTask>>
pool == <<worker, held>>
db == <<store, log>>
feed == <<seen, arrived>>
lost == <<missed, dropped>>
vars == <<session, inHand, coalescer, queue, unfinished, allowlist, pool,
          feed, db, lost, crashes>>

-----------------------------------------------------------------------------
(* Payloads.  A ticker payload carries a state for each of some markets    *)
(* (one, or a whole batch), an event payload one event.                    *)

NoTicks == [m \in Market |-> 0]

Payload == [kind : {"none", "ticks", "event", "pill"},
            ticks : [Market -> Nat], ev : Nat]

Nothing == [kind |-> "none", ticks |-> NoTicks, ev |-> 0]
Pill == [kind |-> "pill", ticks |-> NoTicks, ev |-> 0]
EventOf(e) == [kind |-> "event", ticks |-> NoTicks, ev |-> e]
TicksOf(f) == [kind |-> "ticks", ticks |-> f, ev |-> 0]
Only(f, m) == [n \in Market |-> IF n = m THEN f[m] ELSE 0]

\* What _flush_ticker_coalescer queues for the pending states f: one batch,
\* or one payload per market.
Payloads(f) ==
  IF f = NoTicks THEN {}
  ELSE IF BatchWrites THEN {TicksOf(f)}
  ELSE {TicksOf(Only(f, m)) : m \in {n \in Market : f[n] # 0}}

FlushLimit == (QueueSize * FlushPercent) \div 100

Stopping == phase # "open"

Init ==
  /\ phase = "down" /\ pills = 0
  /\ inHand = Nothing
  /\ pending = NoTicks /\ flush = {} /\ coal = "done"
  /\ queue = <<>> /\ unfinished = 0
  /\ known = {} /\ knownTask = "done"
  /\ worker = [w \in Worker |-> "exit"]
  /\ held = [w \in Worker |-> Nothing]
  /\ seen = NoTicks /\ arrived = 0
  /\ store = NoTicks /\ log = <<>>
  /\ missed = [m \in Market |-> {}] /\ dropped = {}
  /\ crashes = 0

-----------------------------------------------------------------------------
(* The session: connect, subscribe, start the tasks.                       *)

Connect ==
  /\ phase = "down"
  /\ phase' = "open"
  /\ pills' = 0
  /\ pending' = NoTicks /\ flush' = {}
  /\ coal' = IF Coalesce THEN "putting" ELSE "done"
  /\ queue' = <<>> /\ unfinished' = 0
  /\ knownTask' = "waiting"
  /\ worker' = [w \in Worker |-> "getting"]
  /\ held' = [w \in Worker |-> Nothing]
  /\ UNCHANGED <<inHand, known, feed, db, lost, crashes>>

\* queue.put, which waits while the queue is full.
Put(item) ==
  /\ Len(queue) < QueueSize
  /\ queue' = Append(queue, item)
  /\ unfinished' = unfinished + 1

\* _ticker_allowed_by_known_market_gate: an empty allowlist lets all pass.
Allowed(m) == known = {} \/ m \in known

\* The reader takes a ticker message.  (One that is not allowed is skipped.)
\* It becomes the pending state of its market, or is queued by itself.
ReadTick(m) ==
  /\ phase = "open" /\ inHand = Nothing
  /\ Allowed(m)
  /\ seen[m] < MaxTick
  /\ seen' = [seen EXCEPT ![m] = @ + 1]
  /\ IF Coalesce
       THEN /\ pending' = [pending EXCEPT ![m] = seen[m] + 1]
            /\ UNCHANGED inHand
       ELSE /\ inHand' = TicksOf([NoTicks EXCEPT ![m] = seen[m] + 1])
            /\ UNCHANGED pending
  /\ UNCHANGED <<session, flush, coal, queue, unfinished, allowlist, pool,
                 arrived, db, lost, crashes>>

\* The reader takes a trade or an orderbook message.
ReadEvent ==
  /\ phase = "open" /\ inHand = Nothing
  /\ arrived < MaxEvent
  /\ arrived' = arrived + 1
  /\ inHand' = EventOf(arrived + 1)
  /\ UNCHANGED <<session, coalescer, queue, unfinished, allowlist, pool,
                 seen, db, lost, crashes>>

ReaderPut ==
  /\ inHand # Nothing
  /\ Put(inHand)
  /\ inHand' = Nothing
  /\ UNCHANGED <<session, coalescer, allowlist, pool, feed, db, lost, crashes>>

-----------------------------------------------------------------------------
(* The coalescer.                                                          *)

\* Mutant: pending_tickers is not cleared when it is flushed.
CoalesceTick_KeepsPending ==
  /\ coal = "sleeping"
  /\ coal' = "putting"
  /\ flush' = IF Len(queue) >= FlushLimit THEN flush ELSE Payloads(pending)
  /\ UNCHANGED <<session, inHand, pending, queue, unfinished, allowlist, pool,
                 feed, db, lost, crashes>>

\* The sleep is over: flush, unless the queue is nearly full.
CoalesceTick ==
  /\ coal = "sleeping"
  /\ coal' = "putting"
  /\ IF Len(queue) >= FlushLimit
       THEN UNCHANGED <<pending, flush>>
       ELSE flush' = Payloads(pending) /\ pending' = NoTicks
  /\ UNCHANGED <<session, inHand, queue, unfinished, allowlist, pool, feed, db,
                 lost, crashes>>

CoalescePut ==
  /\ coal \in {"putting", "final"}
  /\ \E item \in flush :
       /\ Put(item)
       /\ flush' = flush \ {item}
  /\ UNCHANGED <<session, inHand, pending, coal, allowlist, pool, feed, db,
                 lost, crashes>>

\* Mutant: the stopped coalescer ends without the forced flush.
CoalesceLoop_NoForcedFlush ==
  /\ flush = {}
  /\ coal = "putting"
  /\ coal' = IF phase = "coalescer" THEN "done" ELSE "sleeping"
  /\ UNCHANGED <<session, inHand, pending, flush, queue, unfinished, allowlist,
                 pool, feed, db, lost, crashes>>

\* The loop test: go back to sleep, or make the forced flush and then end.
CoalesceLoop ==
  /\ flush = {}
  /\ \/ /\ coal = "putting" /\ phase # "coalescer"
        /\ coal' = "sleeping"
        /\ UNCHANGED <<pending, flush>>
     \/ /\ coal = "putting" /\ phase = "coalescer"
        /\ coal' = "final"
        /\ flush' = Payloads(pending) /\ pending' = NoTicks
     \/ /\ coal = "final"
        /\ coal' = "done"
        /\ UNCHANGED <<pending, flush>>
  /\ UNCHANGED <<session, inHand, queue, unfinished, allowlist, pool, feed, db,
                 lost, crashes>>

-----------------------------------------------------------------------------
(* The allowlist task.                                                     *)

\* A refresh ends: the allowlist is what the market table said, or stays as
\* it is because the query failed.
KnownRefresh ==
  /\ knownTask = "refreshing"
  /\ knownTask' = "waiting"
  /\ known' \in SUBSET Market
  /\ UNCHANGED <<session, inHand, coalescer, queue, unfinished, pool, feed, db,
                 lost, crashes>>

\* The loop test, at the start, on the stop event or on its timeout.
KnownLoop ==
  /\ knownTask = "waiting"
  /\ knownTask' = IF Stopping THEN "done" ELSE "refreshing"
  /\ UNCHANGED <<session, inHand, coalescer, queue, unfinished, known, pool,
                 feed, db, lost, crashes>>

-----------------------------------------------------------------------------
(* The writer workers.                                                     *)

\* queue.get; a sentinel ends the worker.
WorkerGet(w) ==
  /\ worker[w] = "getting" /\ queue # <<>>
  /\ queue' = Tail(queue)
  /\ IF Head(queue) = Pill
       THEN /\ worker' = [worker EXCEPT ![w] = "exit"]
            /\ unfinished' = unfinished - 1
            /\ UNCHANGED held
       ELSE /\ worker' = [worker EXCEPT ![w] = "writing"]
            /\ held' = [held EXCEPT ![w] = Head(queue)]
            /\ UNCHANGED unfinished
  /\ UNCHANGED <<session, inHand, coalescer, allowlist, feed, db, lost, crashes>>

\* task_done, and back to queue.get.
WorkerDone(w) ==
  /\ unfinished' = unfinished - 1
  /\ worker' = [worker EXCEPT ![w] = "getting"]
  /\ held' = [held EXCEPT ![w] = Nothing]

\* What a committed ticker payload leaves in the database.
Stored(ticks) == [m \in Market |-> IF ticks[m] # 0 THEN ticks[m] ELSE store[m]]

\* The handler commits.
WorkerCommit(w) ==
  /\ worker[w] \in {"writing", "retrying"}
  /\ store' = Stored(held[w].ticks)
  /\ log' = IF held[w].kind = "event" THEN Append(log, held[w].ev) ELSE log
  /\ WorkerDone(w)
  /\ UNCHANGED <<session, inHand, coalescer, queue, allowlist, feed, lost,
                 crashes>>

\* Mutant: the handler had committed before the error that is retried.
WorkerDeadlock_Committed(w) ==
  /\ worker[w] = "writing"
  /\ worker' = [worker EXCEPT ![w] = "retrying"]
  /\ store' = Stored(held[w].ticks)
  /\ log' = IF held[w].kind = "event" THEN Append(log, held[w].ev) ELSE log
  /\ UNCHANGED <<session, inHand, coalescer, queue, unfinished, allowlist, held,
                 feed, lost, crashes>>

\* The first attempt is rolled back by a deadlock; the worker will retry.
WorkerDeadlock(w) ==
  /\ worker[w] = "writing"
  /\ worker' = [worker EXCEPT ![w] = "retrying"]
  /\ UNCHANGED <<session, inHand, coalescer, queue, unfinished, allowlist, held,
                 feed, db, lost, crashes>>

\* The states and events that are lost when the payloads of S are.
Missed(S) == [m \in Market |-> missed[m] \cup ({x.ticks[m] : x \in S} \ {0})]
EventsOf(S) == {x.ev : x \in S} \ {0}

\* Mutant: a failed payload is not reported with task_done.
WorkerFail_NoTaskDone(w) ==
  /\ worker[w] \in {"writing", "retrying"}
  /\ missed' = Missed({held[w]})
  /\ dropped' = dropped \cup EventsOf({held[w]})
  /\ worker' = [worker EXCEPT ![w] = "getting"]
  /\ held' = [held EXCEPT ![w] = Nothing]
  /\ UNCHANGED <<session, inHand, coalescer, queue, unfinished, allowlist, feed,
                 db, crashes>>

\* Another error, or a second deadlock: the payload is logged and given up.
WorkerFail(w) ==
  /\ worker[w] \in {"writing", "retrying"}
  /\ missed' = Missed({held[w]})
  /\ dropped' = dropped \cup EventsOf({held[w]})
  /\ WorkerDone(w)
  /\ UNCHANGED <<session, inHand, coalescer, queue, allowlist, feed, db, crashes>>

-----------------------------------------------------------------------------
(* The end of a session: the finally block.                                *)

\* The connection is closed, by the server or by an error.
Close ==
  /\ phase = "open" /\ inHand = Nothing
  /\ phase' = "known"
  /\ UNCHANGED <<pills, inHand, coalescer, queue, unfinished, allowlist, pool,
                 feed, db, lost, crashes>>

\* Each await of the finally block that is over.
KnownJoined ==
  /\ phase = "known" /\ knownTask = "done"
  /\ phase' = "coalescer"
  /\ UNCHANGED <<pills, inHand, coalescer, queue, unfinished, allowlist, pool,
                 feed, db, lost, crashes>>

CoalescerJoined ==
  /\ phase = "coalescer" /\ coal = "done"
  /\ phase' = "pills"
  /\ pills' = Cardinality(Worker)
  /\ UNCHANGED <<inHand, coalescer, queue, unfinished, allowlist, pool, feed, db,
                 lost, crashes>>

PutPill ==
  /\ phase = "pills" /\ pills > 0
  /\ Put(Pill)
  /\ pills' = pills - 1
  /\ phase' = IF pills = 1 THEN "join" ELSE "pills"
  /\ UNCHANGED <<inHand, coalescer, allowlist, pool, feed, db, lost, crashes>>

\* queue.join and the gather of the workers.
Join ==
  /\ phase = "join" /\ unfinished = 0
  /\ \A w \in Worker : worker[w] = "exit"
  /\ phase' = "down"
  /\ UNCHANGED <<pills, inHand, coalescer, queue, unfinished, allowlist, pool,
                 feed, db, lost, crashes>>

\* Everything received and not yet written.
InFlight ==
  {queue[i] : i \in DOMAIN queue} \cup {held[w] : w \in Worker} \cup flush
    \cup {inHand, TicksOf(pending)}

\* The process is killed and started again; memory is gone.
Crash ==
  /\ phase # "down" /\ crashes < MaxCrash
  /\ crashes' = crashes + 1
  /\ missed' = Missed(InFlight)
  /\ dropped' = dropped \cup EventsOf(InFlight)
  /\ phase' = "down" /\ pills' = 0
  /\ inHand' = Nothing
  /\ pending' = NoTicks /\ flush' = {} /\ coal' = "done"
  /\ queue' = <<>> /\ unfinished' = 0
  /\ known' = {} /\ knownTask' = "done"
  /\ worker' = [w \in Worker |-> "exit"]
  /\ held' = [w \in Worker |-> Nothing]
  /\ UNCHANGED <<feed, db>>

-----------------------------------------------------------------------------
Reader == (\E m \in Market : ReadTick(m)) \/ ReadEvent \/ ReaderPut
Coalescer == CoalesceTick \/ CoalescePut \/ CoalesceLoop
Allowlist == KnownRefresh \/ KnownLoop
Writer(w) == WorkerGet(w) \/ WorkerCommit(w) \/ WorkerDeadlock(w) \/ WorkerFail(w)
Shutdown == KnownJoined \/ CoalescerJoined \/ PutPill \/ Join

Next ==
  \/ Connect \/ Reader \/ Coalescer \/ Allowlist
  \/ \E w \in Worker : Writer(w)
  \/ Close \/ Shutdown \/ Crash

\* The event loop runs every ready coroutine again and again, and a database
\* call returns.  Nothing obliges the feed to send or the server to close.
Fairness ==
  /\ WF_vars(ReaderPut) /\ WF_vars(Coalescer) /\ WF_vars(Allowlist)
  /\ WF_vars(Shutdown)
  /\ \A w \in Worker : WF_vars(Writer(w))

Spec == Init /\ [][Next]_vars
FairSpec == Spec /\ Fairness

-----------------------------------------------------------------------------
(* Properties.                                                             *)

\* The variables have their types and respect the bounds.
TypeOK ==
  /\ phase \in {"down", "open", "known", "coalescer", "pills", "join"}
  /\ pills \in Nat
  /\ inHand \in Payload
  /\ pending \in [Market -> Nat]
  /\ flush \in SUBSET Payload
  /\ coal \in {"sleeping", "putting", "final", "done"}
  /\ queue \in Seq(Payload) /\ Len(queue) <= QueueSize
  /\ unfinished \in Int
  /\ known \in SUBSET Market
  /\ knownTask \in {"refreshing", "waiting", "done"}
  /\ worker \in [Worker -> {"getting", "writing", "retrying", "exit"}]
  /\ held \in [Worker -> Payload]
  /\ seen \in [Market -> Nat] /\ arrived \in Nat
  /\ store \in [Market -> Nat] /\ log \in Seq(Nat)
  /\ missed \in [Market -> SUBSET Nat] /\ dropped \in SUBSET Nat
  /\ crashes \in Nat

\* x holds nothing that is younger than, or as young as, what y holds of the
\* same market or of the event stream.
Before(x, y) ==
  /\ \A m \in Market :
       x.ticks[m] # 0 /\ y.ticks[m] # 0 => x.ticks[m] < y.ticks[m]
  /\ x.ev # 0 /\ y.ev # 0 => x.ev < y.ev

\* What x holds was received, and is younger than what the database holds.
Fresh(x) ==
  /\ \A m \in Market :
       /\ x.ticks[m] <= seen[m]
       /\ x.ticks[m] # 0 => store[m] < x.ticks[m]
  /\ x.ev <= arrived
  /\ x.ev # 0 => \A i \in DOMAIN log : log[i] < x.ev

\* What is in flight is fresh, and what is in the database was received.
AllFresh ==
  /\ \A x \in InFlight : Fresh(x)
  /\ \A m \in Market : store[m] <= seen[m]
  /\ \A i \in DOMAIN log : log[i] <= arrived

\* The payload a worker writes comes before all the others.
HeldFirst ==
  \A w \in Worker :
    /\ \A i \in DOMAIN queue : Before(held[w], queue[i])
    /\ \A x \in flush : Before(held[w], x)
    /\ Before(held[w], inHand)
    /\ Before(held[w], TicksOf(pending))

\* The queue is in order, and before what is still to be queued.
QueueOrdered ==
  \A i \in DOMAIN queue :
    /\ \A j \in DOMAIN queue : i < j => Before(queue[i], queue[j])
    /\ \A x \in flush : Before(queue[i], x)
    /\ Before(queue[i], inHand)
    /\ Before(queue[i], TicksOf(pending))

\* What the coalescer and the reader are putting have nothing in common, and
\* come before the pending states.
FlushOrdered ==
  /\ \A x \in flush :
       /\ \A y \in flush : x # y => Before(x, y)
       /\ Before(x, inHand) /\ Before(inHand, x)
       /\ Before(x, TicksOf(pending))
  /\ Before(inHand, TicksOf(pending))

\* With one worker, a payload further from the database is never older than
\* one nearer to it: worker, queue from its head, then the flush of the
\* coalescer and the message in the reader's hand, then the pending states.
PipelineOrdered == AllFresh /\ HeldFirst /\ QueueOrdered /\ FlushOrdered

\* What each mode of the consumer leaves unused.
Modes ==
  /\ ~Coalesce => pending = NoTicks /\ flush = {}
  /\ Coalesce => inHand.ticks = NoTicks
  /\ \A x \in flush : x.ev = 0
  /\ \A w \in Worker : worker[w] \in {"getting", "exit"} => held[w] = Nothing

\* An event payload carries one event, a ticker payload none, others nothing.
Proper(x) ==
  /\ x.kind = "event" <=> x.ev # 0
  /\ x.kind # "ticks" => x.ticks = NoTicks
AllProper == \A x \in InFlight : Proper(x)

\* The order of the whole pipeline is kept by every step of the reader, the
\* coalescer and the worker; it is the inductive invariant behind
\* ImplementsChannel.
PipelineInv == Modes /\ AllProper /\ PipelineOrdered

\* With one worker the consumer keeps the promise of TapeChannel: a stored
\* ticker state is never replaced by an older one, and events are committed at
\* most once and in the order of arrival, over deadlock retries, failed
\* writes, reconnections and crashes.
Channel == INSTANCE TapeChannel WITH
  Market <- Market, seen <- seen, arrived <- arrived, store <- store, log <- log
ImplementsChannel == Channel!Spec

\* When a session is over, every ticker state that was the latest of its
\* market is in the database, unless its payload was given up or the process
\* was killed: the forced flush and queue.join leave nothing behind.
TicksDrained ==
  phase = "down" =>
    \A m \in Market : store[m] = seen[m] \/ seen[m] \in missed[m]

\* At any time an event is in exactly one place, whatever the number of
\* workers: a worker retries a payload it holds, no payload is handed to two.
\* When a session is over that place is the database, but for events that were
\* given up or lost to a kill.
ExactlyOnePlace ==
  \A e \in 1..arrived :
    LET logged == {i \in DOMAIN log : log[i] = e}
        queued == {i \in DOMAIN queue : queue[i].ev = e}
        writing == {w \in Worker : held[w].ev = e}
    IN  /\ Cardinality(logged) + Cardinality(queued) + Cardinality(writing)
             + (IF inHand.ev = e THEN 1 ELSE 0)
             + (IF e \in dropped THEN 1 ELSE 0) = 1
        /\ phase = "down" => logged # {} \/ e \in dropped

\* Events are committed in the order in which they were received.
EventsInOrder ==
  \A i, j \in DOMAIN log : i < j => log[i] < log[j]

\* A session that ends gets to the next connection: no put into a full queue,
\* no missing sentinel and no missing task_done blocks the finally block.
ShutdownTerminates == phase = "known" ~> phase = "down"
=============================================================================
