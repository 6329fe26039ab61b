------------------------- MODULE ClickHouseBatcher -------------------------
(***************************************************************************)
(* The thread that batches rows for ClickHouse                             *)
(* (app/services/clickhouse_writer.py).  Handlers put rows into a bounded  *)
(* queue; the thread sorts them into a buffer per table and inserts a      *)
(* buffer when it is full, or all of them when no row came for the flush   *)
(* interval.  An insert that fails is logged and its rows are dropped.     *)
(* stop() is called when the process exits (atexit); it waits for the      *)
(* thread, though not for ever, and the thread is a daemon.                *)
(*                                                                         *)
(* queue.get waits for what is left of the interval, so when it gives up   *)
(* the interval has passed: that is Idle, and no clock is needed.          *)
(***************************************************************************)
EXTENDS Naturals, FiniteSets, Sequences, SequencesExt

CONSTANTS
  Row,        \* rows that may be handed over
  Table,      \* ClickHouse tables
  TableOf,    \* TableOf[r]: the table of row r
  MaxRows,    \* rows of a buffer that make it full
  QueueSize   \* size of the queue

ASSUME BatcherAssumption ==
  /\ TableOf \in [Row -> Table]
  /\ <<>> \notin Row          \* None is no row
  /\ MaxRows \in Nat \ {0} /\ QueueSize \in Nat \ {0}

VARIABLES
  queue,     \* rows (and the pill None that stop() adds), oldest first
  buffers,   \* buffers[t]: rows of table t that wait for their insert
  thread,    \* "none", "get", "flush", "last" or "ended"
  todo,      \* tables the flush under way has still to insert
  stopping,  \* the stop event
  accepted, inserted, lost   \* history, as in LossySink

threadVars == <<buffers, thread, todo>>
history == <<accepted, inserted, lost>>
batcherVars == <<queue, buffers, thread, todo, stopping, accepted, inserted, lost>>

Pill == <<>>
NoBuffers == [t \in Table |-> <<>>]
Rows(s, r) == Cardinality({i \in DOMAIN s : s[i] = r})
Filled == {t \in Table : buffers[t] # <<>>}

BatcherInit ==
  /\ queue = <<>> /\ buffers = NoBuffers
  /\ thread = "none" /\ todo = {} /\ stopping = FALSE
  /\ accepted = [r \in Row |-> 0]
  /\ inserted = [r \in Row |-> 0]
  /\ lost = [r \in Row |-> 0]

\* put_nowait succeeds.
Fits == Len(queue) < QueueSize

\* enqueue: start the thread if there is none, then put the row, or drop it
\* when the queue is full.
Enqueue(r) ==
  /\ thread' = IF thread \in {"none", "ended"} THEN "get" ELSE thread
  /\ stopping' = (stopping /\ thread \notin {"none", "ended"})
  /\ IF Fits
     THEN /\ queue' = Append(queue, r)
          /\ accepted' = [accepted EXCEPT ![r] = @ + 1]
     ELSE UNCHANGED <<queue, accepted>>
  /\ UNCHANGED <<buffers, todo, inserted, lost>>

Full(n) == n >= MaxRows

\* The top of the loop: go on, or flush what is buffered and end.
LoopOn == IF stopping THEN "last" ELSE "get"

\* Get a row and buffer it; a buffer that became full is inserted.
Take ==
  /\ thread = "get" /\ queue # <<>> /\ Head(queue) # Pill
  /\ LET r == Head(queue)
         t == TableOf[r]
     IN /\ buffers' = [buffers EXCEPT ![t] = Append(@, r)]
        /\ IF Full(Len(buffers'[t]))
           THEN thread' = "flush" /\ todo' = {t}
           ELSE thread' = LoopOn /\ todo' = IF stopping THEN Filled \union {t} ELSE {}
  /\ queue' = Tail(queue)
  /\ UNCHANGED <<stopping, history>>

\* No row came for the interval, or the pill did: every buffer is inserted.
\* A full buffer of any table starts the interval anew (last_flush), and so
\* does every row that comes when it is over: Idle needs an empty queue.
FlushDue(tables) ==
  /\ thread' = "flush" /\ todo' = tables
  /\ UNCHANGED <<buffers, stopping, history>>

\* Mutant: the thread waits for a full buffer, however long it takes.
Idle_WaitsForFull ==
  /\ thread = "get" /\ queue = <<>> /\ \E t \in Table : Full(Len(buffers[t]))
  /\ FlushDue(Filled) /\ UNCHANGED queue

Idle ==
  /\ thread = "get" /\ queue = <<>> /\ Filled # {}
  /\ FlushDue(Filled) /\ UNCHANGED queue

\* A pill that an earlier stop() left behind ends the wait of a thread that is
\* not stopping; it then inserts only if the interval has passed.
TakePill ==
  /\ thread = "get" /\ queue # <<>> /\ Head(queue) = Pill
  /\ queue' = Tail(queue)
  /\ \/ FlushDue(Filled)
     \/ ~stopping /\ UNCHANGED <<threadVars, stopping, history>>

\* Mutant: the buffer is not cleared when its rows have been inserted.
Cleared_Kept(t) == buffers

Cleared(t) == [buffers EXCEPT ![t] = <<>>]

\* Mutant: the rows of a failed request go back into the queue.
FlushTable_Requeues(t, stored) ==
  /\ thread \in {"flush", "last"} /\ t \in todo
  /\ IF stored
     THEN /\ inserted' = [r \in Row |-> inserted[r] + Rows(buffers[t], r)]
          /\ queue' = queue
     ELSE queue' = queue \o buffers[t] /\ UNCHANGED inserted
  /\ buffers' = Cleared(t)
  /\ todo' = todo \ {t}
  /\ UNCHANGED <<thread, stopping, accepted, lost>>

\* One insert.  A failed request may have stored the rows before it failed.
FlushTable(t, stored) ==
  /\ thread \in {"flush", "last"} /\ t \in todo
  /\ LET Add(f) == [r \in Row |-> f[r] + Rows(buffers[t], r)] IN
     IF stored THEN inserted' = Add(inserted) /\ UNCHANGED lost
               ELSE lost' = Add(lost) /\ UNCHANGED inserted
  /\ buffers' = Cleared(t)
  /\ todo' = todo \ {t}
  /\ UNCHANGED <<queue, thread, stopping, accepted>>

FlushDone ==
  /\ thread \in {"flush", "last"} /\ todo = {}
  /\ IF thread = "last" THEN thread' = "ended" /\ UNCHANGED todo
     ELSE thread' = LoopOn /\ todo' = IF stopping THEN Filled ELSE {}
  /\ UNCHANGED <<queue, buffers, stopping, history>>

\* stop: the event, and the pill if the queue has room for it.
Stop ==
  /\ ~stopping
  /\ stopping' = TRUE
  /\ queue' = IF Fits THEN Append(queue, Pill) ELSE queue
  /\ UNCHANGED <<threadVars, history>>

\* The process is gone, and what the thread still had with it; the next
\* process starts empty.
Gone ==
  /\ lost' = [r \in Row |-> accepted[r] - inserted[r]]
  /\ queue' = <<>> /\ buffers' = NoBuffers
  /\ thread' = "none" /\ todo' = {} /\ stopping' = FALSE
  /\ UNCHANGED <<accepted, inserted>>

BatchThread ==
  \/ Take \/ Idle \/ TakePill \/ FlushDone
  \/ \E t \in Table, stored \in BOOLEAN : FlushTable(t, stored)

\* The rows of table t in queue q, oldest first.
OfTable(t, q) ==
  LET rows[n \in 0 .. Len(q)] ==
        IF n = 0 THEN <<>>
        ELSE IF q[n] # Pill /\ TableOf[q[n]] = t THEN Append(rows[n - 1], q[n])
        ELSE rows[n - 1]
  IN rows[Len(q)]

\* What waits for its insert, in the order it was handed over.
Waiting == [t \in Table |-> buffers[t] \o OfTable(t, queue)]

BatcherTypeOK ==
  /\ queue \in Seq(Row \union {Pill}) /\ Len(queue) <= QueueSize
  /\ buffers \in [Table -> Seq(Row)] /\ todo \subseteq Table
  /\ thread \in {"none", "get", "flush", "last", "ended"} /\ stopping \in BOOLEAN
  /\ accepted \in [Row -> Nat] /\ inserted \in [Row -> Nat] /\ lost \in [Row -> Nat]

\* A buffer holds rows for ever only while another table goes on filling its
\* own: rows without a pause keep the flush of all tables away, so a slow table
\* waits behind a fast one.
RowsHandedIn ==
  \A t \in Table :
    <>[](buffers[t] # <<>>) => \E u \in Table \ {t} : []<>Full(Len(buffers[u]))
=============================================================================
