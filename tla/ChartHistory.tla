---------------------------- MODULE ChartHistory ----------------------------
(***************************************************************************)
(* market_price_history as a ledger of observations.  The live writer adds *)
(* every trade and quote to a bucket of the live interval; a compactor     *)
(* moves old buckets to a wider interval, market by market, under an       *)
(* advisory lock (scripts/run_chart_history_compaction.py); the series     *)
(* endpoint of the dashboard reads the live buckets first and the wider    *)
(* ones in a second query, and merges them by their timestamps.            *)
(*                                                                         *)
(* A row is what its counters say: rows[l][o] is how many times o was      *)
(* added to the row of interval l that covers it.  A row of interval l and *)
(* bucket b exists when some observation of b was added to it.  The prices *)
(* of a row are the subject of ChartRow.  The database is read committed,  *)
(* so a step is one statement, or a transaction whose other statements     *)
(* nobody can come between.                                                *)
(***************************************************************************)
EXTENDS Integers, Sequences, FiniteSets

CONSTANTS
  Obs,        \* trades and quotes that reach the chart
  QuoteObs,   \* the quotes among them
  Market,     \* market ids
  MarketOf,   \* MarketOf[o]: the market of o
  Interval,   \* interval sizes, 1 the live one, in order of their width
  Width,      \* Width[l]: interval_sec
  Policies,   \* the compaction policies in the order they are run:
              \* [source, target, grace, closedOnly]
  MaxLag,     \* bound: how late an observation is written
  MaxMarkets, \* --max-markets
  MaxRows,    \* --max-source-rows-per-market, 0 for no limit
  Compactor,  \* processes that run the compaction script in watch mode
  MaxTime,    \* bound: the clock
  MaxAbort,   \* bound: failures of compaction runs
  Nobody      \* holds the lock when it is free

LiveInterval == 1

\* A policy moves to a wider interval, and leaves live buckets alone until no
\* observation can still be added to them.
ASSUME ConstantsOk ==
  /\ Market \subseteq Nat
  /\ QuoteObs \subseteq Obs /\ MarketOf \in [Obs -> Market]
  /\ Interval \subseteq Nat \ {0} /\ LiveInterval \in Interval
  /\ Width \in [Interval -> Nat \ {0}]
  /\ Policies \in Seq([source : Interval, target : Interval, grace : Nat,
                       closedOnly : BOOLEAN])
  /\ \A i \in DOMAIN Policies :
       /\ Policies[i].source < Policies[i].target
       /\ Policies[i].source = LiveInterval
            => Policies[i].grace >= MaxLag + Width[LiveInterval]
  /\ MaxLag \in Nat /\ MaxMarkets \in Nat \ {0} /\ MaxRows \in Nat
  /\ MaxTime \in Nat /\ MaxAbort \in Nat
  /\ Nobody \notin Compactor

VARIABLES
  now,      \* the clock
  at,       \* at[o]: the timestamp of o once it is recorded
  closed,   \* closed[m]: when market m closed, -1 while it is open
  recorded, \* the observations the live writer has committed
  rows,     \* rows[l][o]: the count of o in its row of interval l
  lock,     \* the holder of the advisory lock
  pc,       \* pc[c]: where _run_once is in compactor c
  policy,   \* policy[c]: the index of the policy it runs
  cutoff,   \* cutoff[c]: the cutoff of that policy
  todo,     \* todo[c]: the candidate markets still to be compacted
  batch,    \* batch[c]: the source rows it has read, as counts
  aborts,
  reader,   \* where a series request is
  asked,    \* the observations recorded when it began
  gathered  \* the rows it has read, as pairs of an interval and an observation in it

clock == <<now, closed>>
ledger == <<at, recorded, rows>>
compactor == <<lock, pc, policy, cutoff, todo, batch, aborts>>
request == <<reader, asked, gathered>>
vars == <<clock, ledger, compactor, request>>

NoRows == [o \in Obs |-> 0]

\* bucket_start of an observation in interval l.
Bucket(o, l) == at[o] - (at[o] % Width[l])

\* ORDER BY ... ASC LIMIT k.
First(S, k) == {x \in S : Cardinality({y \in S : y < x}) < k}

Init ==
  /\ now = 0 /\ closed = [m \in Market |-> -1]
  /\ at = [o \in Obs |-> 0] /\ recorded = {}
  /\ rows = [l \in Interval |-> NoRows]
  /\ lock = Nobody
  /\ pc = [c \in Compactor |-> "idle"]
  /\ policy = [c \in Compactor |-> 0]
  /\ cutoff = [c \in Compactor |-> 0]
  /\ todo = [c \in Compactor |-> {}]
  /\ batch = [c \in Compactor |-> NoRows]
  /\ aborts = 0
  /\ reader = "idle" /\ asked = {} /\ gathered = {}

Tick ==
  /\ now < MaxTime
  /\ now' = now + 1
  /\ UNCHANGED <<closed, ledger, compactor, request>>

CloseMarket(m) ==
  /\ closed[m] = -1
  /\ closed' = [closed EXCEPT ![m] = now]
  /\ UNCHANGED <<now, ledger, compactor, request>>

\* The live writer commits o and adds it to its live bucket.  (A trade that is
\* already stored writes nothing.)
Record(o) ==
  /\ o \notin recorded
  /\ \E lag \in 0..MaxLag :
       /\ lag <= now
       /\ at' = [at EXCEPT ![o] = now - lag]
  /\ recorded' = recorded \cup {o}
  /\ rows' = [rows EXCEPT ![LiveInterval][o] = @ + 1]
  /\ UNCHANGED <<clock, compactor, request>>

-----------------------------------------------------------------------------
(* A compaction run: _run_once and compact_chart_history.                  *)

Source(c) == Policies[policy[c]].source
Target(c) == Policies[policy[c]].target

\* pg_try_advisory_lock.  (A run that does not get it is skipped.)
TryLock(c) ==
  /\ pc[c] = "idle" /\ lock = Nobody
  /\ lock' = c
  /\ pc' = [pc EXCEPT ![c] = "next"]
  /\ UNCHANGED <<clock, ledger, policy, cutoff, todo, batch, aborts, request>>

\* The buckets of market m with a row of interval l up to the time limit.
OldBuckets(m, l, limit) ==
  {Bucket(o, l) : o \in {x \in Obs : /\ MarketOf[x] = m /\ rows[l][x] > 0
                                    /\ Bucket(x, l) <= limit}}

\* _candidate_markets: the first markets that have old rows and, if the policy
\* asks for it, closed before the cutoff; only so many are looked at.
Candidates(p, limit) ==
  LET withRows == {m \in Market : OldBuckets(m, p.source, limit) # {}}
      examined == First(withRows, 10 * MaxMarkets)
  IN  First({m \in examined :
               p.closedOnly => closed[m] # -1 /\ closed[m] <= limit}, MaxMarkets)

\* Mutant: the grace of the policy is not subtracted.
StartPolicy_NoGrace(c) ==
  /\ pc[c] = "next" /\ todo[c] = {} /\ policy[c] < Len(Policies)
  /\ policy' = [policy EXCEPT ![c] = @ + 1]
  /\ LET p == Policies[policy[c] + 1]
     IN  /\ cutoff' = [cutoff EXCEPT ![c] = now]
         /\ todo' = [todo EXCEPT ![c] = Candidates(p, now)]
  /\ UNCHANGED <<clock, ledger, lock, pc, batch, aborts, request>>

\* The next policy: compact_chart_history up to its loop over the markets.
StartPolicy(c) ==
  /\ pc[c] = "next" /\ todo[c] = {} /\ policy[c] < Len(Policies)
  /\ policy' = [policy EXCEPT ![c] = @ + 1]
  /\ LET p == Policies[policy[c] + 1]
     IN  /\ cutoff' = [cutoff EXCEPT ![c] = now - p.grace]
         /\ todo' = [todo EXCEPT ![c] = Candidates(p, now - p.grace)]
  /\ UNCHANGED <<clock, ledger, lock, pc, batch, aborts, request>>

\* _source_rows of market m, oldest first and only so many.
SourceBuckets(c, m) ==
  LET old == OldBuckets(m, Source(c), cutoff[c])
  IN  IF MaxRows = 0 THEN old ELSE First(old, MaxRows)

\* The rows of the next market are read.  A market without any needs no commit.
SelectRows(c) ==
  /\ pc[c] = "next"
  /\ \E m \in First(todo[c], 1) :
       /\ todo' = [todo EXCEPT ![c] = @ \ {m}]
       /\ batch' = [batch EXCEPT ![c] =
            [o \in Obs |->
               IF MarketOf[o] = m /\ Bucket(o, Source(c)) \in SourceBuckets(c, m)
                 THEN rows[Source(c)][o] ELSE 0]]
       /\ pc' = [pc EXCEPT ![c] = IF SourceBuckets(c, m) = {} THEN "next" ELSE "write"]
  /\ UNCHANGED <<clock, ledger, lock, policy, cutoff, aborts, request>>

\* The rows that are deleted: the live rows of the buckets in the batch.
Compacted(c, o) ==
  \E x \in Obs :
    /\ batch[c][x] > 0
    /\ MarketOf[x] = MarketOf[o] /\ Bucket(x, Source(c)) = Bucket(o, Source(c))

\* One transaction: bulk_upsert_chart_history adds the batch to the target
\* rows, _delete_source_rows deletes the buckets of the batch.
Rewrite(c) ==
  /\ pc[c] = "write"
  /\ rows' = [rows EXCEPT
       ![Target(c)] = [o \in Obs |-> @[o] + batch[c][o]],
       ![Source(c)] = [o \in Obs |-> IF Compacted(c, o) THEN 0 ELSE @[o]]]
  /\ batch' = [batch EXCEPT ![c] = NoRows]
  /\ pc' = [pc EXCEPT ![c] = "next"]
  /\ UNCHANGED <<clock, at, recorded, lock, policy, cutoff, todo, aborts, request>>

\* _run_once returns or raises: its variables are gone.
Leave(c) ==
  /\ pc' = [pc EXCEPT ![c] = "idle"]
  /\ policy' = [policy EXCEPT ![c] = 0]
  /\ cutoff' = [cutoff EXCEPT ![c] = 0]
  /\ todo' = [todo EXCEPT ![c] = {}]
  /\ batch' = [batch EXCEPT ![c] = NoRows]

\* Mutant: the lock is not released.
Finish_KeepsLock(c) ==
  /\ pc[c] = "next" /\ todo[c] = {} /\ policy[c] = Len(Policies)
  /\ Leave(c)
  /\ UNCHANGED <<clock, ledger, lock, aborts, request>>

\* The run is over: the finally block releases the lock.
Finish(c) ==
  /\ pc[c] = "next" /\ todo[c] = {} /\ policy[c] = Len(Policies)
  /\ lock' = Nobody
  /\ Leave(c)
  /\ UNCHANGED <<clock, ledger, aborts, request>>

\* An exception, or the death of the process: the open transaction is rolled
\* back and the lock goes, by the finally block or with the connection.
Abort(c) ==
  /\ pc[c] # "idle" /\ aborts < MaxAbort
  /\ aborts' = aborts + 1
  /\ lock' = Nobody
  /\ Leave(c)
  /\ UNCHANGED <<clock, ledger, request>>

-----------------------------------------------------------------------------
(* A series request.  Its limit on the number of rows is not modelled.     *)

\* Mutant: the wider intervals are read first.
FirstQuery_Wider == Interval \ {LiveInterval}

\* The intervals the first query reads.  The second query reads the others.
FirstQuery == {LiveInterval}

Cells(L) == {c \in L \X Obs : rows[c[1]][c[2]] > 0}

ReadFirst ==
  /\ reader = "idle"
  /\ reader' = "half"
  /\ asked' = recorded
  /\ gathered' = Cells(FirstQuery)
  /\ UNCHANGED <<clock, ledger, compactor>>

ReadSecond ==
  /\ reader = "half"
  /\ reader' = "done"
  /\ gathered' = gathered \cup Cells(Interval \ FirstQuery)
  /\ UNCHANGED <<clock, ledger, compactor, asked>>

Answer ==
  /\ reader = "done"
  /\ reader' = "idle" /\ asked' = {} /\ gathered' = {}
  /\ UNCHANGED <<clock, ledger, compactor>>

OneRow(c, d) ==
  /\ c[1] = d[1] /\ MarketOf[c[2]] = MarketOf[d[2]]
  /\ Bucket(c[2], c[1]) = Bucket(d[2], c[1])

\* The observations that give the row of c its timestamp, history_point: the
\* last quote, or the last price if the row has no quote.
Latest(c) ==
  LET row == {d \in gathered : OneRow(c, d)}
      quotes == {d \in row : d[2] \in QuoteObs}
      timed == IF quotes = {} THEN row ELSE quotes
  IN  {d \in timed : \A e \in timed : at[e[2]] <= at[d[2]]}

\* _merge_series_snapshot_payloads keeps one row of each timestamp, that of the
\* narrowest interval.
Dropped(c) ==
  \E d \in gathered :
    /\ d[1] < c[1] /\ MarketOf[d[2]] = MarketOf[c[2]]
    /\ \E x \in Latest(c), y \in Latest(d) : at[x[2]] = at[y[2]]

\* The observations in the rows of the answer.
Shown == {c[2] : c \in {d \in gathered : ~Dropped(d)}}

-----------------------------------------------------------------------------
Compact(c) ==
  TryLock(c) \/ StartPolicy(c) \/ SelectRows(c) \/ Rewrite(c) \/ Finish(c)

Read == ReadFirst \/ ReadSecond \/ Answer

Write ==
  \/ Tick
  \/ \E m \in Market : CloseMarket(m)
  \/ \E o \in Obs : Record(o)
  \/ \E c \in Compactor : Compact(c) \/ Abort(c)

Next == Write \/ Read

Spec == Init /\ [][Next]_vars

\* The watch loop runs again after every sleep, and its statements return.
FairSpec == Spec /\ \A c \in Compactor : WF_vars(Compact(c))

-----------------------------------------------------------------------------
(* Properties.                                                             *)

\* The variables have their types.
TypeOK ==
  /\ now \in Nat /\ closed \in [Market -> Int]
  /\ at \in [Obs -> Nat] /\ recorded \in SUBSET Obs
  /\ rows \in [Interval -> [Obs -> Nat]]
  /\ lock \in Compactor \cup {Nobody}
  /\ pc \in [Compactor -> {"idle", "next", "write"}]
  /\ policy \in [Compactor -> 0..Len(Policies)]
  /\ cutoff \in [Compactor -> Int]
  /\ todo \in [Compactor -> SUBSET Market]
  /\ batch \in [Compactor -> [Obs -> Nat]]
  /\ aborts \in Nat
  /\ reader \in {"idle", "half", "done"}
  /\ asked \in SUBSET Obs /\ gathered \in SUBSET (Interval \X Obs)

\* Every recorded observation is counted once, in the row of one interval, and
\* no other is counted: no compactor, failure or interleaving with the live
\* writer counts an observation twice or forgets it.
CountedOnce ==
  /\ \A o \in recorded :
       \E l \in Interval : \A k \in Interval : rows[k][o] = IF k = l THEN 1 ELSE 0
  /\ \A o \in Obs \ recorded : \A l \in Interval : rows[l][o] = 0

\* Only the holder of the lock is in a run, and it is.
LockHeld == \A c \in Compactor : pc[c] # "idle" <=> lock = c

\* A run has a policy as soon as it has a market or a batch.
PolicyChosen ==
  \A c \in Compactor :
    /\ todo[c] # {} \/ pc[c] = "write" => policy[c] >= 1
    /\ pc[c] # "write" => batch[c] = NoRows

\* What a run works on is out of reach of the live writer.
CutoffPast ==
  \A c \in Compactor :
    policy[c] >= 1 => cutoff[c] + Policies[policy[c]].grace <= now

\* The batch is what the source rows hold, and of whole buckets that are old:
\* nothing was added to them or taken from them since they were read.
BatchCurrent ==
  \A c \in Compactor :
    pc[c] = "write" =>
      /\ \A o \in Obs : batch[c][o] > 0 => Bucket(o, Source(c)) <= cutoff[c]
      /\ \A o \in Obs :
           batch[c][o] = IF Compacted(c, o) THEN rows[Source(c)][o] ELSE 0

\* Observations of one market and one time are moved together.
Together ==
  \A o, p \in recorded :
    MarketOf[o] = MarketOf[p] /\ at[o] = at[p] => \A l \in Interval : rows[l][o] = rows[l][p]

\* What has left its live bucket is out of reach of the live writer.
CompactedPast ==
  \A o \in recorded :
    rows[LiveInterval][o] = 0 =>
      Bucket(o, LiveInterval) + MaxLag + Width[LiveInterval] <= now

\* Between its queries a request has read live rows, and what it has still to
\* find is in the rows it has still to read.
ReadAhead ==
  /\ reader # "idle" => gathered \subseteq Interval \X recorded
  /\ reader = "half" =>
       /\ gathered \subseteq FirstQuery \X recorded
       /\ \A o \in asked : \/ \E c \in gathered : c[2] = o
                         \/ \E l \in Interval \ FirstQuery : rows[l][o] > 0

\* The inductive invariant.
LedgerInv ==
  /\ TypeOK /\ CountedOnce /\ LockHeld /\ PolicyChosen /\ CutoffPast
  /\ BatchCurrent /\ Together /\ CompactedPast /\ ReadAhead /\ asked \subseteq recorded

\* A series request shows every observation recorded before it began, unless a
\* compaction between its two queries has moved what it had read live into the
\* same wider row: if the two then have one timestamp, the endpoint drops the
\* wider row and what else is in it.  Nothing else is ever missing.
ReadComplete ==
  reader = "done" =>
    \A o \in asked \ Shown :
      \E c, d \in gathered :
        /\ c[2] = o /\ OneRow(c, d)
        /\ c[1] # LiveInterval /\ <<LiveInterval, d[2]>> \in gathered

\* The market has a row that a policy applies to.
HasOldRow(m) ==
  \E i \in DOMAIN Policies :
    LET p == Policies[i]
        limit == now - p.grace
    IN  /\ OldBuckets(m, p.source, limit) # {}
        /\ p.closedOnly => closed[m] # -1 /\ closed[m] <= limit

\* Rows that a policy applies to do not stay: runs fail, contend for the lock
\* and take only so many markets and rows, but all are reached in the end.
OldRowsCompacted == []<>(\A m \in Market : ~HasOldRow(m))
=============================================================================
