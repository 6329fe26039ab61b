--------------------------- MODULE AnomalyLedger ---------------------------
(***************************************************************************)
(* The alerts of the markets: rows of anomalies and the counters of        *)
(* market_metrics.  Ticker handlers and the poller materialize an alert    *)
(* (app/services/anomaly_materializer.py): they score the quotes of a      *)
(* market, look at its latest row, and create, overwrite or delete a row.  *)
(* Retention (scripts/run_anomaly_retention.py) rolls old rows of some     *)
(* severities up into daily summaries and evidence, and deletes them.      *)
(*                                                                         *)
(* PostgreSQL is read committed.  A writer reads in two queries and writes *)
(* when it commits; the statement of retention chooses its rows in the     *)
(* snapshot of its start and deletes those of them that are still there,   *)
(* in whatever version, when it has their locks.  Scores and payloads are  *)
(* left out: a verdict is the severity of a score, 0 when it is too low to *)
(* be stored.  Days of the summaries are left out as well.                 *)
(***************************************************************************)
EXTENDS Integers, FiniteSets

CONSTANTS
  Market,
  Writer,      \* ticker handlers and poller sweeps: each has a transaction
  Retainer,    \* retention processes
  Legacy,      \* rows that an earlier version stored, id -> row
  Severities,  \* --severities
  Cooldown,    \* _COMPACTION_COOLDOWN
  CutoffAge,   \* --cutoff-days
  BatchSize, MaxBatches,
  MaxRow,      \* bound: ids of anomalies
  MaxQuote,    \* bound: chart buckets of a market
  MaxTime      \* bound: the clock

Low == 0
Medium == 1
High == 2
Severity == {Low, Medium, High}

\* An alert: key is latest_quote_source_key, the chart bucket it was scored on.
AlertRow == [market : Market, at : Int, severity : Severity, key : Nat]

\* Before the score gate weak alerts were stored too.  Id 0 means no row.
ASSUME ConstantsOk ==
  /\ IsFiniteSet(DOMAIN Legacy)
  /\ Legacy \in [DOMAIN Legacy -> [market : Market, at : Int, severity : {Low},
                                   key : {1}]]
  /\ DOMAIN Legacy \subseteq 1..Cardinality(DOMAIN Legacy)
  /\ \A i \in DOMAIN Legacy : Legacy[i].at <= 0
  /\ Severities \subseteq Severity
  /\ Cooldown \in Nat /\ CutoffAge \in Nat
  /\ BatchSize \in Nat \ {0} /\ MaxBatches \in Nat \ {0}
  /\ MaxRow \in Nat /\ MaxQuote \in Nat /\ MaxTime \in Nat

VARIABLES
  now,
  quote,    \* quote[m]: the latest chart bucket of m, 0 if there is none
  rows,     \* the table anomalies: id -> row
  nextId,
  count,    \* count[m]: market_metrics.anomaly_count
  high,     \* high[m]: market_metrics.high_anomaly_count
  tx,       \* the open transactions of writers
  job,      \* the runs of retention processes
  evidence, \* anomaly_evidence: id of the alert -> its severity
  summary,  \* summary[m][s]: the sum of the daily anomaly_count
  cleared,  \* cleared[m]: how many rows writers have deleted
  pruned    \* pruned[m]: how many rows retention has deleted

world == <<now, quote>>
metrics == <<count, high>>
rollup == <<evidence, summary, pruned>>
vars == <<world, rows, nextId, metrics, tx, job, rollup, cleared>>

RowsOf(m) == {i \in DOMAIN rows : rows[i].market = m}
Put(f, x, v) == [y \in DOMAIN f \cup {x} |-> IF y = x THEN v ELSE f[y]]
Without(f, S) == [y \in DOMAIN f \ S |-> f[y]]
NoEntry == [x \in {} |-> 0]

Init ==
  /\ now = 0
  /\ quote = [m \in Market |-> IF \E i \in DOMAIN Legacy : Legacy[i].market = m
                               THEN 1 ELSE 0]
  /\ rows = Legacy /\ nextId = Cardinality(DOMAIN Legacy) + 1
  /\ count = [m \in Market |->
       Cardinality({i \in DOMAIN Legacy : Legacy[i].market = m})]
  /\ high = [m \in Market |-> 0]
  /\ tx = NoEntry /\ job = NoEntry
  /\ evidence = NoEntry /\ summary = [m \in Market |-> [s \in Severity |-> 0]]
  /\ cleared = [m \in Market |-> 0] /\ pruned = [m \in Market |-> 0]

-----------------------------------------------------------------------------
(* The world.                                                              *)

Tick ==
  /\ now < MaxTime
  /\ now' = now + 1
  /\ UNCHANGED <<quote, rows, nextId, metrics, tx, job, rollup, cleared>>

\* The first quote or trade of a bucket: a new chart row.
NewBucket(m) ==
  /\ quote[m] < MaxQuote
  /\ quote' = [quote EXCEPT ![m] = @ + 1]
  /\ UNCHANGED <<now, rows, nextId, metrics, tx, job, rollup, cleared>>

-----------------------------------------------------------------------------
(* materialize_market_anomaly, in a transaction of a ticker handler or of  *)
(* the poller.  A handler's batch of markets is taken one at a time.       *)

\* ORDER BY created_at DESC, id DESC LIMIT 1.
Latest(m) ==
  IF RowsOf(m) = {} THEN 0
  ELSE CHOOSE i \in RowsOf(m) : \A j \in RowsOf(m) :
         rows[j].at < rows[i].at \/ (rows[j].at = rows[i].at /\ j <= i)

SeverityOf(i) == IF i = 0 THEN Low ELSE rows[i].severity

\* The first look: a row that was scored on the same bucket is overwritten, or
\* deleted if the score has fallen.  A weak score with no such row ends the
\* call.  (No row has the snapshot of a ticker handler, which is new.)
ReadExisting(w, m, verdict) ==
  /\ w \notin DOMAIN tx
  /\ quote[m] # 0
  /\ LET latest == Latest(m)
         matches == latest # 0 /\ rows[latest].key = quote[m]
     IN  /\ matches \/ verdict # Low
         /\ tx' = Put(tx, w,
              [market |-> m, began |-> now, verdict |-> verdict, key |-> quote[m],
               loaded |-> latest, seen |-> SeverityOf(latest),
               plan |-> IF ~matches THEN "undecided"
                        ELSE IF verdict = Low THEN "delete" ELSE "update"])
  /\ UNCHANGED <<world, rows, nextId, metrics, job, rollup, cleared>>

\* _should_create_new_row: an upgrade, or the end of the cooldown.
ShouldCreate(latest, verdict, seen) ==
  latest = 0 \/ verdict > seen \/ now - rows[latest].at >= Cooldown

\* The second look.  The session keeps the attributes of a row it has loaded.
ReadLatest(w) ==
  /\ w \in DOMAIN tx /\ tx[w].plan = "undecided"
  /\ LET latest == Latest(tx[w].market)
         seen == IF latest = tx[w].loaded THEN tx[w].seen ELSE SeverityOf(latest)
     IN  tx' = [tx EXCEPT ![w] =
                  IF ShouldCreate(latest, @.verdict, seen)
                    THEN [@ EXCEPT !.plan = "create", !.loaded = 0, !.seen = Low]
                    ELSE [@ EXCEPT !.plan = "compact", !.loaded = latest, !.seen = seen]]
  /\ UNCHANGED <<world, rows, nextId, metrics, job, rollup, cleared>>

Commit(w) == tx' = Without(tx, {w})

\* DELETE by id: to find no row is no error.  The counters stay.
ClearAlert(w) ==
  /\ w \in DOMAIN tx /\ tx[w].plan = "delete"
  /\ rows' = Without(rows, {tx[w].loaded})
  /\ cleared' = IF tx[w].loaded \in DOMAIN rows
                  THEN [cleared EXCEPT ![tx[w].market] = @ + 1] ELSE cleared
  /\ Commit(w)
  /\ UNCHANGED <<world, nextId, metrics, job, rollup>>

\* UPDATE by id, of the attributes that differ from the loaded ones.  To find
\* no row is an error, and the transaction is rolled back.
UpdateAlert(w) ==
  /\ w \in DOMAIN tx /\ tx[w].plan \in {"update", "compact"}
  /\ tx[w].loaded \in DOMAIN rows
  /\ rows' = [rows EXCEPT
       ![tx[w].loaded].severity = IF tx[w].verdict = tx[w].seen THEN @ ELSE tx[w].verdict,
       ![tx[w].loaded].key = tx[w].key]
  /\ Commit(w)
  /\ UNCHANGED <<world, nextId, metrics, job, rollup, cleared>>

\* Mutant: a severe alert is counted as severe only.
CreateAlert_HighOnly(w) ==
  /\ w \in DOMAIN tx /\ tx[w].plan = "create" /\ nextId <= MaxRow
  /\ rows' = Put(rows, nextId, [market |-> tx[w].market, at |-> tx[w].began,
                                severity |-> tx[w].verdict, key |-> tx[w].key])
  /\ nextId' = nextId + 1
  /\ IF tx[w].verdict = High
       THEN high' = [high EXCEPT ![tx[w].market] = @ + 1] /\ UNCHANGED count
       ELSE count' = [count EXCEPT ![tx[w].market] = @ + 1] /\ UNCHANGED high
  /\ Commit(w)
  /\ UNCHANGED <<world, job, rollup, cleared>>

\* INSERT, with bump_anomaly_metrics in the same transaction.
CreateAlert(w) ==
  /\ w \in DOMAIN tx /\ tx[w].plan = "create" /\ nextId <= MaxRow
  /\ rows' = Put(rows, nextId, [market |-> tx[w].market, at |-> tx[w].began,
                                severity |-> tx[w].verdict, key |-> tx[w].key])
  /\ nextId' = nextId + 1
  /\ count' = [count EXCEPT ![tx[w].market] = @ + 1]
  /\ high' = [high EXCEPT ![tx[w].market] = @ + (IF tx[w].verdict = High THEN 1 ELSE 0)]
  /\ Commit(w)
  /\ UNCHANGED <<world, job, rollup, cleared>>

\* A deadlock, an UPDATE that finds no row, any other failure of the handler.
Rollback(w) ==
  /\ w \in DOMAIN tx
  /\ tx' = Without(tx, {w})
  /\ UNCHANGED <<world, rows, nextId, metrics, job, rollup, cleared>>

-----------------------------------------------------------------------------
(* run_anomaly_retention.                                                  *)

StartRun(r) ==
  /\ r \notin DOMAIN job
  /\ job' = Put(job, r, [cutoff |-> now - CutoffAge, batch |-> 1,
                         stage |-> "choose", victims |-> NoEntry])
  /\ UNCHANGED <<world, rows, nextId, metrics, tx, rollup, cleared>>

Candidates(cutoff) ==
  {i \in DOMAIN rows : rows[i].at < cutoff /\ rows[i].severity \in Severities}

\* ORDER BY severity ASC, which is a text, created_at DESC, id DESC.
SortsBefore(i, j) ==
  LET text(k) == (rows[k].severity + 1) % 3   \* "high" < "low" < "medium"
  IN  \/ text(i) < text(j)
      \/ text(i) = text(j) /\ rows[i].at > rows[j].at
      \/ text(i) = text(j) /\ rows[i].at = rows[j].at /\ i > j

\* The CTE victims, with its rows as the snapshot has them.
ChooseVictims(r) ==
  /\ r \in DOMAIN job /\ job[r].stage = "choose"
  /\ \E S \in SUBSET Candidates(job[r].cutoff) :
       /\ Cardinality(S) <= BatchSize
       /\ \A j \in Candidates(job[r].cutoff) \ S :
            Cardinality(S) = BatchSize /\ \A i \in S : SortsBefore(i, j)
       /\ job' = [job EXCEPT ![r].stage = "apply",
                             ![r].victims = [i \in S |-> rows[i]]]
  /\ UNCHANGED <<world, rows, nextId, metrics, tx, rollup, cleared>>

Greatest(a, b) == IF a >= b THEN a ELSE b

\* The rows of a market that a batch deletes.
Deleted(victims, m) == DOMAIN victims \cap RowsOf(m)

\* The loop ends with an empty batch, or with the last one it may do.
NextBatch(r, deletedAny) ==
  job' = IF deletedAny /\ job[r].batch < MaxBatches
           THEN [job EXCEPT ![r].stage = "choose", ![r].batch = @ + 1,
                            ![r].victims = NoEntry]
           ELSE Without(job, {r})

\* Mutant: the DELETE asks again for the severity of a row.
RollUp_Recheck(r) ==
  /\ r \in DOMAIN job /\ job[r].stage = "apply"
  /\ LET victims == job[r].victims
         VictimsOf(m, s) ==
           {i \in DOMAIN victims : victims[i].market = m /\ victims[i].severity = s}
         gone == {i \in DOMAIN victims \cap DOMAIN rows :
                    rows[i].severity \in Severities}
     IN  /\ evidence' = [i \in DOMAIN evidence \cup
               {j \in DOMAIN victims : victims[j].severity # Low} |->
               IF i \in DOMAIN victims THEN victims[i].severity ELSE evidence[i]]
         /\ summary' = [m \in Market |-> [s \in Severity |->
              summary[m][s] + Cardinality(VictimsOf(m, s))]]
         /\ rows' = Without(rows, gone)
         /\ count' = [m \in Market |->
              IF gone \cap RowsOf(m) = {} THEN count[m]
              ELSE Greatest(count[m] - Cardinality(gone \cap RowsOf(m)), high[m])]
         /\ pruned' = [m \in Market |-> pruned[m] + Cardinality(gone \cap RowsOf(m))]
         /\ NextBatch(r, gone # {})
  /\ UNCHANGED <<world, nextId, high, tx, cleared>>

\* The rest of the statement: evidence of the victims that are not weak, their
\* summaries, the deletion of those that are left, and the counters.
RollUp(r) ==
  /\ r \in DOMAIN job /\ job[r].stage = "apply"
  /\ LET victims == job[r].victims
         VictimsOf(m, s) ==
           {i \in DOMAIN victims : victims[i].market = m /\ victims[i].severity = s}
     IN  /\ evidence' = [i \in DOMAIN evidence \cup
               {j \in DOMAIN victims : victims[j].severity # Low} |->
               IF i \in DOMAIN victims THEN victims[i].severity ELSE evidence[i]]
         /\ summary' = [m \in Market |-> [s \in Severity |->
              summary[m][s] + Cardinality(VictimsOf(m, s))]]
         /\ rows' = Without(rows, DOMAIN victims)
         /\ count' = [m \in Market |->
              LET gone == Cardinality(Deleted(victims, m))
              IN  IF gone = 0 THEN count[m] ELSE Greatest(count[m] - gone, high[m])]
         /\ pruned' = [m \in Market |-> pruned[m] + Cardinality(Deleted(victims, m))]
         /\ NextBatch(r, DOMAIN victims \cap DOMAIN rows # {})
  /\ UNCHANGED <<world, nextId, high, tx, cleared>>

\* The statement or the process fails: the watch loop starts another run.
FailRun(r) ==
  /\ r \in DOMAIN job
  /\ job' = Without(job, {r})
  /\ UNCHANGED <<world, rows, nextId, metrics, tx, rollup, cleared>>

-----------------------------------------------------------------------------
Materialize(w) ==
  \/ \E m \in Market, verdict \in Severity : ReadExisting(w, m, verdict)
  \/ ReadLatest(w)
  \/ ClearAlert(w) \/ UpdateAlert(w) \/ CreateAlert(w) \/ Rollback(w)

Retain(r) == StartRun(r) \/ ChooseVictims(r) \/ RollUp(r)

Next ==
  \/ Tick
  \/ \E m \in Market : NewBucket(m)
  \/ \E w \in Writer : Materialize(w)
  \/ \E r \in Retainer : Retain(r) \/ FailRun(r)

Spec == Init /\ [][Next]_vars

-----------------------------------------------------------------------------
(* Properties.                                                             *)

TxRow == [market : Market, began : Int, verdict : Severity, key : Nat,
          loaded : Nat, seen : Severity,
          plan : {"undecided", "delete", "update", "create", "compact"}]

IsJob(j) ==
  /\ DOMAIN j = {"cutoff", "batch", "stage", "victims"}
  /\ j.cutoff \in Int /\ j.batch \in Nat /\ j.stage \in {"choose", "apply"}
  /\ DOMAIN j.victims \subseteq 1..(nextId - 1)
  /\ \A i \in DOMAIN j.victims : j.victims[i] \in AlertRow

\* The variables have their types.  Ids are given out in order, and a weak alert
\* is never stored or written over another one: those of Legacy are the last.
TypeOK ==
  /\ now \in Nat /\ quote \in [Market -> Nat]
  /\ nextId \in Nat \ {0}
  /\ DOMAIN rows \subseteq 1..(nextId - 1) /\ rows \in [DOMAIN rows -> AlertRow]
  /\ count \in [Market -> Nat] /\ high \in [Market -> Nat]
  /\ DOMAIN tx \subseteq Writer /\ tx \in [DOMAIN tx -> TxRow]
  /\ DOMAIN job \subseteq Retainer
  /\ \A r \in DOMAIN job : IsJob(job[r])
  /\ DOMAIN evidence \subseteq 1..(nextId - 1)
  /\ summary \in [Market -> [Severity -> Nat]]
  /\ cleared \in [Market -> Nat] /\ pruned \in [Market -> Nat]
  /\ \A i \in DOMAIN rows : rows[i].severity = Low => i \in DOMAIN Legacy

\* The counters that rank a market on the dashboard never fall short of its
\* rows, nor the counter of all alerts of the one of severe alerts, whatever
\* writers and retention processes do to one row at the same time.
CountersCover ==
  \A m \in Market : high[m] <= count[m] /\ Cardinality(RowsOf(m)) <= count[m]

\* With one retention process the summaries hold every alert it deleted, and
\* none twice; a victim that a writer deleted in between may be among them.
\* A row with evidence is gone, so no evidence is overwritten.
RolledUpOnce ==
  \A m \in Market :
    LET sum == summary[m][Low] + summary[m][Medium] + summary[m][High]
    IN  /\ pruned[m] <= sum /\ sum <= pruned[m] + cleared[m]
        /\ DOMAIN evidence \cap RowsOf(m) = {}
=============================================================================
