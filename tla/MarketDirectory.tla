--------------------------- MODULE MarketDirectory ---------------------------
(* The directory of markets: rows that WebSocket handlers create as stubs    *)
(* for tickers they have never seen (kalshi_ws.py), the poller that fills    *)
(* them in from the REST API by a sweep, a hydration of stubs and a refresh  *)
(* of quiet rows (poll_markets.py, hydrate_unknown_markets.py,               *)
(* market_ingestor.py), and the scripts that classify and prune them         *)
(* (classify_markets.py, prune_markets.py).                                  *)
(*                                                                           *)
(* The session keeps what it has loaded (expire_on_commit=False) and writes  *)
(* the columns that differ from it, so a transaction is the row it loaded    *)
(* and the row it wants; Flush is the UPDATE. Transactions run in            *)
(* READ COMMITTED. An INSERT waits for the other inserter of a ticker, so    *)
(* it and the commit behind it are one step.                                 *)
(*                                                                           *)
(* An item of the REST API may lack its title or its status; the ingestor    *)
(* then writes the ticker and "unknown". A row whose title is its ticker is  *)
(* one without a title, whoever wrote it.                                    *)
EXTENDS Naturals, FiniteSets

CONSTANTS
  Market,         \* tickers of the exchange
  Verdicts,       \* verdicts of the classifier, [cat, prior]
  ByTicker,       \* market -> verdict from the ticker alone
  ByTitle,        \* market -> verdict from ticker and title
  ByItem,         \* market -> verdict from the item of the REST API
  ExcludedCats,   \* categories that are out of scope
  ExcludedPriors, \* priors that are out of scope
  Timed,          \* markets whose close time may pass
  Known,          \* markets that may have a row at the start
  Gaps,           \* sets of fields an item may lack, {} among them
  BatchSize,      \* markets per ingest commit
  HydrateMax,     \* stubs asked for per cycle
  RefreshMax,     \* quiet markets asked for per cycle
  ScriptMax,      \* --max of classify_markets
  PruneMax,       \* stubs deleted per transaction
  MaxTape,        \* bound: trades counted per market
  MaxRows,        \* bound: rows that are inserted over time
  MaxUpset,       \* bound: failed calls, incomplete answers, runs of the scripts
  NoRow           \* no row of a market

ASSUME DirectoryAssumption ==
  /\ ByTicker \in [Market -> Verdicts] /\ ByTitle \in [Market -> Verdicts]
  /\ ByItem \in [Market -> Verdicts]
  /\ Timed \subseteq Market /\ Known \subseteq Market
  /\ {} \in Gaps /\ Gaps \subseteq SUBSET {"title", "status"}
  /\ BatchSize \in Nat \ {0} /\ HydrateMax \in Nat \ {0}
  /\ RefreshMax \in Nat \ {0} /\ ScriptMax \in Nat \ {0} /\ PruneMax \in Nat \ {0}
  /\ MaxTape \in Nat \ {0} /\ MaxRows \in Nat \ {0}
  /\ MaxUpset \in Nat

VARIABLES
  row,        \* market -> its row in markets, or NoRow
  born,       \* market -> rows it has had
  tape,       \* market -> trades stored for its row
  upstream,   \* market -> "active", "finalized", or "gone" (404)
  past,       \* markets whose close time has passed
  fresh,      \* active markets with a recent snapshot, or a row changed recently
  ws,         \* the handler at work: [m, id], id 0 for a stub to insert
  phase,      \* of the poller's cycle
  todo,       \* markets the phase has not asked for yet
  batch,      \* items in the poller's hand: market -> [status, titled, verdict]
  loaded,     \* market -> the row the open transaction of the poller loaded
  script,     \* rows classify_markets has loaded
  doomed,     \* ids prune_markets has selected, as market -> id
  upsets

vars == <<row, born, tape, upstream, past, fresh, ws, phase, todo, batch, loaded,
          script, doomed, upsets>>

Excluded == {v \in Verdicts : v.cat \in ExcludedCats \/ v.prior \in ExcludedPriors}

Status == {"unknown", "active", "finalized", "out_of_scope"}
Row == [id : 1 .. MaxRows, status : Status, titled : BOOLEAN,
        cat : {v.cat : v \in Verdicts}, prior : {v.prior : v \in Verdicts},
        current : BOOLEAN]
Item == [status : {"active", "finalized", "unknown"}, titled : BOOLEAN, verdict : Verdicts]
ASSUME NoRowAssumption == NoRow \notin Row

Idle == [m |-> "nothing", id |-> 0]
Empty == [m \in {} |-> NoRow]

Stored == {m \in Market : row[m] # NoRow}
Still(m, n) == IF row[m] = NoRow THEN FALSE ELSE row[m].id = n
Unchanged == UNCHANGED <<upstream, past>>

TypeOK ==
  /\ row \in [Market -> Row \cup {NoRow}]
  /\ born \in 0 .. MaxRows /\ tape \in [Market -> 0 .. MaxTape]
  /\ upstream \in [Market -> {"active", "finalized", "gone"}]
  /\ past \subseteq Timed /\ fresh \subseteq Market
  /\ ws \in [m : Market, id : 0 .. MaxRows] \cup {Idle}
  /\ phase \in {"sleep", "sweep", "hydrate", "refresh"}
  /\ todo \subseteq Market
  /\ DOMAIN batch \subseteq Market /\ DOMAIN loaded = DOMAIN batch
  /\ batch \in [DOMAIN batch -> Item]
  /\ loaded \in [DOMAIN batch -> Row \cup {NoRow}]
  /\ DOMAIN script \subseteq Market /\ script \in [DOMAIN script -> Row]
  /\ DOMAIN doomed \subseteq Market /\ doomed \in [DOMAIN doomed -> 1 .. MaxRows]
  /\ upsets \in 0 .. MaxUpset

\* Ids from a to b for the rows of S.
Numbering(S, a, b) ==
  {id \in [S -> a .. b] : \A m, n \in S : id[m] = id[n] => m = n}

Stub(m, n) ==
  [id |-> n, status |-> "unknown", titled |-> FALSE, cat |-> ByTicker[m].cat,
   prior |-> ByTicker[m].prior, current |-> TRUE]

\* A row of before a new CLASSIFIER_VERSION, with which every process starts: a stub,
\* or one that has been hydrated.
Older(m, n, hydrated) ==
  [Stub(m, n) EXCEPT !.current = FALSE, !.titled = hydrated,
                     !.status = IF hydrated THEN "active" ELSE @]

Init ==
  /\ \E S \in SUBSET Known, n \in 0 .. MaxRows :
       /\ born = n /\ n = Cardinality(S)
       /\ \E id \in Numbering(S, 1, n), hydrated \in SUBSET S :
            row = [m \in Market |-> IF m \in S THEN Older(m, id[m], m \in hydrated)
                                          ELSE NoRow]
  /\ tape = [m \in Market |-> 0]
  /\ upstream = [m \in Market |-> "active"]
  /\ past = {} /\ fresh = {} /\ ws = Idle
  /\ phase = "sleep" /\ todo = {} /\ batch = Empty /\ loaded = Empty
  /\ script = Empty /\ doomed = Empty
  /\ upsets = 0

Live(r) == r.status = "active"
\* close_time is known from the first item on.
Closed(m) == row[m].titled /\ m \in past

(* ---- WebSocket handlers ------------------------------------------------ *)

\* _get_or_create_market: a SELECT, and the scope check of an unseen ticker.
WsLookup(m) ==
  /\ ws = Idle /\ upstream[m] = "active"
  /\ tape[m] < MaxTape
  /\ \/ /\ row[m] # NoRow
        /\ ws' = [m |-> m, id |-> row[m].id]
     \/ /\ row[m] = NoRow /\ born < MaxRows
        /\ ByTicker[m] \notin Excluded
        /\ ws' = [m |-> m, id |-> 0]
  /\ UNCHANGED <<row, born, tape, upstream, past, fresh, phase, todo, batch, loaded,
                 script, doomed, upsets>>

\* Mutant: ON CONFLICT DO UPDATE.
Conflict_Update(m) == [Stub(m, 1) EXCEPT !.id = row[m].id]

\* ON CONFLICT DO NOTHING: a row that came in between stays.
Conflict(m) == row[m]

Reached(m, n) ==
  /\ row' = [row EXCEPT ![m] = n]
  /\ tape' = [tape EXCEPT ![m] = @ + 1]
  /\ fresh' \in {fresh, fresh \cup {k \in {m} : Live(n)}}

\* The handler stores the stub and the trade, or fails on the foreign key
\* when the row it had found has been deleted.
WsCommit ==
  /\ ws # Idle /\ ws' = Idle
  /\ LET m == ws.m IN
     \/ /\ ws.id = 0 /\ row[m] = NoRow /\ born < MaxRows
        /\ born' = born + 1
        /\ Reached(m, Stub(m, born + 1))
     \/ /\ ws.id = 0 /\ row[m] # NoRow
        /\ tape[m] < MaxTape
        /\ Reached(m, Conflict(m)) /\ UNCHANGED born
     \/ /\ ws.id # 0 /\ Still(m, ws.id)
        /\ tape[m] < MaxTape
        /\ Reached(m, row[m]) /\ UNCHANGED born
     \/ /\ ws.id # 0 /\ ~Still(m, ws.id)
        /\ UNCHANGED <<row, tape, fresh, born>>
  /\ UNCHANGED <<phase, todo, batch, loaded, script, doomed, upsets>>
  /\ Unchanged

(* ---- The ORM session ----------------------------------------------------- *)

\* The UPDATE of the columns that differ from what was loaded.
Flush(db, old, new) ==
  [f \in DOMAIN db |-> IF new[f] = old[f] THEN db[f] ELSE new[f]]

\* The UPDATE finds no row: StaleDataError.
Vanished(m, old, new) == new # old /\ ~Still(m, old.id)

Stamp(r, v) == [r EXCEPT !.cat = v.cat, !.prior = v.prior, !.current = TRUE]

(* ---- market_ingestor --------------------------------------------------- *)

InScope(item) == item.verdict \notin Excluded

\* A row of the right version is not stamped again.
Restamp(r, item) == IF r.current THEN r ELSE Stamp(r, item.verdict)

\* _market_field_values
Filled(r, status, item) == [r EXCEPT !.status = status, !.titled = item.titled]

\* Mutant: a row of an out-of-scope market is always left alone.
Wanted_LeaveAlone(old, item) ==
  IF InScope(item) THEN Restamp(Filled(old, item.status, item), item) ELSE old

\* What ingest_markets_payload makes of the row it loaded.
Wanted(old, item) ==
  CASE InScope(item) -> Restamp(Filled(old, item.status, item), item)
    [] ~InScope(item) /\ (old.status = "unknown" \/ ~old.titled) ->
         Stamp(Filled(old, "out_of_scope", item), item.verdict)
    [] OTHER -> old

Created(item, n) ==
  [id |-> n, status |-> item.status, titled |-> item.titled, cat |-> item.verdict.cat,
   prior |-> item.verdict.prior, current |-> TRUE]

Inserted == {m \in DOMAIN batch : loaded[m] = NoRow /\ InScope(batch[m])}
Updated == {m \in DOMAIN batch : loaded[m] # NoRow}

\* A duplicate key, or a row that went: the whole batch is rolled back.
BatchFails ==
  \/ \E m \in Inserted : row[m] # NoRow
  \/ \E m \in Updated : Vanished(m, loaded[m], Wanted(loaded[m], batch[m]))

\* The metric of a row that went cannot be written, unless it is fresh.
QuoteFails(due) ==
  \E m \in due \cap Updated : InScope(batch[m]) /\ ~Still(m, loaded[m].id)

Sleep == phase' = "sleep" /\ todo' = {} /\ batch' = Empty /\ loaded' = Empty
PutDown == batch' = Empty /\ loaded' = Empty /\ UNCHANGED <<phase, todo>>

IngestCommit ==
  /\ DOMAIN batch # {}
  /\ PutDown /\ ~BatchFails
  /\ born' = born + Cardinality(Inserted) /\ born' \in born .. MaxRows
  /\ \E id \in Numbering(Inserted, born + 1, born') :
     LET kept == {m \in Updated : Still(m, loaded[m].id)}
         After(m) == Flush(row[m], loaded[m], Wanted(loaded[m], batch[m]))
     IN /\ row' = [m \in Market |-> IF m \in Inserted THEN Created(batch[m], id[m])
                                    ELSE IF m \in kept THEN After(m) ELSE row[m]]
        /\ fresh' = {m \in fresh \cup Inserted \cup {n \in kept : After(n) # row[n]} :
                       IF row'[m] = NoRow THEN FALSE ELSE Live(row'[m])}
  /\ UNCHANGED <<tape, ws, script, doomed, upsets>>
  /\ Unchanged

\* The exception ends the cycle; the batches before it stay.
IngestFail ==
  /\ DOMAIN batch # {}
  /\ Sleep
  /\ BatchFails \/ \E due \in SUBSET DOMAIN batch : QuoteFails(due)
  /\ UNCHANGED <<row, born, tape, fresh, ws, script, doomed, upsets>>
  /\ Unchanged

(* ---- poll_markets ------------------------------------------------------ *)

\* The item of a market, of which the fields in lacks are not told. Without a title a
\* market may be classified by its ticker alone.
Told(m, lacks, blind) ==
  [status |-> IF "status" \in lacks THEN "unknown" ELSE upstream[m],
   titled |-> "title" \notin lacks,
   verdict |-> IF "title" \in lacks /\ blind THEN ByTicker[m] ELSE ByItem[m]]

\* A page is fetched and its rows are loaded; nothing between the two matters.
Take(S) ==
  /\ loaded' = [m \in S |-> row[m]]
  /\ \E lacks \in [S -> IF upsets < MaxUpset THEN Gaps ELSE {{}}], blind \in BOOLEAN :
       /\ upsets' = IF \A m \in S : lacks[m] = {} THEN upsets ELSE upsets + 1
       /\ batch' = [m \in S |-> Told(m, lacks[m], blind)]

Waiting == DOMAIN batch = {}

StartCycle ==
  /\ phase = "sleep"
  /\ phase' = "sweep" /\ todo' = Market
  /\ UNCHANGED <<row, born, tape, fresh, ws, batch, loaded, script, doomed, upsets>>
  /\ Unchanged

\* iter_markets(status="open") in chunks of BatchSize.
SweepPage(page) ==
  /\ phase = "sweep" /\ Waiting
  /\ page \subseteq todo /\ page # {}
  /\ Cardinality(page) = IF Cardinality(todo) < BatchSize THEN Cardinality(todo) ELSE BatchSize
  /\ todo' = todo \ page
  /\ Take({m \in page : upstream[m] = "active"})
  /\ UNCHANGED <<row, born, tape, fresh, ws, phase, script, doomed>>
  /\ Unchanged

\* Which of two rows a selection lists first: the one with more trades, and then the
\* younger one for the hydration. The refresh looks at updated_at before: the rows of
\* one transaction share it, and it is the time the transaction began, so that every
\* order of rows with as many trades is possible.
Before(p, a, b) ==
  \/ tape[a] > tape[b]
  \/ tape[a] = tape[b] /\ (p = "hydrate" => row[a].id > row[b].id)

\* The first max of S.
Listed(p, S, max) ==
  {T \in SUBSET S : /\ Cardinality(T) = IF Cardinality(S) < max THEN Cardinality(S) ELSE max
                    /\ \A a \in T, b \in S \ T : Before(p, a, b)}

UnknownRows == {m \in Stored : row[m].status = "unknown"}

\* Mutant: an inner join leaves out markets without metrics.
QuietRows_Inner ==
  {m \in Stored : Live(row[m]) /\ row[m].titled /\ ~Closed(m) /\ m \notin fresh /\ tape[m] > 0}

\* Local rows that are active, of no recent snapshot or change, and not closed.
QuietRows ==
  {m \in Stored : Live(row[m]) /\ row[m].titled /\ ~Closed(m) /\ m \notin fresh}

NextPhase(p, S, max) ==
  /\ Waiting /\ todo = {}
  /\ phase' = p /\ todo' \in Listed(p, S, max)
  /\ UNCHANGED <<row, born, tape, fresh, ws, batch, loaded, script, doomed, upsets>>
  /\ Unchanged

StartHydrate == phase = "sweep" /\ NextPhase("hydrate", UnknownRows, HydrateMax)
StartRefresh == phase = "hydrate" /\ NextPhase("refresh", QuietRows, RefreshMax)
EndCycle == phase = "refresh" /\ NextPhase("sleep", {}, 1)

\* get_market: an item is ingested, a market that is missing is passed over.
Lookup(m) ==
  /\ phase \in {"hydrate", "refresh"} /\ Waiting /\ m \in todo
  /\ todo' = todo \ {m}
  /\ \/ /\ upstream[m] # "gone"
        /\ Take({m})
     \/ /\ upstream[m] = "gone"
        /\ UNCHANGED <<batch, loaded, upsets>>
  /\ UNCHANGED <<row, born, tape, fresh, ws, phase, script, doomed>>
  /\ Unchanged

\* A call fails: a sweep ends with it, a lookup goes to the next ticker.
CallFails ==
  /\ Waiting /\ upsets < MaxUpset
  /\ upsets' = upsets + 1
  /\ \/ phase = "sweep" /\ todo # {} /\ Sleep
     \/ \E m \in todo : /\ phase \in {"hydrate", "refresh"}
                        /\ todo' = todo \ {m}
                        /\ UNCHANGED <<phase, batch, loaded>>
  /\ UNCHANGED <<row, born, tape, fresh, ws, script, doomed>>
  /\ Unchanged

(* ---- classify_markets, prune_markets ----------------------------------- *)

\* select_targets: rows of an older version, or any with --all, and at most --max.
ClassifyLoad ==
  /\ script = Empty /\ upsets < MaxUpset
  /\ \E S \in SUBSET Stored :
       /\ S # {} /\ Cardinality(S) <= ScriptMax
       /\ script' = [m \in S |-> row[m]]
  /\ upsets' = upsets + 1
  /\ UNCHANGED <<row, born, tape, fresh, ws, phase, todo, batch, loaded, doomed>>
  /\ Unchanged

Reclassified(m) ==
  Stamp(script[m], IF script[m].titled THEN ByTitle[m] ELSE ByTicker[m])

\* The next --batch rows, or the end when a row to be written has gone.
ClassifyCommit ==
  /\ \E S \in SUBSET DOMAIN script :
       /\ S # {}
       /\ \/ /\ \A m \in S : ~Vanished(m, script[m], Reclassified(m))
             /\ LET kept == {m \in S : Still(m, script[m].id)}
                    After(m) == Flush(row[m], script[m], Reclassified(m))
                IN /\ row' = [m \in Market |-> IF m \in kept THEN After(m) ELSE row[m]]
                   /\ fresh' = fresh \cup {m \in kept : After(m) # row[m] /\ Live(row[m])}
             /\ script' = [m \in DOMAIN script \ S |-> script[m]]
          \/ /\ \E m \in S : Vanished(m, script[m], Reclassified(m))
             /\ script' = Empty /\ UNCHANGED <<row, fresh>>
  /\ UNCHANGED <<born, tape, ws, phase, todo, batch, loaded, doomed, upsets>>
  /\ Unchanged

Gone(S) ==
  /\ row' = [m \in Market |-> IF m \in S THEN NoRow ELSE row[m]]
  /\ tape' = [m \in Market |-> IF m \in S THEN 0 ELSE tape[m]]
  /\ fresh' = fresh \ S

Unresolved(m) == row[m].status = "unknown" /\ ~row[m].titled

\* _delete_stale_unknown_batch selects the ids of stubs,
PruneSelect ==
  /\ doomed = Empty /\ upsets < MaxUpset
  /\ \E S \in SUBSET {m \in Stored : Unresolved(m)} :
       /\ S # {} /\ Cardinality(S) <= PruneMax
       /\ doomed' = [m \in S |-> row[m].id]
  /\ upsets' = upsets + 1
  /\ UNCHANGED <<row, born, tape, fresh, ws, phase, todo, batch, loaded, script>>
  /\ Unchanged

\* and deletes their rows and everything that hangs on them by id.
PruneDelete ==
  /\ doomed # Empty /\ doomed' = Empty
  /\ Gone({m \in DOMAIN doomed : Still(m, doomed[m])})
  /\ UNCHANGED <<born, ws, phase, todo, batch, loaded, script, upsets>>
  /\ Unchanged

\* DELETE FROM markets WHERE category or prior is excluded, in one statement.
PruneScope ==
  /\ upsets < MaxUpset /\ upsets' = upsets + 1
  /\ \E S \in {{m \in Stored : row[m].cat \in ExcludedCats \/ row[m].prior \in ExcludedPriors}} :
       S # {} /\ Gone(S)
  /\ UNCHANGED <<born, ws, phase, todo, batch, loaded, script, doomed>>
  /\ Unchanged

(* ---- The exchange and time --------------------------------------------- *)

World == UNCHANGED <<row, born, tape, ws, phase, todo, batch, loaded, script, doomed,
                     upsets>>

Finalize(m) ==
  /\ upstream[m] = "active"
  /\ upstream' = [upstream EXCEPT ![m] = "finalized"]
  /\ World /\ UNCHANGED <<past, fresh>>

Vanish(m) ==
  /\ upstream[m] = "finalized"
  /\ upstream' = [upstream EXCEPT ![m] = "gone"]
  /\ World /\ UNCHANGED <<past, fresh>>

Close(m) ==
  /\ m \in Timed \ past /\ past' = past \cup {m}
  /\ World /\ UNCHANGED <<upstream, fresh>>

Age(m) ==
  /\ m \in fresh /\ fresh' = fresh \ {m}
  /\ World /\ UNCHANGED <<upstream, past>>

PollerStep ==
  \/ StartCycle \/ \E page \in SUBSET Market : SweepPage(page)
  \/ StartHydrate \/ StartRefresh \/ EndCycle
  \/ \E m \in Market : Lookup(m)
  \/ IngestCommit \/ IngestFail

Next ==
  \/ \E m \in Market : WsLookup(m)
  \/ WsCommit
  \/ PollerStep \/ CallFails
  \/ ClassifyLoad \/ ClassifyCommit
  \/ PruneSelect \/ PruneDelete \/ PruneScope
  \/ \E m \in Market : Finalize(m) \/ Vanish(m) \/ Close(m) \/ Age(m)

\* The poller's loop runs on, and a market nobody touches is no longer fresh after a
\* while. Handlers and scripts may hang for ever: the poller does not wait for them.
Fairness == WF_vars(PollerStep) /\ \A m \in Market : WF_vars(Age(m))

Spec == Init /\ [][Next]_vars
FairSpec == Spec /\ Fairness

(* ---- Properties -------------------------------------------------------- *)

\* Metadata that was fetched is not lost to a stub: a handler that saw no row
\* and inserts behind the poller leaves the poller's row alone. Only an item
\* that comes without a title takes one away.
HydratedStays ==
  [][\A m \in Stored :
       row[m].titled /\ row'[m] # NoRow =>
         row'[m].titled \/ (m \in DOMAIN batch /\ ~batch[m].titled)]_row

Missing == {m \in UnknownRows : upstream[m] = "gone"}

\* A stub gets its metadata, whatever fails on the way, as long as the
\* exchange knows it and the missing ones do not fill the hydration's limit.
StubsHydrated ==
  \A m \in Market :
    (row[m] # NoRow /\ row[m].status = "unknown")
      ~> \/ row[m] = NoRow
         \/ row[m] # NoRow /\ row[m].status # "unknown"
         \/ upstream[m] = "gone"
         \/ Cardinality(Missing) >= HydrateMax

\* A market that is in scope and settles is noticed, though the sweep no longer
\* lists it, unless its close time passes, the exchange forgets it, its row has
\* no title, for which the refresh leaves it out, or other quiet rows fill the
\* limit of the refresh. Of a market whose item is out of scope by now, a titled
\* row is left alone for good, and stays active.
SettledNoticed ==
  \A m \in {n \in Market : ByItem[n] \notin Excluded} :
    (row[m] # NoRow /\ row[m].status = "active" /\ upstream[m] = "finalized")
      ~> \/ row[m] = NoRow
         \/ row[m] # NoRow /\ (~Live(row[m]) \/ Closed(m) \/ ~row[m].titled)
         \/ upstream[m] = "gone"
         \/ Cardinality(QuietRows \ {m}) >= RefreshMax
=============================================================================
