----------------------------- MODULE ChartMerge -----------------------------
(***************************************************************************)
(* What a compacted chart row shows.  Trades and quotes of one market      *)
(* arrive in order and are upserted into fine buckets; compaction reads    *)
(* old fine rows, coalesces them in Python and upserts the result into the *)
(* wide row that covers them all, a few rows at a time.                    *)
(***************************************************************************)
EXTENDS ChartRow, Sequences, SequencesExt, FiniteSetsExt

CONSTANTS
  Width,    \* width of a fine bucket
  MaxTime,  \* bound: the clock; the wide row covers it
  Price,    \* prices
  Bid,      \* bids and asks, Null for none
  MaxObs    \* bound: observations

MergeConstants ==
  Width \in Nat \ {0} /\ MaxTime \in Nat /\ Price \subseteq Nat /\ Bid \subseteq Value

VARIABLES
  now,
  fine,     \* fine[b]: the row of bucket b, NoRow if there is none
  wide,     \* the row of the wide bucket, NoRow if there is none
  history   \* the rows written, one by one

vars == <<now, fine, wide, history>>

BucketOf(ts) == ts \div Width
Buckets == 0..BucketOf(MaxTime)

Init ==
  /\ now = 0
  /\ fine = [b \in Buckets |-> NoRow]
  /\ wide = NoRow
  /\ history = <<>>

Tick ==
  /\ now < MaxTime
  /\ now' = now + 1
  /\ UNCHANGED <<fine, wide, history>>

\* upsert_chart_history of a row of the present.
Upsert(row) ==
  /\ Len(history) < MaxObs
  /\ fine' = [fine EXCEPT ![BucketOf(now)] = SqlMerge(@, row)]
  /\ history' = Append(history, row)
  /\ UNCHANGED <<now, wide>>

Trade == \E p \in Price : Upsert(TradeRow(now, p))

Quote ==
  \E last \in Price \cup {Null}, bid, ask \in Bid :
    /\ {last, bid, ask} # {Null}
    /\ Upsert(QuoteRow(now, last, bid, ask))

\* The rows of a set of buckets, in order.
RowsOf(B) ==
  [i \in 1..Cardinality(B) |->
     fine[CHOOSE b \in B : Cardinality({x \in B : x < b}) = i - 1]]

\* _coalesce_history_rows.
Coalesced(rows) == FoldLeft(PyMerge, Head(rows), Tail(rows))

\* compact_chart_history up to bucket b, which is over.
Compact(b) ==
  LET old == {x \in Buckets : x <= b /\ fine[x] # NoRow}
  IN  /\ b < BucketOf(now) /\ old # {}
      /\ wide' = SqlMerge(wide, Coalesced(RowsOf(old)))
      /\ fine' = [x \in Buckets |-> IF x \in old THEN NoRow ELSE fine[x]]
      /\ UNCHANGED <<now, history>>

Next == Tick \/ Trade \/ Quote \/ \E b \in Buckets : Compact(b)

Spec == Init /\ [][Next]_vars

-----------------------------------------------------------------------------
(* Properties.                                                             *)

\* The row that a history of single rows should make: the first price opens
\* it, the latest price of the best source closes it.
Reference(h) ==
  LET priced == {i \in DOMAIN h : h[i].close # Null}
      best == {i \in priced : \A j \in priced : h[j].rank <= h[i].rank}
      quotes == {i \in DOMAIN h : h[i].bidFirst # Null}
      bids == {i \in quotes : h[i].bidClose # Null}
      price == {h[i].close : i \in priced}
      bid == {h[i].bidClose : i \in bids}
      Of(S, f(_), pick(_)) == IF S = {} THEN Null ELSE f(pick(S))
      Value1(x) == x
  IN  [open |-> Of(priced, LAMBDA i : h[i].open, Min),
       high |-> Of(price, Value1, Max),
       low |-> Of(price, Value1, Min),
       close |-> Of(best, LAMBDA i : h[i].close, Max),
       rank |-> IF best = {} THEN 0 ELSE h[Max(best)].rank,
       first |-> Of(priced, LAMBDA i : h[i].first, Min),
       last |-> Of(priced, LAMBDA i : h[i].last, Max),
       bidOpen |-> Of(quotes, LAMBDA i : h[i].bidOpen, Min),
       bidHigh |-> Of(bid, Value1, Max),
       bidLow |-> Of(bid, Value1, Min),
       bidClose |-> Of(bids, LAMBDA i : h[i].bidClose, Max),
       bidFirst |-> Of(quotes, LAMBDA i : h[i].bidFirst, Min),
       bidLast |-> Of(quotes, LAMBDA i : h[i].bidLast, Max)]

\* The wide row and the fine rows that are left tell together what the history
\* tells, however the compactions were cut: nothing of a price or a quote is
\* lost or changed when buckets are widened.
CompactionFaithful ==
  FoldLeft(SqlMerge, wide, RowsOf(Buckets)) = Reference(history)
=============================================================================
