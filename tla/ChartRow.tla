------------------------------ MODULE ChartRow ------------------------------
(***************************************************************************)
(* The rows of market_price_history and how two of them become one         *)
(* (app/services/market_price_history.py).  It is written twice: as the ON *)
(* CONFLICT clause of the upsert, and in Python for rows of one statement  *)
(* that share a bucket.                                                    *)
(*                                                                         *)
(* yes_ask is treated as yes_bid is; volume and open interest as its close.*)
(* A price is a number, Null the SQL NULL; the bucket and the counters,    *)
(* which are added, are in ChartHistory.                                   *)
(***************************************************************************)
EXTENDS Integers

Null == -1
Value == Nat \cup {Null}

Row == [open : Value, high : Value, low : Value, close : Value, rank : 0..3,
        first : Value, last : Value,
        bidOpen : Value, bidHigh : Value, bidLow : Value, bidClose : Value,
        bidFirst : Value, bidLast : Value]

\* A row that nothing was merged into: upserting into it is an insert.
NoRow == [open |-> Null, high |-> Null, low |-> Null, close |-> Null, rank |-> 0,
          first |-> Null, last |-> Null,
          bidOpen |-> Null, bidHigh |-> Null, bidLow |-> Null, bidClose |-> Null,
          bidFirst |-> Null, bidLast |-> Null]

\* _quote_display_price and _PRICE_SOURCE_RANK.
Rank(last, bid, ask) ==
  IF last # Null THEN 2 ELSE IF bid # Null /\ ask # Null THEN 1 ELSE 0
DisplayPrice(last, bid, ask) ==
  IF last # Null THEN last
  ELSE IF bid # Null /\ ask # Null THEN (bid + ask) \div 2 ELSE Null

\* quote_history_row; a quote without a price, a bid or an ask makes no row.
QuoteRow(ts, last, bid, ask) ==
  LET price == DisplayPrice(last, bid, ask)
      priceTs == IF price = Null THEN Null ELSE ts
  IN  [open |-> price, high |-> price, low |-> price, close |-> price,
       rank |-> Rank(last, bid, ask), first |-> priceTs, last |-> priceTs,
       bidOpen |-> bid, bidHigh |-> bid, bidLow |-> bid, bidClose |-> bid,
       bidFirst |-> ts, bidLast |-> ts]

\* trade_history_row.
TradeRow(ts, price) ==
  [NoRow EXCEPT !.open = price, !.high = price, !.low = price, !.close = price,
                !.rank = 3, !.first = ts, !.last = ts]

\* _greatest_nullable and _least_nullable, _max_nullable and _min_nullable.
Greatest(x, y) ==
  IF x = Null THEN y ELSE IF y = Null THEN x ELSE IF x >= y THEN x ELSE y
Least(x, y) ==
  IF x = Null THEN y ELSE IF y = Null THEN x ELSE IF x <= y THEN x ELSE y

\* x < y and x >= y of SQL and of the Python helpers: not true of Null.
Before(x, y) == x # Null /\ y # Null /\ x < y
NotBefore(x, y) == x # Null /\ y # Null /\ x >= y

-----------------------------------------------------------------------------
(* The ON CONFLICT clause of bulk_upsert_chart_history.                    *)

\* Mutant: the newer price closes the row, whatever its source.
ClosePriceIsBetter_Newest(old, new) ==
  new.close # Null /\ (old.last = Null \/ NotBefore(new.last, old.last))

ClosePriceIsBetter(old, new) ==
  /\ new.close # Null
  /\ \/ old.close = Null
     \/ new.rank > old.rank
     \/ /\ new.rank = old.rank
        /\ old.last = Null \/ NotBefore(new.last, old.last)

QuoteIsNewer(old, new) ==
  new.bidLast # Null /\ (old.bidLast = Null \/ NotBefore(new.bidLast, old.bidLast))

SqlMerge(old, new) ==
  LET better == ClosePriceIsBetter(old, new)
  IN  [open |-> IF old.first = Null \/ Before(new.first, old.first)
                  THEN new.open ELSE old.open,
       high |-> Greatest(old.high, new.high),
       low |-> Least(old.low, new.low),
       close |-> IF better THEN new.close ELSE old.close,
       rank |-> IF better THEN new.rank ELSE old.rank,
       first |-> Least(old.first, new.first),
       last |-> Greatest(old.last, new.last),
       bidOpen |-> IF old.bidFirst = Null \/ Before(new.bidFirst, old.bidFirst)
                     THEN new.bidOpen ELSE old.bidOpen,
       bidHigh |-> Greatest(old.bidHigh, new.bidHigh),
       bidLow |-> Least(old.bidLow, new.bidLow),
       bidClose |-> IF QuoteIsNewer(old, new) /\ new.bidClose # Null
                      THEN new.bidClose ELSE old.bidClose,
       bidFirst |-> Least(old.bidFirst, new.bidFirst),
       bidLast |-> Greatest(old.bidLast, new.bidLast)]

-----------------------------------------------------------------------------
(* _merge_history_row: the candidate row is merged into the existing one.  *)

\* _candidate_has_earlier_ts.
HasEarlierTs(candidateTs, existingTs) ==
  candidateTs # Null /\ (existingTs = Null \/ candidateTs < existingTs)

\* _price_row_wins.
PriceRowWins(candidate, existing) ==
  /\ candidate.close # Null
  /\ \/ existing.close = Null
     \/ IF candidate.rank # existing.rank THEN candidate.rank > existing.rank
        ELSE /\ candidate.last # Null
             /\ existing.last = Null \/ candidate.last >= existing.last

\* _quote_row_is_newer.
QuoteRowIsNewer(candidate, existing) ==
  /\ candidate.bidLast # Null
  /\ existing.bidLast = Null \/ candidate.bidLast >= existing.bidLast

PyMerge(existing, row) ==
  LET wins == PriceRowWins(row, existing)
  IN  [open |-> IF HasEarlierTs(row.first, existing.first)
                  THEN row.open ELSE existing.open,
       high |-> Greatest(existing.high, row.high),
       low |-> Least(existing.low, row.low),
       close |-> IF wins THEN row.close ELSE existing.close,
       rank |-> IF wins THEN row.rank ELSE existing.rank,
       first |-> Least(existing.first, row.first),
       last |-> Greatest(existing.last, row.last),
       bidOpen |-> IF HasEarlierTs(row.bidFirst, existing.bidFirst)
                     THEN row.bidOpen ELSE existing.bidOpen,
       bidHigh |-> Greatest(existing.bidHigh, row.bidHigh),
       bidLow |-> Least(existing.bidLow, row.bidLow),
       bidClose |-> IF QuoteRowIsNewer(row, existing) /\ row.bidClose # Null
                      THEN row.bidClose ELSE existing.bidClose,
       bidFirst |-> Least(existing.bidFirst, row.bidFirst),
       bidLast |-> Greatest(existing.bidLast, row.bidLast)]

-----------------------------------------------------------------------------
(* What is true of every row that the service writes.                      *)

\* The fields of the price, and those of the quote, are Null together (the
\* bid may be missing from a quote).
WellFormed(r) ==
  /\ r \in Row
  /\ \/ r.rank > 0 /\ r.open # Null /\ r.high # Null /\ r.low # Null
          /\ r.close # Null /\ r.first # Null /\ r.first <= r.last
     \/ r.rank = 0 /\ r.open = Null /\ r.high = Null /\ r.low = Null
          /\ r.close = Null /\ r.first = Null /\ r.last = Null
  /\ \/ r.bidFirst # Null /\ r.bidFirst <= r.bidLast
     \/ r.bidFirst = Null /\ r.bidLast = Null /\ r.bidOpen = Null
          /\ r.bidHigh = Null /\ r.bidLow = Null /\ r.bidClose = Null

\* Nothing in b is older than what is in a.
Follows(a, b) ==
  /\ a.last # Null /\ b.first # Null => a.last <= b.first
  /\ a.bidLast # Null /\ b.bidFirst # Null => a.bidLast <= b.bidFirst
=============================================================================
