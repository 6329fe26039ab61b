---------------------------- MODULE MarketScopes ----------------------------
(***************************************************************************)
(* "Active" and "historical" markets: app/services/market_lifecycle.py.    *)
(* The lists of the dashboard choose their rows by a filter in SQL, which  *)
(* the database evaluates over nullable columns and in the time zone of    *)
(* the session, and label them afterwards in Python, in UTC. Between the   *)
(* two the clock runs on, and the poller may have changed the row.         *)
(*                                                                         *)
(* The date in a ticker is the hour at which its day begins in UTC. It may *)
(* be a day that no calendar has, 29 February of a common year, which the  *)
(* pattern lets through: to_timestamp raises, and strptime yields None.    *)
(* markets.status is NOT NULL.                                             *)
(***************************************************************************)
EXTENDS SqlLogic

CONSTANTS
  Spellings,  \* the values of status
  Lower,      \* Lower[s]: s in lower case
  Closes,     \* the close times the exchange may tell
  Dates,      \* the dates a ticker may carry
  NoDay,      \* or a date that is none
  Zones,      \* hours by which the session's time zone may be ahead of UTC
  StaleAfter, \* EVENT_DATE_STALE_AFTER, in hours
  MaxHour,    \* bound: the clock
  Null        \* NULL and None

ScopeConstants ==
  /\ Lower \in [Spellings -> Spellings] /\ \A s \in Spellings : Lower[Lower[s]] = Lower[s]
  /\ {"active", "open"} \subseteq Spellings
  /\ Lower["active"] = "active" /\ Lower["open"] = "open"
  /\ Closes \subseteq Int /\ Dates \subseteq Int /\ Zones \subseteq Int
  /\ StaleAfter \in Nat /\ MaxHour \in Nat
  /\ Null \notin Int /\ NoDay \notin Int /\ NoDay # Null

Rows == [status : Spellings, close : Closes \union {Null}, date : Dates \union {Null, NoDay}]

VARIABLES
  hour,    \* the clock
  zone,    \* the time zone of the session
  market,  \* the row of a market
  answer   \* the row a list has loaded last: [scope, row, asked]; of scope "none" if none

vars == <<hour, zone, market, answer>>

Init ==
  /\ hour = 0 /\ zone \in Zones /\ market \in Rows
  /\ answer = [scope |-> "none", row |-> market, asked |-> 0]

\* ACTIVE_MARKET_STATUSES
ActiveStatuses == {"open", "active"}

----------------------------------------------------------------------------
(* In SQL. A term that raises is as good as unknown: where the others settle *)
(* the result, the database may have left it out.                            *)

\* When the day of a ticker is over for long enough, by the clock of the session.
Cutoff(row) == IF row.date \in Dates THEN row.date - zone + StaleAfter ELSE Null

\* Mutant: without event_token.isnot(None).
StaleExpr_Nullable(row, now) == AtMost(Cutoff(row), now, Null)

\* scheduled_event_stale_expr
StaleExpr(row, now) == And(Sql(row.date # Null), AtMost(Cutoff(row), now, Null))

\* market_scope_filters
ActiveFilter(row, now) ==
  And(And(Sql(row.status \in ActiveStatuses),
          Or(Sql(row.close = Null), Less(now, row.close, Null))),
      Not(StaleExpr(row, now)))

HistoricalFilter(row, now) ==
  Or(Or(Sql(row.status \notin ActiveStatuses), AtMost(row.close, now, Null)),
     StaleExpr(row, now))

Selected(scope, row, now) ==
  (IF scope = "active" THEN ActiveFilter(row, now) ELSE HistoricalFilter(row, now)) = True

----------------------------------------------------------------------------
(* In Python                                                                *)

\* is_stale_scheduled_event_market
Stale(row, now) == row.date \in Dates /\ row.date + StaleAfter <= now

Closed(row, now) == row.close # Null /\ row.close <= now

\* market_lifecycle
Lifecycle(row, now) ==
  LET status == Lower[row.status]
  IN  IF Stale(row, now) THEN "historical"
      ELSE IF status \in ActiveStatuses /\ ~Closed(row, now) THEN "active"
      ELSE IF status \in {"unknown", "out_of_scope"} THEN status
      ELSE IF Closed(row, now) \/ status \notin ActiveStatuses \union {""} THEN "historical"
      ELSE "other"

----------------------------------------------------------------------------

Tick ==
  /\ hour < MaxHour /\ hour' = hour + 1
  /\ UNCHANGED <<zone, market, answer>>

\* The poller copies status and close time of an item: _market_field_values.
Ingest ==
  /\ \E status \in Spellings, close \in Closes \union {Null} :
       market' = [market EXCEPT !.status = status, !.close = close]
  /\ UNCHANGED <<hour, zone, answer>>

\* A list loads the row if its filter is true, and fails if a term raises.
List(scope) ==
  /\ \/ /\ Selected(scope, market, hour)
        /\ answer' = [scope |-> scope, row |-> market, asked |-> hour]
     \/ /\ ~Selected(scope, market, hour) \/ market.date = NoDay
        /\ answer' = [answer EXCEPT !.scope = "none"]
  /\ UNCHANGED <<hour, zone, market>>

Next == Tick \/ Ingest \/ List("active") \/ List("historical")

Spec == Init /\ [][Next]_vars

----------------------------------------------------------------------------
(* Properties                                                               *)

\* No row is in both lists, and NULL leaves none out of both; one whose date is
\* none may be missing, with the list.
Partition ==
  /\ ~(Selected("active", market, hour) /\ Selected("historical", market, hour))
  /\ market.date # NoDay =>
       Selected("active", market, hour) \/ Selected("historical", market, hour)

\* The label of a row in the active list is "active", unless its close time came
\* between the query and the label, or the end of its date did, which the query
\* expects when it comes in the time zone of the session and the label in UTC.
ActiveLabel ==
  LET row == answer.row
      Over == row.date + StaleAfter
  IN  \/ Lifecycle(row, hour) = "active"
      \/ row.close # Null /\ answer.asked < row.close /\ row.close <= hour
      \/ row.date \in Dates /\ answer.asked + zone < Over /\ Over <= hour

\* That of a row in the historical list is not, unless its date is over in the time
\* zone of the session and not in UTC, or its status is active in lower case only.
HistoricalLabel ==
  LET row == answer.row
      Over == row.date + StaleAfter
  IN  \/ Lifecycle(row, hour) # "active"
      \/ Lower[row.status] # row.status
      \/ row.date \in Dates /\ hour < Over /\ Over <= answer.asked + zone

\* The filters in SQL and the label in Python agree about what is active, as far as
\* clocks, time zones and spelling let them: market_lifecycle.py promises that the
\* dashboard, scripts and materializers agree on when a market is still live.
ScopesAgree ==
  /\ Partition
  /\ answer.scope = "active" => ActiveLabel
  /\ answer.scope = "historical" => HistoricalLabel
=============================================================================
