----------------------------- MODULE QuoteEdges ------------------------------
(***************************************************************************)
(* Which markets the active lists of the dashboard leave out because their *)
(* quote says that they are as good as resolved, and which price the       *)
(* others show: app/api/routes/dashboard.py. The rule is written twice,    *)
(* once in Python over values and once as a filter over nullable columns,  *)
(* where a comparison with NULL is unknown and WHERE keeps what is true.   *)
(* Cents are natural numbers. Null stands for None and for NULL; averages  *)
(* of two prices are doubled, so that they are whole.                      *)
(***************************************************************************)
EXTENDS SqlLogic

Null == -1
Cents == Nat \union {Null}

\* _RESOLVED_QUOTE_EDGE_CENTS
Edge == 1

\* Twice _resolved_quote_display_cents, or -2.
Display(last, bid, ask) ==
  IF last # Null THEN 2 * last
  ELSE IF bid # Null /\ ask # Null THEN bid + ask
  ELSE IF bid # Null THEN 2 * bid
  ELSE IF ask # Null THEN 2 * ask ELSE 2 * Null

\* _is_likely_resolved_quote_values
LikelyResolved(last, bid, ask) ==
  LET shown == Display(last, bid, ask)
  IN \/ shown # 2 * Null /\ (shown <= 2 * Edge \/ shown >= 2 * (100 - Edge))
     \/ bid # Null /\ ask # Null /\ bid <= Edge /\ ask >= 100 - Edge

\* full_width_endpoint
FullWidth(bid, ask) ==
  And(And(Sql(bid # Null), Sql(ask # Null)),
      And(AtMost(bid, Edge, Null), AtMost(100 - Edge, ask, Null)))

\* _metric_unresolved_quote_filter; its CASE yields the same value as Display.
UnresolvedFilter(last, bid, ask) ==
  LET shown == Display(last, bid, ask)
  IN Or(Sql(shown = 2 * Null),
        And(And(Less(2 * Edge, shown, 2 * Null), Less(shown, 2 * (100 - Edge), 2 * Null)),
            Not(FullWidth(bid, ask))))

\* Two hundred times _metric_probability_float, clamped to [0, 1], or Null.
Clamped(p) == IF p < 0 THEN 0 ELSE IF p > 200 THEN 200 ELSE p
ShownPrice(last, bid, ask) ==
  IF last = Null /\ bid = Null /\ ask = Null THEN Null ELSE Clamped(Display(last, bid, ask))

\* _active_unresolved_metric_exists: markets without metrics stay in the list.
InActiveList(metric) ==
  metric.exists => UnresolvedFilter(metric.last, metric.bid, metric.ask) = True
=============================================================================
