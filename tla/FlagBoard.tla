------------------------------ MODULE FlagBoard ------------------------------
(***************************************************************************)
(* The list of suspicious trades on the dashboard,                         *)
(* _suspicious_trades_payload and _diversify_suspicious_trades of          *)
(* app/api/routes/dashboard.py, over a tape from which retention takes     *)
(* trades after it copied their flags (TapeRetention).                     *)
(*                                                                         *)
(* A request reads the flags that still have their trade, then, with a     *)
(* second statement of a READ COMMITTED transaction, the evidence; when    *)
(* both are empty it scores a sample of the tape itself.  The copy and the *)
(* deletion commit between the two.  The markets of the tape are hydrated  *)
(* and stay in the scope of the request, and there is one scorer version.  *)
(***************************************************************************)
EXTENDS Integers, Sequences, FiniteSets, SequencesExt

CONSTANTS
  Facts,          \* Facts[t]: market, event, category, prefixed, ts and base score of trade t
  SportsCategory, \* _SUSPICIOUS_SPORTS_CATEGORIES
  Absent,         \* no flag, no evidence, no event
  Limits,         \* limits a client may ask for
  CandidateLimit, \* max(limit * 25, 300)
  Sample,         \* trades of the tape that are sampled
  Histories,      \* what may have become of the trades before the first request
  MaxMove         \* bound: changes of the tape

Trade == DOMAIN Facts

BoardConstants ==
  /\ IsFiniteSet(Trade) /\ Trade \subseteq Int
  /\ \A t \in Trade : Facts[t].score \in Int /\ Facts[t].ts \in Int
  /\ Limits \subseteq Nat /\ CandidateLimit \in Nat \ {0} /\ Absent \notin Int

VARIABLES
  tape,      \* trades in the table trades
  flag,      \* flag[t]: score of its row in trade_flags, or Absent
  evidence,  \* evidence[t]: score of its row in trade_evidence, or Absent
  request,   \* the request under way
  moves

vars == <<tape, flag, evidence, request, moves>>

Waiting == [at |-> "idle"]

\* A trade is "plain", "flagged", "copied", or "gone" from the tape after a copy.
Init ==
  \E past \in Histories :
    /\ tape = {t \in Trade : past[t] # "gone"}
    /\ flag = [t \in Trade |-> IF past[t] \in {"flagged", "copied"} THEN Facts[t].score ELSE Absent]
    /\ evidence = [t \in Trade |-> IF past[t] \in {"copied", "gone"} THEN Facts[t].score ELSE Absent]
    /\ request = Waiting /\ moves = 0

----------------------------------------------------------------------------
(* Presentation                                                             *)

\* _is_suspicious_sports_item
Sports(t) == Facts[t].category \in SportsCategory \/ Facts[t].prefixed

SportsEvent(t) == IF Facts[t].event = Absent THEN <<"market", Facts[t].market>>
                  ELSE <<"event", Facts[t].event>>

SportsCap(limit) == IF limit < 4 THEN limit ELSE 4
CategoryCap == 3

\* Mutant: the second pass lifts the cap on sports as well.
MayAdd_AnySports(out, t, limit, strict) ==
  /\ t \notin ToSet(out)
  /\ strict =>
       /\ \A u \in ToSet(out) : Facts[u].market # Facts[t].market
       /\ Cardinality({u \in ToSet(out) : Facts[u].category = Facts[t].category}) < CategoryCap
       /\ Sports(t) => Cardinality({u \in ToSet(out) : Sports(u)}) < SportsCap(limit)

\* can_add
MayAdd(out, t, limit, strict) ==
  /\ t \notin ToSet(out)
  /\ Sports(t) =>
       /\ Cardinality({u \in ToSet(out) : Sports(u)}) < SportsCap(limit)
       /\ \A u \in ToSet(out) : Sports(u) => SportsEvent(u) # SportsEvent(t)
  /\ strict =>
       /\ \A u \in ToSet(out) : Facts[u].market # Facts[t].market
       /\ Cardinality({u \in ToSet(out) : Facts[u].category = Facts[t].category}) < CategoryCap

Pass(out, items, limit, strict) ==
  FoldLeft(LAMBDA list, t : IF Len(list) < limit /\ MayAdd(list, t, limit, strict)
                              THEN Append(list, t) ELSE list,
           out, items)

\* _diversify_suspicious_trades.  The second pass is over what the first one skipped;
\* what it added MayAdd does not add again.
Diversified(items, limit) ==
  IF limit <= 0 THEN <<>>
  ELSE Pass(Pass(<<>>, items, limit, TRUE), items, limit, FALSE)

\* Higher scores first, then newer trades; ties, whose order the statement leaves open,
\* go to the trade with the higher number.
Before(scores, t, u) ==
  \/ scores[t] > scores[u]
  \/ /\ scores[t] = scores[u]
     /\ \/ Facts[t].ts > Facts[u].ts
        \/ Facts[t].ts = Facts[u].ts /\ t > u

Ranked(scores) ==
  [n \in 1 .. Cardinality(DOMAIN scores) |->
     CHOOSE t \in DOMAIN scores :
       Cardinality({u \in DOMAIN scores : Before(scores, u, t)}) = n - 1]

\* The rows that ORDER BY and LIMIT leave of a query.
First(scores) ==
  LET kept == {t \in DOMAIN scores :
                 Cardinality({u \in DOMAIN scores : Before(scores, u, t)}) < CandidateLimit}
  IN [t \in kept |-> scores[t]]

----------------------------------------------------------------------------
(* The request                                                              *)

\* TradeFlag joined with its trade, and TradeEvidence.
FlagRows == First([t \in {u \in tape : flag[u] # Absent} |-> flag[t]])
EvidenceRows == First([t \in {u \in Trade : evidence[u] # Absent} |-> evidence[t]])

\* Trades with a flag or evidence.
Recorded == {t \in Trade : flag[t] # Absent \/ evidence[t] # Absent}

Request ==
  /\ request.at = "idle"
  /\ \E limit \in Limits :
       request' = [at |-> "asked", limit |-> limit, due |-> Recorded]
  /\ UNCHANGED <<tape, flag, evidence, moves>>

\* Mutant: the evidence is read before the flags.
ReadFirst_Evidence(r) ==
  [at |-> "half", limit |-> r.limit, due |-> r.due, seen |-> EvidenceRows, second |-> "flags"]

\* The first query.
ReadFirst(r) ==
  [at |-> "half", limit |-> r.limit, due |-> r.due, seen |-> FlagRows, second |-> "evidence"]

ReadOne ==
  /\ request.at = "asked" /\ request' = ReadFirst(request)
  /\ UNCHANGED <<tape, flag, evidence, moves>>

\* Rows of both queries by trade; the live flag is preferred.
Merged ==
  LET other == IF request.second = "evidence" THEN EvidenceRows ELSE FlagRows
      found == DOMAIN request.seen \union DOMAIN other
      first == IF request.second = "evidence" THEN request.seen ELSE other
      last == IF request.second = "evidence" THEN other ELSE request.seen
  IN [t \in found |-> IF t \in DOMAIN first THEN first[t] ELSE last[t]]

Answer(scores, rows) ==
  request' = [at |-> "answered", limit |-> request.limit, due |-> request.due,
              candidates |-> scores, shown |-> Diversified(Ranked(scores), request.limit),
              source |-> rows]

ReadTwo ==
  /\ request.at = "half" /\ DOMAIN Merged # {} /\ Answer(Merged, "tables")
  /\ UNCHANGED <<tape, flag, evidence, moves>>

\* The newest trades of the tape, of which the scorers choose and score some.
ScoreTape ==
  /\ request.at = "half" /\ DOMAIN Merged = {}
  /\ LET newest == {t \in tape : Cardinality({u \in tape : Facts[u].ts > Facts[t].ts}) < Sample}
     IN \E some \in SUBSET newest : Answer([t \in some |-> Facts[t].score], "tape")
  /\ UNCHANGED <<tape, flag, evidence, moves>>

Respond ==
  /\ request.at = "answered" /\ request' = Waiting
  /\ UNCHANGED <<tape, flag, evidence, moves>>

----------------------------------------------------------------------------
(* The tape                                                                 *)

Move == moves < MaxMove /\ moves' = moves + 1 /\ UNCHANGED <<request>>

\* A sweep of the materializer flags a trade, or scores it again.
Flag(t) ==
  /\ t \in tape /\ Move
  /\ \E score \in {Facts[t].score, Facts[t].score + 1} : flag' = [flag EXCEPT ![t] = score]
  /\ UNCHANGED <<tape, evidence>>

\* Retention copies the flag before the trade goes.
Copy(t) ==
  /\ flag[t] # Absent /\ evidence[t] = Absent /\ Move
  /\ evidence' = [evidence EXCEPT ![t] = flag[t]]
  /\ UNCHANGED <<tape, flag>>

\* Retention deletes the trade, and its flag with it.
Delete(t) ==
  /\ t \in tape /\ (flag[t] # Absent => evidence[t] # Absent) /\ Move
  /\ tape' = tape \ {t} /\ flag' = [flag EXCEPT ![t] = Absent]
  /\ UNCHANGED evidence

Answered == request.at = "answered"

\* Nothing that happens after the last query changes the response.
Next ==
  \/ Request \/ ReadOne \/ ReadTwo \/ ScoreTape \/ Respond
  \/ ~Answered /\ \E t \in Trade : Flag(t) \/ Copy(t) \/ Delete(t)

Spec == Init /\ [][Next]_vars

----------------------------------------------------------------------------
(* Properties                                                               *)

\* The list misses nothing: a trade that had a flag or evidence when the request
\* began is a candidate, unless there are as many candidates as a query may return,
\* whatever the sweep flags, scores again and copies and retention deletes before
\* and between the two queries. _suspicious_trades_payload.
BoardComplete ==
  Answered =>
    \/ Cardinality(DOMAIN request.candidates) >= CandidateLimit
    \/ request.due \subseteq DOMAIN request.candidates

\* The list is short only where it has to be: it shows a candidate once, never
\* more sports than its cap nor two of one sports event, begins with the first
\* candidate, and while it has room leaves out only sports that the cap or their
\* event rules out. _diversify_suspicious_trades.
ListFills ==
  Answered =>
    LET out == request.shown
        shown == ToSet(out)
        sports == {t \in shown : Sports(t)}
    IN /\ Len(out) <= request.limit /\ Cardinality(shown) = Len(out)
       /\ shown \subseteq DOMAIN request.candidates
       /\ Cardinality(sports) <= 4
       /\ \A t, u \in sports : t # u => SportsEvent(t) # SportsEvent(u)
       /\ out # <<>> => out[1] = Ranked(request.candidates)[1]
       /\ Len(out) < request.limit =>
            \A t \in DOMAIN request.candidates \ shown :
              /\ Sports(t)
              /\ \/ Cardinality(sports) = SportsCap(request.limit)
                 \/ \E u \in sports : SportsEvent(u) = SportsEvent(t)
=============================================================================
