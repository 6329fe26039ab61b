------------------------------ MODULE MCSignals ------------------------------
(* Instances for TLC of what the pipeline makes of quotes and of what the   *)
(* API shows. The alerts of one market with a weak alert of an earlier      *)
(* version, scored on the bucket that is still the latest one when its      *)
(* chart comes back; the list of suspicious trades over six sports trades   *)
(* and two of one political market; the health panel with one job; a search *)
(* while the indexes of two markets and two articles are rebuilt; the       *)
(* requests of two threads under a rate limit; one payload of the dashboard *)
(* in its two caches; and the scope of one market, in units of six hours. A *)
(* behaviour is one of one part, chosen at the start. The two writers of    *)
(* alerts do the same, so they are symmetric.                               *)
EXTENDS AnomalyLedger, Dashboard, Sequences, TLC

CONSTANTS w1, w2

VARIABLE part

Symmetry == Permutations(Writer)

MCLegacy == [i \in {1} |-> [market |-> 1, at |-> -1, severity |-> Low, key |-> 1]]

Fact(market, event, category, prefixed, ts) ==
  [market |-> market, event |-> event, category |-> category, prefixed |-> prefixed,
   ts |-> ts, score |-> 4 + (ts % 2)]

MCFacts ==
  <<Fact(1, 1, "sports", FALSE, 1), Fact(2, 1, "other", TRUE, 2),
    Fact(3, 2, "sports", FALSE, 3), Fact(4, Absent, "sports", FALSE, 4),
    Fact(5, 5, "sports", FALSE, 5), Fact(6, 6, "sports", FALSE, 6),
    Fact(7, 7, "politics", FALSE, 7), Fact(7, 7, "politics", FALSE, 8)>>

MCHistories ==
  {[t \in 1 .. 8 |-> "plain"]} \union
  {h \in [1 .. 8 -> {"gone", "plain", "flagged"}] :
     /\ \A t \in 1 .. 4 : h[t] # "flagged"
     /\ h[5] = "gone" /\ h[6] = "gone" /\ h[7] # "gone" /\ h[8] = "flagged"}

MCJobs == <<"feed">>
MCStaleAfter == [c \in {"feed"} |-> 1]
MCProcessOf == [t1 |-> "api", t2 |-> "api"]
MCHome == [request |-> "api", refresh |-> "api"]

MCSpellings == {"active", "ACTIVE", "open", "unknown"}
MCLower == [s \in MCSpellings |-> IF s = "ACTIVE" THEN "active" ELSE s]
MCDates == {-3}
MCZones == {-1, 0, 1}

MCHits == [markets |-> {1, 2}, news |-> {1, 2}]
MCDirect == [markets |-> {1}, news |-> {2}]
MCProfile == <<1, 2>>
MCLink == <<<<1, 2>>, <<2, 2>>, <<1, 1>>>>

\* What the theorems of Api_proof assume of these constants.
ASSUME ApiConstants ==
  /\ Limiter!LimiterConstants /\ Cache!CacheConstants /\ Health!HealthConstants
  /\ Board!BoardConstants /\ Desk!DeskConstants /\ Scope!ScopeConstants

MCInit ==
  /\ part \in {"alerts", "board", "health", "scope", "search", "limiter",
              "cache"}
  /\ Init /\ Board!Init /\ Health!Init /\ Desk!Init /\ Limiter!Init /\ Cache!Init
  /\ Scope!Init
  /\ part # "board" => tape = DOMAIN Facts
  /\ part # "scope" => zone = 0 /\ listed = [status |-> "open", close |-> Absent, date |-> Absent]

\* A panel that has read the heartbeats does not see what jobs report while it reads
\* the tables, and signs of life only grow: leaving those reports to the time after the
\* response hides no violation of HealthHonest.
SeesJobs == panel.at = "reading" => UNCHANGED <<working, beat>>

\* A search that has asked the indexes, or given up on them, does not see a rebuild, which
\* may fail at any moment without a trace: it is enough to let one go on before.
SeesIndexes ==
  \/ query'.at = "idle"
  \/ query'.at \in Desk!Kinds /\ query'.provider = "opensearch"
  \/ rebuild' = Desk!Idle /\ UNCHANGED <<docs, visible>>

\* The requests and the clock of these two are bounded, so their behaviours end.
Rest == part \in {"limiter", "cache"} /\ UNCHANGED <<vars, apiVars>>

MCNext ==
  \/ part = "alerts" /\ Next /\ UNCHANGED apiVars
  \/ /\ part = "board" /\ Board!Next
     /\ UNCHANGED <<vars, limiterVars, cacheVars, healthVars, scopeVars, deskVars>>
  \/ /\ part = "health" /\ Health!Next /\ SeesJobs
     /\ UNCHANGED <<vars, limiterVars, cacheVars, boardVars, scopeVars, deskVars>>
  \/ /\ part = "scope" /\ Scope!Next
     /\ UNCHANGED <<vars, limiterVars, cacheVars, healthVars, boardVars, deskVars>>
  \/ /\ part = "search" /\ Desk!Next /\ SeesIndexes
     /\ UNCHANGED <<vars, limiterVars, cacheVars, healthVars, boardVars, scopeVars>>
  \/ /\ part = "limiter" /\ Limiter!Next
     /\ UNCHANGED <<vars, cacheVars, healthVars, boardVars, scopeVars, deskVars>>
  \/ /\ part = "cache" /\ Cache!Next
     /\ UNCHANGED <<vars, limiterVars, healthVars, boardVars, scopeVars, deskVars>>
  \/ Rest

MCSpec == MCInit /\ [][MCNext /\ UNCHANGED part]_<<part, vars, apiVars>>
=============================================================================
