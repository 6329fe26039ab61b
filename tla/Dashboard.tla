------------------------------ MODULE Dashboard ------------------------------
(***************************************************************************)
(* What the dashboard API keeps beside its tables, each part with a state  *)
(* of its own: the rate limiter in front of every request, the payloads in *)
(* its two caches, the health panel over what the jobs report, the list of *)
(* suspicious trades over what the materializer has flagged, the scope of  *)
(* its lists of markets, and search.                                       *)
(*                                                                         *)
(* A request passes the limiter and is answered by one of the others. They *)
(* share no state, so nothing is lost by taking each alone.                *)
(***************************************************************************)

\* RateLimiter, where Servers is the set of processes
CONSTANTS Thread, Servers, ProcessOf, Limit, Window, MaxKeys, LimiterTime, MaxRequests,
          MaxUpset

VARIABLES time, shared, local, counter, failed, req, made, allowed, refused, late, lost,
          failures

Limiter == INSTANCE RateLimiter WITH Process <- Servers, MaxTime <- LimiterTime

\* PayloadCache, where Home[c] is the process of a caller
CONSTANTS Caller, Home, Forced, Ttl, Second, MaxTaken, MaxClock, NoPayload

VARIABLES clock, redis, memory, call

Cache == INSTANCE PayloadCache WITH ProcessOf <- Home

\* HealthBoard
CONSTANTS Jobs, ZeroIsFine, StaleAfter, Measured, Absent, MaxCount, LastTime, MaxJobs

VARIABLES today, working, beat, stored, panel, alive, broken

Health == INSTANCE HealthBoard WITH
  MaxTime <- LastTime, now <- today, job <- working, rows <- stored, failed <- broken

\* FlagBoard
CONSTANTS Facts, SportsCategory, Limits, CandidateLimit, Sample, Histories, MaxMove

VARIABLES tape, flag, copies, list, moves

Board == INSTANCE FlagBoard WITH evidence <- copies, request <- list

\* MarketScopes
CONSTANTS Spellings, Lower, Closes, Dates, NoDay, Zones, StaleHours, LastHour

VARIABLES hour, zone, listed, answer

Scope == INSTANCE MarketScopes WITH
  StaleAfter <- StaleHours, MaxHour <- LastHour, Null <- Absent, market <- listed

\* SearchDesk
CONSTANTS Markets, Articles, Early, Batch, CutOff, Results, Scopes, Hits, Direct, Profile,
          Link, Telling

VARIABLES hydrated, seen, exist, docs, visible, rebuild, query, promised

Desk == INSTANCE SearchDesk WITH None <- Absent, Limit <- Results, request <- query

limiterVars == <<time, shared, local, counter, failed, req, made, allowed, refused, late,
                 lost, failures>>
cacheVars == <<clock, redis, memory, call>>
healthVars == <<today, working, beat, stored, panel, alive, broken>>
boardVars == <<tape, flag, copies, list, moves>>
scopeVars == <<hour, zone, listed, answer>>
deskVars == <<hydrated, seen, exist, docs, visible, rebuild, query, promised>>
apiVars == <<limiterVars, cacheVars, healthVars, boardVars, scopeVars, deskVars>>

----------------------------------------------------------------------------
(* What the parts promise, as their modules state and explain it            *)

\* Nobody is refused within the limit: RateLimiter.
NoFalseRefusal == Limiter!NoFalseRefusal

\* Each counter lets through at most the limit: RateLimiter.
LimitHolds == Limiter!LimitHolds

\* No payload outlives its time to live: PayloadCache.
PayloadAge == Cache!PayloadAge

\* A healthy entry of the panel vouches for its job: HealthBoard.
HealthHonest == Health!HealthHonest

\* The list of suspicious trades misses nothing: FlagBoard.
BoardComplete == Board!BoardComplete

\* The list is short only where it has to be: FlagBoard.
ListFills == Board!ListFills

\* The lists of active and historical markets and the labels in them: MarketScopes.
ScopesAgree == Scope!ScopesAgree

\* A search finds what it owes: SearchDesk.
FoundSinceRebuild == Desk!FoundSinceRebuild
=============================================================================
