----------------------------- MODULE SearchDesk ------------------------------
(***************************************************************************)
(* Search for markets and news: app/services/search_index.py and           *)
(* scripts/rebuild_search_index.py.                                        *)
(*                                                                         *)
(* A rebuild pages through the markets and the articles with OFFSET, each  *)
(* page a statement of its own, and posts every page to OpenSearch; rows   *)
(* join the tables while it pages.  It is the only writer of the indexes,  *)
(* puts documents by the id of their row, and takes none away; a search    *)
(* sees those that were there when OpenSearch refreshed the index last.    *)
(* A search asks OpenSearch for markets and then for news, and starts      *)
(* again in PostgreSQL when anything on the way fails.  Markets are        *)
(* numbered by id, articles by the order in which they were first seen,    *)
(* and are never deleted.  A market that is hydrated stays so, except when *)
(* its item comes without a title (HydratedStays of MarketDirectory), and  *)
(* such items are left out: a row that drops out of the list pulls the     *)
(* later ones over the edge of a page.  What matches the query is a        *)
(* constant; the order in which results are shown is left out, and so is   *)
(* the freshness of the figures in a document, those of the last rebuild.  *)
(***************************************************************************)
EXTENDS Integers, Sequences, FiniteSets, SequencesExt

CONSTANTS
  Markets,       \* bound: markets are 1 .. Markets
  Articles,      \* bound: articles are 1 .. Articles
  Early,         \* which markets may be hydrated at first
  Batch,         \* batch_size of the rebuild
  CutOff,        \* limits for an index given to a rebuild, or None; 0 skips it
  None,
  Limit,         \* limit of a search
  Scopes,        \* among "all", "markets" and "news"
  Hits,          \* markets and news that OpenSearch finds for the query
  Direct,        \* markets and news that contain the query: ILIKE
  Profile,       \* markets whose profile fits the query, best first, one each
  Link,          \* pairs of an article and a market of a relevant link, best first
  Telling        \* articles whose own words answer the query

MarketIds == 1 .. Markets
Article == 1 .. Articles
Kinds == {"markets", "news"}

DeskConstants ==
  /\ Markets \in Nat /\ Articles \in Nat \ {0} /\ Early \subseteq SUBSET MarketIds
  /\ Batch \in Nat \ {0} /\ Limit \in Nat
  /\ Profile \in Seq(MarketIds) /\ Link \in Seq(Article \X MarketIds)
  /\ \A i, j \in DOMAIN Profile : i # j => Profile[i] # Profile[j]

VARIABLES
  hydrated,  \* markets with a status and a title of their own
  seen,      \* articles 1 .. seen have been ingested
  exist,     \* whether the indexes exist
  docs,      \* documents of either index
  visible,   \* those of them that a search may find
  rebuild,   \* the rebuild under way
  request,   \* the search under way
  promised   \* history: rows that were there when the last full rebuild of an index began

vars == <<hydrated, seen, exist, docs, visible, rebuild, request, promised>>

Nothing == [kind \in Kinds |-> {}]
Idle == [at |-> "idle"]

Init ==
  /\ hydrated \in Early /\ seen = 1
  /\ exist = FALSE /\ docs = Nothing /\ visible = Nothing /\ promised = Nothing
  /\ rebuild = Idle /\ request = Idle

Rows == [kind \in Kinds |-> IF kind = "markets" THEN hydrated ELSE 1 .. seen]

\* _hydrate_markets gives a stub its title; the ingest stores an article.
Hydrate(m) ==
  /\ m \notin hydrated /\ hydrated' = hydrated \union {m}
  /\ UNCHANGED <<seen, exist, docs, visible, rebuild, request, promised>>

Ingest ==
  /\ seen < Articles /\ seen' = seen + 1
  /\ UNCHANGED <<hydrated, exist, docs, visible, rebuild, request, promised>>

----------------------------------------------------------------------------
(* The rebuild                                                              *)

\* The first page of an index, with or without a limit.
Begin(kind) ==
  \E cut \in CutOff :
    rebuild' = [at |-> kind, offset |-> 0, cut |-> cut, page |-> {}, due |-> Rows[kind]]

\* ensure_search_indexes
StartRebuild ==
  /\ rebuild = Idle /\ exist' = TRUE
  /\ Begin("markets")
  /\ UNCHANGED <<hydrated, seen, docs, visible, request, promised>>

\* How many rows a statement lists before a row: markets by id, articles by the time
\* they were first seen, newest first.
Place(kind, r) ==
  Cardinality({s \in Rows[kind] : IF kind = "markets" THEN s < r ELSE s > r})

PageSize ==
  IF rebuild.cut = None \/ rebuild.cut - rebuild.offset > Batch THEN Batch
  ELSE IF rebuild.cut < rebuild.offset THEN 0 ELSE rebuild.cut - rebuild.offset

Page ==
  {r \in Rows[rebuild.at] :
     Place(rebuild.at, r) \in rebuild.offset .. rebuild.offset + PageSize - 1}

ReadPage ==
  /\ rebuild.at \in Kinds /\ rebuild.page = {} /\ Page # {}
  /\ rebuild' = [rebuild EXCEPT !.page = Page]
  /\ UNCHANGED <<hydrated, seen, exist, docs, visible, request, promised>>

\* _bulk_index; documents are put by id.
PostPage ==
  /\ rebuild.at \in Kinds /\ rebuild.page # {}
  /\ docs' = [docs EXCEPT ![rebuild.at] = @ \union rebuild.page]
  /\ rebuild' = [rebuild EXCEPT !.offset = @ + Cardinality(rebuild.page), !.page = {}]
  /\ UNCHANGED <<hydrated, seen, exist, visible, request, promised>>

\* An empty page, or nothing left of the limit.
EndPages ==
  /\ rebuild.at \in Kinds /\ rebuild.page = {} /\ Page = {}
  /\ IF rebuild.at = "markets" THEN Begin("news") ELSE rebuild' = Idle
  /\ promised' = IF rebuild.cut = None THEN [promised EXCEPT ![rebuild.at] = rebuild.due]
                 ELSE promised
  /\ UNCHANGED <<hydrated, seen, exist, docs, visible, request>>

\* OpenSearch fails, or refuses a part of a page: what was put before stays.
FailRebuild ==
  /\ rebuild # Idle /\ rebuild' = Idle
  /\ \E part \in SUBSET rebuild.page :
       docs' = [docs EXCEPT ![rebuild.at] = @ \union part]
  /\ UNCHANGED <<hydrated, seen, exist, visible, request, promised>>

\* OpenSearch refreshes an index by itself, now and then: _bulk does not ask for it.
Refresh(kind) ==
  /\ visible[kind] # docs[kind]
  /\ visible' = [visible EXCEPT ![kind] = docs[kind]]
  /\ UNCHANGED <<hydrated, seen, exist, docs, rebuild, request, promised>>

\* Documents that wait for it.
Hidden == [kind \in Kinds |-> docs[kind] \ visible[kind]]

----------------------------------------------------------------------------
(* A search in OpenSearch                                                   *)

\* Any Limit best of what is found; the scores are OpenSearch's.
Best(found) ==
  IF Cardinality(found) <= Limit THEN {found}
  ELSE {best \in SUBSET found : Cardinality(best) = Limit}

Search ==
  /\ request = Idle
  /\ \E scope \in Scopes :
       request' = [at |-> "markets", provider |-> "opensearch", scope |-> scope,
                   markets |-> <<>>, news |-> <<>>, full |-> FALSE,
                   rows |-> Rows,
                   promised |-> [kind \in Kinds |-> promised[kind] \ Hidden[kind]]]
  /\ UNCHANGED <<hydrated, seen, exist, docs, visible, rebuild, promised>>

Asked(kind) == request.scope \in {"all", kind}

AskIndex(kind, next) ==
  /\ request.at = kind /\ request.provider = "opensearch" /\ (Asked(kind) => exist)
  /\ \E found \in IF Asked(kind) THEN Best(visible[kind] \intersect Hits[kind]) ELSE {{}} :
       request' = [request EXCEPT !.at = next, ![kind] = SetToSeq(found),
                                  !.full = IF kind = "news" THEN Cardinality(found) = Limit
                                           ELSE @]
  /\ UNCHANGED <<hydrated, seen, exist, docs, visible, rebuild, promised>>

\* Mutant: what OpenSearch answered before it failed is kept.
FallenBack_Keeps(r) == [r EXCEPT !.at = "markets", !.provider = "postgres"]

\* The second attempt starts from nothing.
FallenBack(r) ==
  [r EXCEPT !.at = "markets", !.provider = "postgres", !.markets = <<>>, !.news = <<>>,
            !.full = FALSE]

\* An error, or a search before the first rebuild made the indexes.
FallBack ==
  /\ request.at \in {"markets", "news", "linked"} /\ request.provider = "opensearch"
  /\ request' = FallenBack(request)
  /\ UNCHANGED <<hydrated, seen, exist, docs, visible, rebuild, promised>>

----------------------------------------------------------------------------
(* A search in PostgreSQL                                                   *)

\* The first n of places in a list.
First(places, n) == {i \in places : Cardinality({j \in places : j < i}) < n}

\* The markets of the 3 * n profiles that fit best, without those already shown.
Related(shown, n) ==
  LET best == First({i \in DOMAIN Profile : Profile[i] \in hydrated}, 3 * n)
  IN {Profile[i] : i \in First({i \in best : Profile[i] \notin shown}, n)}

\* _direct_market_search, then _profile_related_market_search for the rest.
SearchMarkets ==
  /\ request.at = "markets" /\ request.provider = "postgres"
  /\ \E found \in IF Asked("markets") THEN Best(hydrated \intersect Direct.markets) ELSE {{}} :
       LET rest == IF Asked("markets") THEN Limit - Cardinality(found) ELSE 0
       IN request' = [request EXCEPT !.at = "news",
                        !.markets = @ \o SetToSeq(found) \o SetToSeq(Related(found, rest))]
  /\ UNCHANGED <<hydrated, seen, exist, docs, visible, rebuild, promised>>

\* _news_from_related_markets: articles linked to the markets, at most four times as
\* many links as there is room.
Linked(markets, shown, n) ==
  LET some == First({i \in DOMAIN Link : Link[i][1] <= seen /\ Link[i][2] \in markets}, 4 * n)
      new == {i \in some : /\ Link[i][1] \notin shown
                           /\ \A j \in some : j < i => Link[j][1] # Link[i][1]}
  IN {Link[i][1] : i \in First(new, n)}

\* _direct_news_search, then the news of the markets found, or of related ones.
SearchNews ==
  /\ request.at = "news" /\ request.provider = "postgres"
  /\ LET matching == {a \in 1 .. seen : a \in Direct.news}
         found == {a \in matching : Cardinality({b \in matching : b > a}) < Limit}
         rest == Limit - Cardinality(found)
         seeds == IF request.markets # <<>> THEN ToSet(request.markets)
                  ELSE Related({}, Limit)
         all == SetToSeq(found) \o SetToSeq(Linked(seeds, found, rest))
     IN request' = IF Asked("news")
                     THEN [request EXCEPT !.at = "linked", !.news = @ \o all,
                                          !.full = Cardinality(found) = Limit]
                     ELSE [request EXCEPT !.at = "answered"]
  /\ UNCHANGED <<hydrated, seen, exist, docs, visible, rebuild, promised>>

\* Articles that answer the query by their words or those of a linked market; linked
\* markets are left out when they cannot be read: _attach_linked_markets.
Answering(attached) ==
  {a \in Article :
     \/ a \in Telling
     \/ attached /\ \E l \in ToSet(Link) : l[1] = a /\ l[2] \in hydrated \intersect Direct.markets}

\* _filter_news_results_for_query
Filter ==
  /\ request.at = "linked"
  /\ \E attached \in BOOLEAN :
       LET Keep(list, a) == IF a \in Answering(attached) THEN Append(list, a) ELSE list
       IN request' = [request EXCEPT !.at = "answered", !.news = FoldLeft(Keep, <<>>, @)]
  /\ UNCHANGED <<hydrated, seen, exist, docs, visible, rebuild, promised>>

Answered == request.at = "answered"

Respond ==
  /\ Answered /\ request' = Idle
  /\ UNCHANGED <<hydrated, seen, exist, docs, visible, rebuild, promised>>

\* Nothing that happens after the last query changes the response.
Next ==
  \/ /\ ~Answered
     /\ \/ Ingest \/ \E m \in MarketIds : Hydrate(m)
        \/ StartRebuild \/ ReadPage \/ PostPage \/ EndPages \/ FailRebuild
        \/ \E kind \in Kinds : Refresh(kind)
        \/ Search \/ AskIndex("markets", "news") \/ AskIndex("news", "linked") \/ FallBack
        \/ SearchMarkets \/ SearchNews \/ Filter
  \/ Respond

Spec == Init /\ [][Next]_vars

----------------------------------------------------------------------------
(* Properties                                                               *)

\* What a search must find of the rows of a kind.
Owed(kind) ==
  IF request.provider = "opensearch" THEN request.promised[kind] \intersect Hits[kind]
  ELSE request.rows[kind] \intersect Direct[kind]

\* A search shows a row once, at most Limit of each kind, and, while it has room,
\* everything it owes: from PostgreSQL each row that contained the query when the
\* search began, and from OpenSearch each match that was there when the last full
\* rebuild of its index began, unless its document waits for a refresh, however the
\* tables grew under the pages and whatever failed since.
\* bulk_index_markets, bulk_index_news, dashboard_search.
FoundSinceRebuild ==
  Answered =>
    /\ \A kind \in Kinds :
         /\ Len(request[kind]) <= Limit
         /\ Cardinality(ToSet(request[kind])) = Len(request[kind])
    /\ Asked("markets") =>
         Len(request.markets) = Limit \/ Owed("markets") \subseteq ToSet(request.markets)
    /\ Asked("news") =>
         request.full \/ Owed("news") \intersect Telling \subseteq ToSet(request.news)
=============================================================================
