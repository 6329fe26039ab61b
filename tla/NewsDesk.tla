------------------------------- MODULE NewsDesk -------------------------------
(* The news pipeline (run_news_surveillance_pipeline.py): a cycle refreshes  *)
(* market profiles, stores the articles of the feeds, links one article of   *)
(* each story to the markets it passes for, and scores the links against the *)
(* trades before the news; and the scripts that relink stored articles and   *)
(* revalidate links (news_link_maintenance.py).                              *)
(*                                                                           *)
(* Whether an article passes for a market depends on the market's profile,   *)
(* hence on the metadata it was made from: Links. The score of a link        *)
(* depends on trades and flags, of which the model takes any. The ingest is  *)
(* one transaction, whose upserts take effect with its commit.               *)
EXTENDS Integers, FiniteSets, Sequences, SequencesExt

CONSTANTS
  Market, Article,
  Story,        \* article -> its story: near-duplicates cluster
  Rank,         \* article -> how well it represents its story
  Links,        \* {<<article, market, revision>>}: what passes scorer and gate
  Weak,         \* what passes with the lower --min-relevance a script may be given
  MaxMarkets,   \* profiles refreshed per cycle
  MaxProfiles,  \* profiles loaded for linking
  MaxEvents,    \* links scored per cycle
  BatchSize,    \* links scored per commit
  CheckLimit,   \* links revalidated per run
  Scores,       \* scores a link may get
  MaxRevision,  \* bound: changes of metadata
  MaxUpset,     \* bound: failures and runs of the scripts
  NoRow         \* no row

SignalScore == 4
StrongScore == 7
CaseScore == 7

VARIABLES
  meta,      \* market -> stamp of the last change of its metadata, 0 for a stub
  profile,   \* market -> [rev, at]: metadata it was made from, batch it came with
  stored,    \* rows of news_articles
  event,     \* <<article, market>> -> its row in news_events, or NoRow
  ids,       \* the links in the order of their ids
  cases,     \* links with a row in case_evidence
  caseTier,  \* markets promoted to case
  stage,     \* of the cycle
  tx,        \* profiles the open ingest transaction has written: market -> rev
  after,     \* rows of the correlation loop so far
  hand,      \* links in the open batch: link -> score
  left,      \* links the loop may still take
  upsets

vars == <<meta, profile, stored, event, ids, cases, caseTier, stage, tx,
          after, hand, left, upsets>>

Link == Article \X Market
Event == [status : {"candidate", "no_pre_news_signal", "pre_news_signal",
                    "strong_pre_news_signal"},
          score : Scores \cup {0}, weak : BOOLEAN]
Nothing == [x \in {} |-> 0]
Tables == <<profile, stored, event, ids, cases, caseTier>>

Init ==
  /\ meta = [m \in Market |-> 0]
  /\ profile = [m \in Market |-> [rev |-> 0, at |-> 0]]
  /\ stored = {}
  /\ event = [l \in Link |-> NoRow] /\ ids = <<>>
  /\ cases = {} /\ caseTier = {}
  /\ stage = "sleep" /\ tx = Nothing
  /\ after = {} /\ hand = Nothing /\ left = 0
  /\ upsets = 0

(* ---- Profiles ---------------------------------------------------------- *)

Hydrated == {m \in Market : meta[m] # 0}
Missing(m) == profile[m].rev = 0

\* Mutant: the newest profiles first.
RefreshedBefore_Newest(m, n) ==
  \/ Missing(m) /\ ~Missing(n)
  \/ Missing(m) = Missing(n) /\ profile[m].at > profile[n].at
  \/ Missing(m) = Missing(n) /\ profile[m].at = profile[n].at /\ meta[m] > meta[n]

\* ORDER BY missing first, updated_at, Market.updated_at DESC.
RefreshedBefore(m, n) ==
  \/ Missing(m) /\ ~Missing(n)
  \/ Missing(m) = Missing(n) /\ profile[m].at < profile[n].at
  \/ Missing(m) = Missing(n) /\ profile[m].at = profile[n].at /\ meta[m] > meta[n]

First(S, max, Before(_, _)) ==
  {m \in S : Cardinality({n \in S : Before(n, m)}) < max}

\* ON CONFLICT sets every column but updated_at, which has no trigger.
Upserted(revs) ==
  LET Batches == {profile[m].at : m \in Market}
      Newest == CHOOSE b \in Batches : \A c \in Batches : c <= b
  IN [m \in Market |->
        IF m \notin DOMAIN revs THEN profile[m]
        ELSE [rev |-> revs[m], at |-> IF Missing(m) THEN Newest + 1 ELSE profile[m].at]]

(* ---- Linking ----------------------------------------------------------- *)

\* One article of each story of the batch.
Representatives(batch) ==
  {a \in batch : \A b \in batch : Story[b] = Story[a] => Rank[b] <= Rank[a]}

LoadedProfiles(p) ==
  First({m \in Market : p[m].rev # 0}, MaxProfiles, LAMBDA m, n : p[m].at > p[n].at)

\* What passes for the pipeline, and what may for a script.
Bars == {Links, Links \cup Weak}

\* The links of articles by the profiles p that pass the bar.
Passing(articles, p, bar) ==
  {l \in articles \X LoadedProfiles(p) : <<l[1], l[2], p[l[2]].rev>> \in bar}

\* record_news_market_candidate: on conflict the score goes and the status stays. A
\* link is weak when its relevance_score is below the bar of the pipeline.
Candidate(l, p) ==
  [status |-> IF event[l] = NoRow THEN "candidate" ELSE event[l].status,
   score |-> 0, weak |-> <<l[1], l[2], p[l[2]].rev>> \notin Links]

WriteLinks(S, p) ==
  /\ event' = [l \in Link |-> IF l \in S THEN Candidate(l, p) ELSE event[l]]
  /\ ids' = ids \o SetToSeq({l \in S : event[l] = NoRow})

(* ---- A cycle ----------------------------------------------------------- *)

StartIngest ==
  /\ stage = "sleep" /\ stage' = "ingest"
  /\ tx' = [m \in First(Hydrated, MaxMarkets, RefreshedBefore) |-> meta[m]]
  /\ UNCHANGED <<Tables, meta, after, hand, left, upsets>>

\* The feeds give any of the articles: they fail, and the look-back moves on. The
\* flag stage in between is TapeRetention's.
CommitIngest(fetched) ==
  /\ stage = "ingest" /\ stage' = "correlate"
  /\ profile' = Upserted(tx)
  /\ stored' = stored \cup fetched
  /\ WriteLinks(Passing(Representatives(fetched), Upserted(tx), Links), Upserted(tx))
  /\ tx' = Nothing /\ after' = {} /\ left' = MaxEvents
  /\ UNCHANGED <<cases, caseTier, meta, hand, upsets>>

\* Any stage raises: the cycle ends, and with it the process, until a restart.
StageFails ==
  /\ stage # "sleep" /\ upsets < MaxUpset
  /\ stage' = "sleep" /\ upsets' = upsets + 1
  /\ tx' = Nothing /\ hand' = Nothing /\ after' = {} /\ left' = 0
  /\ UNCHANGED <<Tables, meta>>

(* ---- Scoring of links -------------------------------------------------- *)

\* Mutant: links of any status, as if rescoring.
Pending_All == SelectSeq(ids, LAMBDA l : l \notin after)

\* Candidates behind the last id of this loop, by the bar of the pipeline.
Pending ==
  SelectSeq(ids, LAMBDA l : l \notin after /\ event[l].status = "candidate" /\ ~event[l].weak)

Smaller(a, b) == IF a < b THEN a ELSE b

\* after_event_id: everything up to the last link of the batch.
UpTo(l) == {ids[i] : i \in {i \in DOMAIN ids : \E j \in i .. Len(ids) : ids[j] = l}}

LoadBatch ==
  /\ stage = "correlate" /\ hand = Nothing /\ left > 0 /\ Pending # <<>>
  /\ LET batch == SubSeq(Pending, 1, Smaller(Len(Pending), Smaller(BatchSize, left)))
     IN /\ hand' \in [Range(batch) -> Scores]
        /\ after' = after \cup UpTo(Last(batch))
        /\ left' = left - Len(batch)
  /\ UNCHANGED <<Tables, meta, stage, tx, upsets>>

StatusForScore(s) ==
  IF s >= StrongScore THEN "strong_pre_news_signal"
  ELSE IF s >= SignalScore THEN "pre_news_signal" ELSE "no_pre_news_signal"

\* Mutant: a market that is a case already gets no further case row.
Promoted_NewMarkets ==
  {l \in DOMAIN hand : hand[l] >= CaseScore /\ l[2] \notin caseTier}

Promoted == {l \in DOMAIN hand : hand[l] >= CaseScore}

\* The rows of the batch are those that were loaded: revalidation takes a row it
\* deletes out of after, where a new row of the same link does not return.
Standing == DOMAIN hand \subseteq {l \in after : event[l] # NoRow}

CommitBatch ==
  /\ hand # Nothing /\ hand' = Nothing
  /\ Standing
  /\ event' = [l \in Link |->
                 IF l \notin DOMAIN hand THEN event[l]
                 ELSE [event[l] EXCEPT !.status = StatusForScore(hand[l]), !.score = hand[l]]]
  /\ cases' = cases \cup Promoted
  /\ caseTier' = caseTier \cup {l[2] : l \in Promoted}
  /\ UNCHANGED <<profile, stored, ids, meta, stage, tx, after, left, upsets>>

\* A row was deleted under the batch: StaleDataError.
BatchStale ==
  /\ ~Standing
  /\ stage' = "sleep" /\ hand' = Nothing /\ after' = {} /\ left' = 0
  /\ UNCHANGED <<Tables, meta, tx, upsets>>

EndCycle ==
  /\ stage = "correlate" /\ hand = Nothing
  /\ left = 0 \/ Pending = <<>>
  /\ stage' = "sleep" /\ after' = {} /\ left' = 0
  /\ UNCHANGED <<Tables, meta, tx, hand, upsets>>

(* ---- Scripts and the world --------------------------------------------- *)

\* revalidate_stored_news_links looks at the oldest links and judges them by
\* the metadata of now; what it keeps keeps its score, with the relevance of now.
Revalidate(bar) ==
  /\ upsets < MaxUpset /\ upsets' = upsets + 1
  /\ LET Passes(l, b) == <<l[1], l[2], meta[l[2]]>> \in b
         checked == Range(SubSeq(ids, 1, Smaller(Len(ids), CheckLimit)))
         failed == {l \in checked : ~Passes(l, bar)}
     IN /\ event' = [l \in Link |->
                        IF event[l] = NoRow \/ l \in failed THEN NoRow
                        ELSE IF l \in checked THEN [event[l] EXCEPT !.weak = ~Passes(l, Links)]
                        ELSE event[l]]
        /\ ids' = SelectSeq(ids, LAMBDA l : l \notin failed)
        /\ after' = after \ failed
  /\ UNCHANGED <<profile, stored, cases, caseTier, meta, stage, tx, hand, left>>

\* relink_stored_articles: every stored article, clustered or not. It waits
\* for the profiles an open ingest has written.
Relink(bar) ==
  /\ stage # "ingest" /\ upsets < MaxUpset /\ upsets' = upsets + 1
  /\ LET revs == [m \in First(Hydrated, MaxMarkets, RefreshedBefore) |-> meta[m]]
     IN /\ profile' = Upserted(revs)
        /\ WriteLinks(Passing(stored, Upserted(revs), bar), Upserted(revs))
  /\ UNCHANGED <<stored, cases, caseTier, meta, stage, tx, after, hand, left>>

Revise(m) ==
  /\ \E r \in 1 .. MaxRevision :
       /\ \A n \in Market : meta[n] < r /\ (r > 1 => \E k \in Market : meta[k] = r - 1)
       /\ meta' = [meta EXCEPT ![m] = r]
  /\ UNCHANGED <<Tables, stage, tx, after, hand, left, upsets>>

Cycle ==
  \/ StartIngest \/ \E fetched \in SUBSET Article : CommitIngest(fetched)
  \/ LoadBatch \/ CommitBatch \/ BatchStale \/ EndCycle

Next ==
  \/ Cycle \/ StageFails \/ \E bar \in Bars : Revalidate(bar) \/ Relink(bar)
  \/ \E m \in Market : Revise(m)

\* The watch loop runs on, and is restarted when it fails.
Spec == Init /\ [][Next]_vars
FairSpec == Spec /\ WF_vars(Cycle)

(* ---- Properties -------------------------------------------------------- *)

\* A link whose status says signal has the score of one: what
\* tests/test_news_trade_correlation.py asserts of a finished run.
SignalScored ==
  \A l \in Link :
    event[l] # NoRow =>
      (event[l].status \in {"pre_news_signal", "strong_pre_news_signal"}
         => event[l].score >= SignalScore)

\* A link that was ever scored as strong has its case_evidence row and its
\* market was promoted, whatever relinking did to the link since
\* (_promote_news_event_if_needed).
StrongHasCase ==
  \A l \in Link :
    event[l] # NoRow =>
      (event[l].status = "strong_pre_news_signal" => l \in cases /\ l[2] \in caseTier)

\* No candidate is left unscored for ever, though a cycle takes few of them,
\* cycles fail and links are deleted under a batch: only one that a script has let
\* in below the bar of the pipeline.
CandidatesScored ==
  \A l \in Link :
    (event[l] # NoRow /\ event[l].status = "candidate")
      ~> (IF event[l] = NoRow THEN TRUE ELSE event[l].status # "candidate" \/ event[l].weak)

Older(m) == {n \in Market \ {m} : profile[n].at <= profile[m].at}

\* A market's profile follows its metadata in the end, unless as many
\* profiles as a cycle refreshes are no younger than it: those are refreshed
\* again and again, because a refresh does not make a profile younger.
ProfilesFollow ==
  \A m \in Market :
    (meta[m] # profile[m].rev)
      ~> (meta[m] = profile[m].rev \/ Cardinality(Older(m)) >= MaxMarkets)
=============================================================================
