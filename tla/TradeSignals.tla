---------------------------- MODULE TradeSignals ----------------------------
(***************************************************************************)
(* The two things that make a trade a signal: the score of its flag        *)
(* (FlagSweep, whose names this module has) and an article about its       *)
(* market that came after it (NewsDesk). Each writes tables of its own,    *)
(* so each runs by itself.                                                 *)
(***************************************************************************)
EXTENDS FlagSweep

CONSTANTS Market, Article, Story, Rank, Links, Weak, MaxMarkets, MaxProfiles, MaxEvents,
          BatchSize, CheckLimit, Scores, MaxRevision, MaxUpset, NoRow

VARIABLES meta, profile, stored, event, ids, cases, caseTier, stage, tx, after, hand, left,
          upsets

News == INSTANCE NewsDesk

newsVars == <<meta, profile, stored, event, ids, cases, caseTier, stage, tx, after, hand,
              left, upsets>>

\* A link scored as strong has its case: NewsDesk.
StrongHasCase == News!StrongHasCase
=============================================================================
