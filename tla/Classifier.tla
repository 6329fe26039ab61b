----------------------------- MODULE Classifier ------------------------------
(***************************************************************************)
(* The layered market classifier, app/services/classifier: Kalshi's own    *)
(* metadata, prefix rules, a vote of similar labelled titles and a         *)
(* language model are asked in turn, and the first verdict that is not of  *)
(* low confidence is taken. A verdict gets its manipulability prior from   *)
(* its class. The tables of rules, labels and priors are constants; a      *)
(* class is a pair <<category, subcategory>>. None also stands for an      *)
(* empty string, on which every layer acts as on a missing one; on a title *)
(* of blanks the last two layers do.                                       *)
(***************************************************************************)
EXTENDS Integers, Sequences, FiniteSetsExt

CONSTANTS
  None,
  Blank,         \* titles of blanks
  TagRules,      \* sequence of [needle, class], the first that matches wins
  CategoryMap,   \* Kalshi's category -> class
  Rules,         \* sequence of [matches : set of <<ticker, title>>, class]
  Seeds,         \* sequence of the classes of the labelled titles
  Similarity,    \* Similarity[title][seed], the cosine in hundredths
  K,             \* how many neighbours vote
  Vocabulary,    \* category -> its subcategories, for the language model
  PriorMap       \* class -> prior, with an entry for Unclassified

Unclassified == <<"other", "unclassified">>

\* Classification, without its prior, rule text and tags.
Verdict(layer, class, confidence) ==
  [layer |-> layer, class |-> class, confidence |-> confidence]

Earliest(hits) == CHOOSE i \in hits : \A j \in hits : i <= j

(***************************************************************************)
(* Layer 1: metadata of a raw market. Layer 2: prefix and regex rules.     *)
(***************************************************************************)
\* market.tags is the set of the needles that occur in its tags.
ClassifyViaKalshi(market) ==
  LET hits == {i \in 1 .. Len(TagRules) : TagRules[i].needle \in market.tags}
  IN IF hits # {}
     THEN Verdict("kalshi_taxonomy", TagRules[Earliest(hits)].class, "high")
     ELSE IF market.category \in DOMAIN CategoryMap
     THEN Verdict("kalshi_taxonomy", CategoryMap[market.category], "high")
     ELSE None

ClassifyViaRules(ticker, title) ==
  LET hits == {i \in 1 .. Len(Rules) : <<ticker, title>> \in Rules[i].matches}
  IN IF hits # {} THEN Verdict("prefix_rule", Rules[Earliest(hits)].class, "high") ELSE None

(***************************************************************************)
(* Layer 3: the K most similar seeds vote with their similarity.           *)
(***************************************************************************)
\* The stable sort by descending similarity.
Nearer(title, i, j) ==
  \/ Similarity[title][i] > Similarity[title][j]
  \/ Similarity[title][i] = Similarity[title][j] /\ i < j

Rank(title, i) == Cardinality({j \in 1 .. Len(Seeds) : Nearer(title, j, i)})

Neighbours(title) == {i \in 1 .. Len(Seeds) : Rank(title, i) < K}

Votes(title, seeds) == MapThenSumSet(LAMBDA i : Similarity[title][i], seeds)

Weight(title, class) == Votes(title, {i \in Neighbours(title) : Seeds[i] = class})

\* max() over the dictionary of votes: of equal classes the one met first.
Winner(title) ==
  CHOOSE i \in Neighbours(title) : \A j \in Neighbours(title) \ {i} :
    \/ Weight(title, Seeds[i]) > Weight(title, Seeds[j])
    \/ Weight(title, Seeds[i]) = Weight(title, Seeds[j]) /\ Nearer(title, i, j)

Top(title) == CHOOSE i \in Neighbours(title) : Rank(title, i) = 0

KnnConfidence(share, total, top) ==
  IF 10 * share >= 7 * total \/ top >= 95 THEN "high"
  ELSE IF 10 * share >= 4 * total THEN "medium" ELSE "low"

ClassifyViaKnn(title) ==
  LET top == Top(title)
  IN IF title \in Blank \/ Seeds = << >> THEN None
     ELSE IF Similarity[title][top] < 5 THEN Verdict("knn_embedding", Seeds[top], "low")
     ELSE Verdict("knn_embedding", Seeds[Winner(title)],
                  KnnConfidence(Weight(title, Seeds[Winner(title)]),
                                Votes(title, Neighbours(title)), Similarity[title][top]))

(***************************************************************************)
(* Layer 4: a language model, whose answer is held against the vocabulary. *)
(***************************************************************************)
\* An answer is None or [category, subcategory]; a category that is no text is None.
Coerce(raw) ==
  LET sub == IF raw.subcategory = None THEN "*" ELSE raw.subcategory
  IN IF raw.category = None THEN None
     ELSE IF raw.category \notin DOMAIN Vocabulary
     THEN Verdict("llm_zero_shot", Unclassified, "low")
     ELSE IF sub \in Vocabulary[raw.category]
     THEN Verdict("llm_zero_shot", <<raw.category, sub>>, "medium")
     ELSE Verdict("llm_zero_shot", <<raw.category, "*">>, "low")

\* A title of blanks is not asked about. No daemon, an HTTP error, no JSON or no JSON
\* object: the answer is None.
\* llm[title][subtitle] is what the model answers; NullLLMClassifier never does.
AskModel(llm, title, subtitle) ==
  IF title \in Blank \/ llm[title][subtitle] = None THEN None ELSE Coerce(llm[title][subtitle])

(***************************************************************************)
(* The orchestrator.                                                       *)
(***************************************************************************)
ConfidenceRank(v) ==
  IF v.confidence = "high" THEN 2 ELSE IF v.confidence = "medium" THEN 1 ELSE 0

Better(a, b) ==
  IF a = None THEN b
  ELSE IF b = None THEN a
  ELSE IF ConfidenceRank(b) >= ConfidenceRank(a) THEN b ELSE a

Confident(v) == v # None /\ v.confidence # "low"

PriorFor(class) ==
  IF class \in DOMAIN PriorMap THEN PriorMap[class]
  ELSE IF <<class[1], "*">> \in DOMAIN PriorMap THEN PriorMap[<<class[1], "*">>]
  ELSE PriorMap[Unclassified]

Promoting == {"high", "medium_high"}

\* No layer sets a prior of its own.
AttachPrior(v) ==
  [verdict |-> v,
   prior |-> IF v.confidence = "low" /\ PriorFor(v.class) \in Promoting
             THEN "medium" ELSE PriorFor(v.class)]

Fallback == Verdict("fallback", Unclassified, "low")

\* The three layers that run without the raw payload, and then the fallback.
Decide(best, rules, knn, model) ==
  LET last == Better(Better(Better(best, rules), knn), model)
  IN IF Confident(rules) THEN rules
     ELSE IF Confident(knn) THEN knn
     ELSE IF Confident(model) THEN model
     ELSE IF last = None THEN Fallback ELSE last

ClassifyFrom(best, ticker, title, subtitle, llm) ==
  AttachPrior(Decide(best,
                     IF ticker = None THEN None ELSE ClassifyViaRules(ticker, title),
                     IF title = None THEN None ELSE ClassifyViaKnn(title),
                     IF title = None THEN None ELSE AskModel(llm, title, subtitle)))

\* classify(ticker=..., title=...) for a stub, classify(market=...) for a payload.
ClassifyStub(ticker, title, subtitle, llm) == ClassifyFrom(None, ticker, title, subtitle, llm)

ClassifyRaw(market, llm) ==
  LET kalshi == ClassifyViaKalshi(market)
  IN IF Confident(kalshi) THEN AttachPrior(kalshi)
     ELSE ClassifyFrom(Better(None, kalshi), market.ticker, market.title, market.subtitle, llm)

(***************************************************************************)
(* What a caller relies on.                                                *)
(***************************************************************************)
\* The verdict that the order of the layers calls for.
Chosen(verdicts, v) ==
  IF \E i \in DOMAIN verdicts : Confident(verdicts[i])
  THEN \E i \in DOMAIN verdicts :
         /\ v = verdicts[i] /\ Confident(v)
         /\ \A j \in 1 .. i - 1 : ~Confident(verdicts[j])
  ELSE IF \E i \in DOMAIN verdicts : verdicts[i] # None
  THEN \E i \in DOMAIN verdicts :
         /\ v = verdicts[i] /\ v # None
         /\ \A j \in DOMAIN verdicts : j > i => verdicts[j] = None
  ELSE v = Fallback

\* The layers' verdicts on a raw payload, in the order they are asked.
LayerVerdicts(market, llm) ==
  <<ClassifyViaKalshi(market),
    IF market.ticker = None THEN None ELSE ClassifyViaRules(market.ticker, market.title),
    IF market.title = None THEN None ELSE ClassifyViaKnn(market.title),
    IF market.title = None THEN None ELSE AskModel(llm, market.title, market.subtitle)>>
=============================================================================
