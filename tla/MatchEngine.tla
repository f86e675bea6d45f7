---------------------------- MODULE MatchEngine ----------------------------
(* MatchingEngine.find_match: the results of a search are scored against   *)
(* the title, ranked, and the first of them is taken if its confidence,    *)
(* raised by the fallback strategies when it is not high, is not too low.  *)
(*                                                                         *)
(* How alike two texts are is given by constants, in hundredths like the   *)
(* weights; confidences are in ten thousandths.  The year filter is left   *)
(* out: no parser sets the year of a query, so filter_by_year returns what *)
(* it is given and every year score is the neutral one.                    *)
EXTENDS Naturals, FiniteSets, SequencesExt

CONSTANTS
  Titles,        \* what may be searched for
  Candidates,    \* what TMDB knows
  Similarity,    \* fuzz.ratio of a title with each title a candidate has
  MediaType,     \* of a candidate
  Popularity,
  Weights,       \* MatchingWeights.scoring_*
  Animation,     \* the candidates that carry the animation genre
  PartOf,      \* PartOf[t]: candidates t is a part of (partial_ratio)
  High, Low, Boost, Full,  \* ConfidenceThresholds and GenreConfig
  NoMatch

ASSUME EngineAssumption ==
  /\ Similarity \in [Titles -> [Candidates -> SUBSET (0 .. 100)]]
  /\ MediaType \in [Candidates -> {"tv", "movie", "unknown"}]
  /\ Popularity \in [Candidates -> Nat]
  /\ Weights \in [title : 0 .. 100, year : 0 .. 100, media_type : 0 .. 100, popularity : 0 .. 100]
  /\ Animation \subseteq Candidates
  /\ PartOf \in [Titles -> SUBSET Candidates]
  /\ {High, Low, Boost, Full} \subseteq Nat
  /\ Low <= High /\ High <= Full

Capped(n) == IF n > Full THEN Full ELSE n

\* The better of the localized and the original title.
TitleScore(title, c) == Max(Similarity[title][c])

YearScore == 50

MediaTypeScore(c) ==
  CASE MediaType[c] = "tv" -> 100 [] MediaType[c] = "movie" -> 70 [] OTHER -> 50

\* A fifth of what the score of a title may be, for a hundred or more.
PopularityBonus(c) == Min({Popularity[c], 100}) \div 5

\* calculate_confidence_score: a candidate that has no title scores nothing.
Score == [title \in Titles |-> [c \in Candidates |->
  IF Similarity[title][c] = {} THEN 0
  ELSE Capped(TitleScore(title, c) * Weights.title + YearScore * Weights.year
              + MediaTypeScore(c) * Weights.media_type + PopularityBonus(c) * Weights.popularity)]]

\* Mutant: the first that TMDB gave is taken.
FirstGiven(title, results) == results[1]

\* The head of sorted(key = (confidence, popularity), reverse = True), which
\* is stable.
Ranking(title, results) ==
  LET score(i) == Score[title][results[i]]
      fame(i)  == Popularity[results[i]]
      Before(i, j) == \/ score(i) > score(j)
                      \/ score(i) = score(j) /\ fame(i) > fame(j)
                      \/ score(i) = score(j) /\ fame(i) = fame(j) /\ i <= j
  IN  results[CHOOSE i \in DOMAIN results : \A j \in DOMAIN results : Before(i, j)]

GenreBoost(c, confidence) ==
  IF c \in Animation THEN Capped(confidence + Boost) ELSE confidence

PartialMatch(title, c, confidence) ==
  IF c \in PartOf[title] THEN Capped(confidence + Boost) ELSE confidence

\* apply_strategies changes confidences, never the order.
Confidence(title, c) ==
  LET scored == Score[title][c]
  IN  IF scored >= High THEN scored
      ELSE PartialMatch(title, c, GenreBoost(c, scored))

\* With the default weights the neutral year and an unknown type alone reach
\* Low: only a candidate without a title falls below it.
Sure(title, c) == Confidence(title, c) >= Low

FindMatch(title, results) ==
  IF results = <<>> THEN NoMatch
  ELSE LET best == Ranking(title, results)
       IN  IF Sure(title, best) THEN best ELSE NoMatch

\* What find_match promises: none of the results is a better one, by its
\* score and then by its fame.
Best(title, results) ==
  {c \in ToSet(results) : \A d \in ToSet(results) :
     \/ Score[title][c] > Score[title][d]
     \/ Score[title][c] = Score[title][d] /\ Popularity[c] >= Popularity[d]}
=============================================================================
