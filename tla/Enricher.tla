------------------------------ MODULE Enricher ------------------------------
(* A batch of parsed names enriched from TMDB (infrastructure/enricher/):    *)
(* BatchProcessor runs MetadataEnricher.enrich_metadata on all of them as    *)
(* tasks of one event loop, a few at a time.  Each searches its title,       *)
(* scores what is found and fetches the details of the best.                 *)
(*                                                                           *)
(* Scores go in hundredths; total scores are sums of a score times a weight, *)
(* over the sum of the weights.  TMDBClient._make_request is a request that  *)
(* comes back with an answer or fails: TmdbClient has the rest of it.        *)
EXTENDS TmdbSearch, FiniteSets

CONSTANTS
    Batch,        \* the ParsingResults, a sequence
    Concurrency,  \* of BatchProcessor
    Likeness,     \* Likeness[title][c], see Similarity
    Weight,       \* [title, year, kind]: enricher_*_weight
    MinConfidence,
    Fetchable,    \* [the results TMDB has details of -> those details]
    None, MaxFailures

VARIABLES
    pc,       \* of each task: waiting, searching, fetching, done
    search,   \* its search
    permits,  \* of the semaphore
    enriched, \* its EnrichedMetadata
    best,     \* best_match
    missed    \* history: the requests that failed, fetching the details too

vars == <<pc, search, permits, enriched, best, missed>>

Tasks == DOMAIN Batch
FailedItem == [status |-> "failed", score |-> 0, details |-> None]

Init ==
    /\ pc = [t \in Tasks |-> "waiting"] /\ search = [t \in Tasks |-> NewSearch]
    /\ permits = Concurrency /\ best = [t \in Tasks |-> None]
    /\ enriched = [t \in Tasks |-> None] /\ missed = [t \in Tasks |-> {}]
-----------------------------------------------------------------------------
(* scoring/: a candidate is [id, name, year, kind, blank].                   *)

\* _calculate_similarity; a fuzzy likeness is fuzz.token_sort_ratio.
Similarity(like) ==
    CASE like.how = "same" -> 100 [] like.how = "case" -> 95
      [] like.how = "part" -> 80  [] like.how = "fuzzy" -> like.ratio

Years == 1900 .. 2100

\* YearScorer, with its tolerance of one year.
YearScore(y, z) ==
    IF y \notin Years \/ z \notin Years THEN 0
    ELSE IF y = z THEN 100 ELSE IF y \in {z - 1, z + 1} THEN 50 ELSE 0

KindScore(f, c) ==
    IF c.kind = (IF f.season # None \/ f.episode # None THEN "tv" ELSE "movie")
    THEN 100 ELSE 0

\* A candidate without a name is an error that passes it over.
Scorable(c) == c.name # None

TotalWeight == Weight.title + Weight.year + Weight.kind

TotalScore(f, c) ==
    Weight.title * Similarity(Likeness[f.title][c.name])
      + Weight.year * YearScore(f.year, c.year) + Weight.kind * KindScore(f, c)

NoMatch == [c |-> None, score |-> 0]

\* _find_best_match: the first of the highest, if it is high enough.
Better(f, b, c) ==
    IF Scorable(c) /\ TotalScore(f, c) > b.score
    THEN [c |-> c, score |-> TotalScore(f, c)] ELSE b

BestMatch(f, results) ==
    LET b == FoldLeft(LAMBDA b, c : Better(f, b, c), NoMatch, results)
    IN  IF b.score >= MinConfidence * TotalWeight THEN b ELSE NoMatch

\* MatchEvidence takes no blank title: its ValueError is not a DomainError.
EvidenceFails(results) == \E i \in DOMAIN results : results[i].blank
-----------------------------------------------------------------------------
Finish(t, item) ==
    /\ pc' = [pc EXCEPT ![t] = "done"] /\ permits' = permits + 1
    /\ enriched' = [enriched EXCEPT ![t] = item]

\* The semaphore lets a task in; a name without a title is done at once.
Begin(t) ==
    /\ pc[t] = "waiting" /\ permits > 0
    /\ IF Batch[t].title = <<>>
       THEN /\ pc' = [pc EXCEPT ![t] = "done"] /\ UNCHANGED permits
            /\ enriched' = [enriched EXCEPT ![t] = [FailedItem EXCEPT !.status = "skipped"]]
       ELSE /\ pc' = [pc EXCEPT ![t] = "searching"] /\ permits' = permits - 1
            /\ UNCHANGED enriched
    /\ UNCHANGED <<search, best, missed>>

CountFailed == Cardinality(UNION {{t} \X missed[t] : t \in Tasks})

Details == <<0, "details">>

Miss(t, request, failed) ==
    /\ failed => CountFailed < MaxFailures
    /\ missed' = [missed EXCEPT ![t] = IF failed THEN @ \cup {request} ELSE @]

\* The answer to a search request; with the last one, the best is looked for.
SearchAnswered(t, failed) ==
    /\ pc[t] = "searching"
    /\ Miss(t, <<search[t].n, search[t].kind>>, failed)
    /\ LET s == Answered(Batch[t].title, search[t], failed)
           b == BestMatch(Batch[t], s.last)
       IN  /\ search' = [search EXCEPT ![t] = s]
           /\ IF ~s.over THEN UNCHANGED <<pc, permits, enriched, best>>
              ELSE IF EvidenceFails(s.last) \/ b.c = None
              THEN Finish(t, FailedItem) /\ UNCHANGED best
              ELSE /\ pc' = [pc EXCEPT ![t] = "fetching"]
                   /\ best' = [best EXCEPT ![t] = b]
                   /\ UNCHANGED <<permits, enriched>>

\* fetch_details: an error is None; the match counts all the same.
DetailsAnswered(t, failed) ==
    /\ pc[t] = "fetching"
    /\ Miss(t, Details, failed)
    /\ Finish(t, [status |-> "success", score |-> best[t].score,
                  details |-> IF failed \/ best[t].c.id \notin DOMAIN Fetchable
                              THEN None ELSE best[t].c.id])
    /\ UNCHANGED <<search, best>>

Request(t) ==
    \E failed \in BOOLEAN : SearchAnswered(t, failed) \/ DetailsAnswered(t, failed)

Next == \E t \in Tasks : Begin(t) \/ Request(t)

Over == \A t \in Tasks : pc[t] = "done"

\* MetadataTransformer: what the file is said to be; the year of its name is
\* dropped.
FileMetadata(t) ==
    LET f == Batch[t]
        d == enriched[t].details
    IN  [season |-> f.season, episode |-> f.episode,
         title |-> IF d = None THEN f.title ELSE Fetchable[d].title,
         year |-> IF d = None THEN None ELSE Fetchable[d].year, id |-> d]

\* process(): one result for each item, in their order.
BatchResults == [t \in Tasks |-> FileMetadata(t)]
-----------------------------------------------------------------------------
TypeOK ==
    /\ pc \in [Tasks -> {"waiting", "searching", "fetching", "done"}]
    /\ permits \in 0 .. Concurrency
    /\ \A t \in Tasks : pc[t] = "done" <=> enriched[t] # None

PermitsAddUp == permits + Cardinality({t \in Tasks : pc[t] \in {"searching", "fetching"}})
                  = Concurrency

\* None of the results is a better match.
IsBest(f, c, results) ==
    \A d \in {e \in ToSet(results) : Scorable(e)} : TotalScore(f, c) >= TotalScore(f, d)

\* What the parse says of an item and what TMDB knows is all that its result
\* depends on, whatever the other tasks search meanwhile: the best of what both
\* searches found, and failed only if there is none or one of them is blank.
ItemTrue(t) ==
    LET f == Batch[t]
        results == Found(f.title, missed[t])
        good == {c \in ToSet(results) :
                   Scorable(c) /\ TotalScore(f, c) >= MinConfidence * TotalWeight}
    IN  CASE enriched[t].status = "skipped" -> f.title = <<>>
          [] enriched[t].status = "failed"  -> good = {} \/ EvidenceFails(results)
          [] enriched[t].status = "success" ->
               /\ best[t].c \in good /\ IsBest(f, best[t].c, results)
               /\ Details \notin missed[t] /\ best[t].c.id \in DOMAIN Fetchable =>
                    FileMetadata(t).id = best[t].c.id

\* Every permit comes back however a task ends, so the batch ends: until it is
\* over some task can go on, and no step of a task is taken twice.
GoesOn ==
    Over \/ \E t \in Tasks : pc[t] \in {"searching", "fetching"}
                             \/ (pc[t] = "waiting" /\ permits > 0)

\* However the tasks interleave and whichever requests fail.
EnrichedTrue ==
    TypeOK /\ PermitsAddUp /\ GoesOn /\ \A t \in Tasks : pc[t] = "done" => ItemTrue(t)

Spec == Init /\ [][Next]_vars
=============================================================================
