----------------------------- MODULE TmdbSearch -----------------------------
(* TMDBClient.search_media (infrastructure/tmdb/tmdb_client.py) and its two  *)
(* search strategies (tmdb_strategies.py): the title is asked of the TV      *)
(* shows, then of the movies; if neither knows it, its prefixes, from the    *)
(* first word on, until one is not known.  A request that fails in any way   *)
(* counts as one without results.                                            *)
EXTENDS Naturals, SequencesExt

CONSTANTS
    Suffix,     \* Suffix[w]: which of _VERSION_SUFFIX_PATTERNS a word is, 0: none
    Patterns,   \* how many patterns there are
    Known,      \* Known[kind][query]: what TMDB has of a kind ("tv", "movie")
    Malformed   \* results that cannot be made a TMDBSearchResult

\* generate_title_prefixes: each pattern cuts a last word once, in the order of
\* the patterns; a title is a sequence of words.
Cut(words, p) ==
    IF Len(words) > 1 /\ Suffix[Last(words)] = p THEN Front(words) ELSE words

BaseTitle(title) == FoldLeft(Cut, title, [p \in 1 .. Patterns |-> p])

TitlePrefixes(title) ==
    LET base == BaseTitle(title)
    IN  IF Len(base) <= 1 THEN <<>> ELSE [n \in DOMAIN base |-> SubSeq(base, 1, n)]

\* Each raw result becomes a TMDBSearchResult or is passed over.
Converted(results, raw) == IF raw \in Malformed THEN results ELSE Append(results, raw)

KnownOf(kind, query) ==
    IF query \in DOMAIN Known[kind]
    THEN FoldLeft(Converted, <<>>, Known[kind][query]) ELSE <<>>

\* A search under way: n counts the prefixes asked so far (0: the title), got
\* has the results of this query, last those of the last prefix with any.
NewSearch == [n |-> 0, kind |-> "tv", got |-> <<>>, last |-> <<>>, over |-> FALSE]

Query(title, s) == IF s.n = 0 THEN title ELSE TitlePrefixes(title)[s.n]

\* What the request under way brings, if it does not fail.
Results(title, s, failed) ==
    s.got \o (IF failed THEN <<>> ELSE KnownOf(s.kind, Query(title, s)))

Ended(s, results) == [s EXCEPT !.over = TRUE, !.got = <<>>, !.last = results]

NextPrefix(title, s, results) ==
    IF s.n = Len(TitlePrefixes(title)) THEN Ended(s, results)
    ELSE [n |-> s.n + 1, kind |-> "tv", got |-> <<>>, last |-> results, over |-> FALSE]

\* Mutant: what the last query found stays with the next one.
AnsweredKeeping(title, s, failed) ==
    LET got == Results(title, s, failed)
    IN  IF s.kind = "tv" THEN [s EXCEPT !.kind = "movie", !.got = got]
        ELSE IF s.n = 0 /\ got # <<>> THEN Ended(s, got)
        ELSE NextPrefix(title, s, s.last \o got)

\* The search after the answer to the request under way.
Answered(title, s, failed) ==
    LET got == Results(title, s, failed)
    IN  IF s.kind = "tv" THEN [s EXCEPT !.kind = "movie", !.got = got]
        ELSE IF s.n = 0 /\ got # <<>> THEN Ended(s, got)
        ELSE IF s.n > 0 /\ got = <<>> THEN Ended(s, s.last)
        ELSE NextPrefix(title, s, got)
-----------------------------------------------------------------------------
\* What a search is to find when the requests in missed, as <<n, kind>>, failed:
\* what both kinds have of the title, else of the longest prefix without a
\* shorter one that is not known.
Found(title, missed) ==
    LET prefixes == TitlePrefixes(title)
        Of(n, kind) == IF <<n, kind>> \in missed THEN <<>>
                       ELSE KnownOf(kind, IF n = 0 THEN title ELSE prefixes[n])
        Both(n) == Of(n, "tv") \o Of(n, "movie")
        known == {n \in DOMAIN prefixes : \A k \in 1 .. n : Both(k) # <<>>}
    IN  IF Both(0) # <<>> THEN Both(0)
        ELSE IF known = {} THEN <<>> ELSE Both(Max(known))
=============================================================================
