---------------------------- MODULE MCMatchFiles ----------------------------
(* Three files of a show, two with the season in their title.  The window   *)
(* shows them as scanned, or as matched before, with the third one set by   *)
(* hand to a film of whose title nothing is left when it is normalised.     *)
(* What TMDB answers may have no title at all, and is then no match.        *)
EXTENDS MatchFiles

CONSTANTS show, season, nothing, show1, film1, untitled, y1, y2

MCRaw == {show, season, nothing}
MCTitles == {show, season}
MCFound == <<"a1", "a2", "a3">>
MCParsed == [p \in Paths |-> IF p = "a1" THEN show ELSE season]
Scanned == [n \in DOMAIN MCFound |->
              [path |-> MCFound[n], title |-> MCParsed[MCFound[n]],
               year |-> NoYear, tmdb |-> NoMatch]]
Before == [n \in DOMAIN MCFound |->
             IF n = 3
             THEN [path |-> "a3", title |-> nothing, year |-> y2, tmdb |-> film1]
             ELSE [path |-> MCFound[n], title |-> show, year |-> y1, tmdb |-> show1]]
MCLists == {Scanned, Before}
MCSeries == [t \in RawTitles |-> IF t = season THEN show ELSE t]
MCQuery == [t \in RawTitles |-> IF t = nothing THEN NoTitle ELSE t]
MCCacheKey == [t \in Titles |-> show]
MCAnswers == [t \in Titles |-> IF t = show THEN {<<>>, <<film1, show1>>}
                                           ELSE {<<untitled>>, <<show1>>}]
MCTitleOf == [c \in Candidates |-> IF c = show1 THEN show ELSE nothing]
MCYearOf == [c \in Candidates |-> IF c = show1 THEN y1 ELSE y2]
MCSimilarity == [t \in Titles |-> [c \in Candidates |->
                   CASE c = film1 -> {0} [] c = untitled -> {} [] t = show -> {40, 100} [] OTHER -> {60}]]
MCMediaType == [c \in Candidates |-> CASE c = film1 -> "movie" [] c = show1 -> "tv" [] OTHER -> "unknown"]
MCPopularity == [c \in Candidates |-> IF c = film1 THEN 300 ELSE 50]
MCWeights == [title |-> 50, year |-> 25, media_type |-> 15, popularity |-> 10]
MCPartOf == [t \in Titles |-> {show1}]
MCMaxMatches == [j \in Jobs |-> 1]
=============================================================================
