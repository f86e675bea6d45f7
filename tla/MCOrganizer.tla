----------------------------- MODULE MCOrganizer -----------------------------
\* Two videos and a subtitle in an inbox with two levels of directories.  One
\* video has to go to a library that does not exist yet, the other to a
\* directory inside the inbox.
EXTENDS Organizer

CONSTANTS top, inbox, show, disc, lib, season, v1, v2, s1, f1, f2, f3

MCParent  == (inbox :> top) @@ (show :> inbox) @@ (disc :> show) @@ (lib :> top)
               @@ (season :> lib)
MCGoal    == (v1 :> season) @@ (v2 :> show) @@ (s1 :> season)
MCMatches == {<<v1, s1>>}
MCHome    == (f1 :> [dir |-> disc, name |-> v1]) @@ (f2 :> [dir |-> inbox, name |-> v2])
               @@ (f3 :> [dir |-> disc, name |-> s1])

\* A second file of the same name, which has to go to the same directory.
SameName  == (f1 :> [dir |-> disc, name |-> v1]) @@ (f2 :> [dir |-> inbox, name |-> v1])
               @@ (f3 :> [dir |-> disc, name |-> s1])
=============================================================================
