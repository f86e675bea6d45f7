------------------------------ MODULE MCLibrary ------------------------------
(* Four components that share nothing are model-checked side by side: the    *)
(* organizer, which moves files; the grouper, which shows them; the other    *)
(* ways to combine what the matchers of the grouper say; and the table the   *)
(* grouper keeps its groups in.  A behaviour is one of the component that    *)
(* part names, while the others rest.                                        *)
(*                                                                           *)
(* Of the titles, "foo" and "Foo" are the same for both keys; "[x] abc" and  *)
(* "x abc" have one hash key and two index keys; "[q]" and "(q)" have one    *)
(* hash key and nothing left for the index; "Foo (2)" is a numbered name.    *)
EXTENDS MCOrganizer, GroupBuilding, GroupCombining, LinkedTable, TLC

CONSTANTS
    Given         \* results, weights, failures and preferences: see GroupCombining

VARIABLES
    part,
    given         \* what is combined

libraryVars == <<part, vars, groupVars, given, tableVars>>

LibraryInit ==
    /\ part \in {"organizer", "groups", "combining", "table"}
    /\ Init
    /\ IF part = "groups" THEN GroupsInit
       ELSE parsed = <<>> /\ weight = <<>> /\ files = <<>> /\ groups = <<>>
    /\ IF part = "combining" THEN given \in Given ELSE given = <<>>
    /\ TableInit

LibraryNext ==
    \/ part = "organizer" /\ Next /\ UNCHANGED <<part, groupVars, given, tableVars>>
    \/ part = "groups" /\ GroupsNext /\ UNCHANGED <<part, vars, given, tableVars>>
    \/ part = "table" /\ TableNext /\ UNCHANGED <<part, vars, groupVars, given>>

LibrarySpec == LibraryInit /\ [][LibraryNext]_libraryVars

\* See GroupBuilding, and for the other ways to combine GroupCombining.
EachFileGrouped ==
    /\ GrouperSound
    /\ part = "combining" =>
         CombinedSound(given.results, given.weights, given.failed, given.config)
-----------------------------------------------------------------------------
MCTitles == {"foo", "Foo", "Foo (2)", "[x] abc", "x abc", "[q]", "(q)", "unknown"}
Lower(t) == IF t = "Foo" THEN "foo" ELSE t
MCHashKey == [t \in MCTitles |->
  CASE t \in {"foo", "Foo"} -> "foo" [] t \in {"[x] abc", "x abc"} -> "x abc"
    [] t \in {"[q]", "(q)"} -> "q" [] t = "Foo (2)" -> "foo 2" [] OTHER -> t]
MCIndexKey == [t \in MCTitles |->
  CASE t \in {"foo", "Foo", "Foo (2)"} -> "foo" [] t = "[x] abc" -> "abc"
    [] t \in {"[q]", "(q)"} -> "none" [] OTHER -> t]
MCAlike == {<<"[x] abc", "x abc">>, <<"[q]", "(q)">>}
MCBeats == {<<"foo", "Foo">>, <<"[x] abc", "x abc">>}
MCSeasonTitle == [t \in MCTitles |-> IF t = "foo" THEN "foo S02" ELSE t]
MCGroupTitles == MCTitles \cup {"foo S02"}
MCBase == [t \in MCGroupTitles |-> IF t = "Foo (2)" THEN "Foo" ELSE t]
MCSeries == [t \in MCGroupTitles |-> IF t = "foo S02" THEN "foo" ELSE t]
MCWeights == {[title |-> 3, hash |-> 2, season |-> 1], [title |-> 1, hash |-> 2, season |-> 3]}
MCPaths == <<"p1", "p2", "p3", "p4">>
Naming(s) == [p \in ToSet(MCPaths) |-> s[SelectInSeq(MCPaths, LAMBDA q : q = p)]]
MCNamings ==
  {Naming(<<"foo", "Foo", "Foo (2)", "x abc">>),
   Naming(<<"[x] abc", "x abc", "[x] abc", "Foo (2)">>),
   Naming(<<"(q)", "[q]", "[q]", "unknown">>),
   Naming(<<"unknown", "unknown", "Foo", "[x] abc">>)}
MCMatchTitle == [i \in {"i1", "i2"} |-> IF i = "i1" THEN "Foo" ELSE "x abc"]
MCResolution == [p \in ToSet(MCPaths) |-> IF p = "p2" THEN 2 ELSE 1]

\* Two files of one name, two of one episode; one name holds two versions.
MCNameOf == "p1" :> "a" @@ "p2" :> "b" @@ "p3" :> "c" @@ "p4" :> "a"
MCEpisodeOf == "p1" :> 1 @@ "p2" :> 1 @@ "p3" :> 0 @@ "p4" :> 0
MCVersionsIn == "p1" :> (1 :> 2) @@ "p2" :> (2 :> 1 @@ 3 :> 9) @@ "p3" :> <<>> @@ "p4" :> <<>>
MCTagsIn == "p1" :> {"HD"} @@ "p2" :> {"HD", "4K"} @@ "p3" :> {} @@ "p4" :> {}
MCSizeOf == "p1" :> 1 @@ "p2" :> 2 @@ "p3" :> 0 @@ "p4" :> 1
MCScores == "HD" :> 720 @@ "4K" :> 3840
Group(title, fs) == [title |-> title, files |-> fs]
MCSplits ==
  {<<>>, <<Group("A", <<"p1", "p2">>), Group("B", <<"p3", "p4">>)>>,
   <<Group("A", <<"p1">>), Group("B", <<"p2", "p3">>)>>, <<Group("B", <<"p3">>)>>,
   <<Group("C", <<"p4", "p1", "p2">>), Group("B", <<"p3">>)>>,
   <<Group("A", <<"p1", "p3">>)>>, <<Group("A", <<"p1", "p2">>), Group("B", <<"p3">>)>>}
Result(m, split) == [matcher |-> m, groups |-> split]
More(version, quality, bytes) == [version |-> version, quality |-> quality, size |-> bytes]
MCGiven ==
  [results : {<<Result("title", a), Result("season", b), Result("other", c)>> :
                a, b, c \in MCSplits},
   weights : {"title" :> 2 @@ "season" :> 1 @@ "other" :> 1,
              "title" :> 1 @@ "season" :> 1 @@ "other" :> 3},
   failed  : {{}, {"season"}},
   config  : {More(TRUE, TRUE, TRUE), More(FALSE, TRUE, FALSE)}]

\* In two places all keys collide, in three none, in four the first and the third.
MCHash == "k1" :> 1 @@ "k2" :> 3 @@ "k3" :> 5
=============================================================================
