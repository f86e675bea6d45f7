---------------------------- MODULE GroupCombining ----------------------------
(* How the results of several matchers become one list of groups by the      *)
(* strategies other than that of the heaviest matcher (core/file_grouper/    *)
(* strategies.py), and how a group gives up all but the best file of an      *)
(* episode (duplicate_resolver.py).                                          *)
(*                                                                           *)
(* A matcher result is [matcher, groups], a group [title, files]; the        *)
(* strategies tell files by their names alone.                               *)
EXTENDS Naturals, Integers, FiniteSetsExt, SequencesExt, Functions

CONSTANTS
    NameOf, EpisodeOf,  \* of a file, its name and the episode parsed from it
    VersionsIn,         \* [file -> [pattern -> number]]: the versions its name has
    TagsIn, SizeOf,     \* the quality tags in its name, and its size or 0
    quality_scores,     \* [tag -> score]
    NoEpisode

NamesOf(files) == [i \in DOMAIN files |-> NameOf[files[i]]]
Distinct(s) == FoldLeft(LAMBDA seen, x : IF x \in ToSet(seen) THEN seen ELSE Append(seen, x), <<>>, s)

\* Every group of every matcher, as [matcher, title, files].
Pairs(results) ==
    FlattenSeq([r \in DOMAIN results |->
      [i \in DOMAIN results[r].groups |->
         [matcher |-> results[r].matcher, title |-> results[r].groups[i].title,
          files |-> results[r].groups[i].files]]])

\* file_to_groups, by its keys.
AllNames(pairs) == Distinct(FlattenSeq([p \in DOMAIN pairs |-> NamesOf(pairs[p].files)]))
-----------------------------------------------------------------------------
(* WeightedMergeStrategy.                                                    *)

\* _UnionFind.find; that it shortens the way changes no root.
Root(parent, x) ==
    LET find[y \in DOMAIN parent] == IF parent[y] = y THEN y ELSE find[parent[y]]
    IN  find[x]

Union(parent, x, y) == [parent EXCEPT ![Root(parent, x)] = Root(parent, y)]

connect_overlapping_files(pairs, names) ==
    LET OfGroup(parent, pair) ==
          LET group == NamesOf(pair.files)
          IN  FoldLeft(LAMBDA p, n : Union(p, group[1], n), parent, group)
    IN  FoldLeft(OfGroup, [n \in ToSet(names) |-> n], pairs)

\* best_title: of the heaviest, the one that was met first.
BestTitle(pairs, weights) ==
    LET titles == Distinct([p \in DOMAIN pairs |-> pairs[p].title])
        Score(t) == FoldLeft(LAMBDA sum, p : IF p.title = t THEN sum + weights[p.matcher] ELSE sum,
                             0, pairs)
        best == Max({Score(t) : t \in ToSet(titles)})
    IN  SelectSeq(titles, LAMBDA t : Score(t) = best)[1]

create_merged_group(pairs, weights) ==
    LET files == FlattenSeq([p \in DOMAIN pairs |-> pairs[p].files])
        First(i) == \A j \in 1..(i - 1) : NameOf[files[j]] # NameOf[files[i]]
        kept == SelectSeq([i \in DOMAIN files |-> i], First)
    IN  [title |-> BestTitle(pairs, weights), files |-> [i \in DOMAIN kept |-> files[kept[i]]]]

\* The matchers that have a group that shares a file, by weight: the sum and
\* how many they are; the confidence is one by the other.
merge_evidence(group, results, weights) ==
    LET names == ToSet(NamesOf(group.files))
        Shares(r) == \E i \in DOMAIN r.groups : ToSet(NamesOf(r.groups[i].files)) \cap names # {}
        sharing == SelectSeq(results, Shares)
    IN  [sum |-> FoldLeft(LAMBDA s, r : s + weights[r.matcher], 0, sharing), of |-> Len(sharing)]

MoreConfident(a, b) == a.sum * b.of > b.sum * a.of

\* The groups that have a file whose name the root is of.
GroupsOf(root, pairs, names, parent) ==
    LET joined == SelectSeq(names, LAMBDA n : Root(parent, n) = root)
        Having(n) == SelectSeq(pairs, LAMBDA p : n \in ToSet(NamesOf(p.files)))
    IN  Distinct(FlattenSeq([i \in DOMAIN joined |-> Having(joined[i])]))

MergedGroups(pairs, names, parent, weights) ==
    LET roots == Distinct([i \in DOMAIN names |-> Root(parent, names[i])])
    IN  [r \in DOMAIN roots |->
           create_merged_group(GroupsOf(roots[r], pairs, names, parent), weights)]

\* The surest first; equals keep their order.
BySureness(merged, evidence) ==
    LET order == SetToSortSeq(DOMAIN merged, LAMBDA i, j :
                   \/ MoreConfident(evidence[i], evidence[j])
                   \/ ~MoreConfident(evidence[j], evidence[i]) /\ i < j)
    IN  [k \in DOMAIN order |-> merged[order[k]] @@ [evidence |-> evidence[order[k]]]]

WithEvidence(merged, results, weights) ==
    BySureness(merged, [r \in DOMAIN merged |-> merge_evidence(merged[r], results, weights)])

MergePairs(pairs, names, results, weights) ==
    WithEvidence(MergedGroups(pairs, names, connect_overlapping_files(pairs, names), weights),
                 results, weights)

WeightedMerge(results, weights) ==
    MergePairs(Pairs(results), AllNames(Pairs(results)), results, weights)
-----------------------------------------------------------------------------
(* ConsensusStrategy: what enough matchers take for one group.               *)

Consensus(results, weights, min_consensus) ==
    LET pairs == Pairs(results)
        SetOf(p) == ToSet(NamesOf(p.files))
        sets == Distinct([p \in DOMAIN pairs |-> SetOf(pairs[p])])
        Having(S) == SelectSeq(pairs, LAMBDA p : SetOf(p) = S)
        Heaviest(ps) == ps[Min({i \in DOMAIN ps :
                                  \A j \in DOMAIN ps : weights[ps[j].matcher] <= weights[ps[i].matcher]})]
        agreed == SelectSeq(sets, LAMBDA S : Len(Having(S)) >= min_consensus)
    IN  [k \in DOMAIN agreed |-> [title |-> Heaviest(Having(agreed[k])).title,
                                  files |-> Having(agreed[k])[1].files]]

\* _group_files_parallel, the way of an engine without the hash matcher: a
\* matcher that fails is left out.
CombinedWithout(failed, results) == SelectSeq(results, LAMBDA r : r.matcher \notin failed)
-----------------------------------------------------------------------------
(* DuplicateResolver.                                                        *)

\* Of the patterns in their order the first that matches.
extract_version(f) ==
    IF VersionsIn[f] = <<>> THEN 0 ELSE VersionsIn[f][Min(DOMAIN VersionsIn[f])]

extract_quality(f) == Max({0} \cup {quality_scores[t] : t \in TagsIn[f]})

\* config is [version, quality, size], whether more of each is better.
comparison_key(f, config) ==
    LET Signed(n, more) == IF more THEN n ELSE 0 - n
    IN  <<Signed(extract_version(f), config.version),
          Signed(extract_quality(f), config.quality),
          Signed(SizeOf[f], config.size)>>

IsBetter(a, b) ==
    \/ a[1] > b[1]
    \/ a[1] = b[1] /\ (a[2] > b[2] \/ (a[2] = b[2] /\ a[3] > b[3]))

\* sorted(.., reverse=True) keeps the order of equals.
resolve_duplicates(files, config) ==
    files[Min({i \in DOMAIN files : \A j \in DOMAIN files :
                 ~IsBetter(comparison_key(files[j], config), comparison_key(files[i], config))})]

HasDuplicates(files) ==
    \E i, j \in DOMAIN files :
      i # j /\ EpisodeOf[files[i]] = EpisodeOf[files[j]] /\ EpisodeOf[files[i]] # NoEpisode

resolve_duplicates_for_group(files, config) ==
    LET episodes == Distinct([i \in DOMAIN files |-> EpisodeOf[files[i]]])
        Of(e) == SelectSeq(files, LAMBDA f : EpisodeOf[f] = e)
        Resolved(e) == IF e = NoEpisode \/ Len(Of(e)) = 1 THEN Of(e)
                       ELSE <<resolve_duplicates(Of(e), config)>>
    IN  IF ~HasDuplicates(files) THEN files
        ELSE FlattenSeq([k \in DOMAIN episodes |-> Resolved(episodes[k])])
-----------------------------------------------------------------------------
TakenTogether(results, a, b) ==
    \E p \in ToSet(Pairs(results)) : {a, b} \subseteq ToSet(NamesOf(p.files))

\* Merging puts two names in one group if a chain of groups, of any matchers,
\* leads from one to the other, and only then; every name is in one group, once,
\* and the surest groups come first.  Only a file whose name another one has,
\* in a directory of its own, may be left out.
MergedWhole(results, merged) ==
    LET names == ToSet(AllNames(Pairs(results)))
        In(i) == ToSet(NamesOf(merged[i].files))
    IN  /\ UNION {In(i) : i \in DOMAIN merged} = names
        /\ \A i, j \in DOMAIN merged : i < j =>
             In(i) \cap In(j) = {} /\ ~MoreConfident(merged[j].evidence, merged[i].evidence)
        /\ \A i \in DOMAIN merged :
             /\ Len(merged[i].files) = Cardinality(In(i))
             /\ \A a \in In(i), b \in names : TakenTogether(results, a, b) => b \in In(i)
             /\ \A S \in SUBSET In(i) : S \notin {{}, In(i)} =>
                  \E a \in S, b \in In(i) \ S : TakenTogether(results, a, b)

\* If more than half of the matchers have to agree, no file is in two groups,
\* as long as none shares its name.
AgreedOnce(results, weights) ==
    (\A r \in ToSet(results) :
       LET files == FlattenSeq([i \in DOMAIN r.groups |-> r.groups[i].files])
       IN  Cardinality(ToSet(NamesOf(files))) = Len(files)) =>
    \A min \in 1..Len(results) :
      LET agreed == Consensus(results, weights, min)
      IN  2 * min > Len(results) =>
            \A i, j \in DOMAIN agreed : i # j =>
              ToSet(NamesOf(agreed[i].files)) \cap ToSet(NamesOf(agreed[j].files)) = {}

\* A group loses no episode, and keeps of each the file that no other beats;
\* a file whose episode is not known stays.
OnlyBestStay(files, config) ==
    LET kept == resolve_duplicates_for_group(files, config)
    IN  /\ ToSet(kept) \subseteq ToSet(files) /\ Len(kept) = Cardinality(ToSet(kept))
        /\ \A f \in ToSet(files) :
             LET e == EpisodeOf[f]
                 stays == {g \in ToSet(kept) : EpisodeOf[g] = e}
             IN  IF e = NoEpisode THEN f \in stays
                 ELSE /\ Cardinality(stays) = 1
                      /\ \A g \in stays : ~IsBetter(comparison_key(f, config), comparison_key(g, config))

MergedSound(results, merged, config) ==
    /\ MergedWhole(results, merged)
    /\ \A i \in DOMAIN merged : OnlyBestStay(merged[i].files, config)

CombinedSound(results, weights, failed, config) ==
    LET used == CombinedWithout(failed, results)
    IN  MergedSound(used, WeightedMerge(used, weights), config) /\ AgreedOnce(used, weights)
=============================================================================
