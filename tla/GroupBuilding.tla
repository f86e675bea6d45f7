--------------------------- MODULE GroupBuilding ---------------------------
(* What the groups view shows (application/use_cases/                      *)
(* build_groups_use_case.py): the groups FileGrouper makes of the names of *)
(* the files, put together by series and by what TMDB says the files are.  *)
(* A new list of files is grouped from nothing; when only the metadata of  *)
(* the files on display changes, the groups are kept and brought up to     *)
(* date (the fast path), if no two of them turn out to be one series.      *)
(*                                                                         *)
(* An entry is [path, tmdb, conf]: a file with what it was matched to.     *)
EXTENDS FileGrouper

CONSTANTS
  Paths,        \* the files, in the order of the scanned list
  Namings,      \* what titles the names of the files may yield
  MaxFailures,  \* how many matchers and refinements may fail in one build
  Series,       \* normalize_series_title of a group title
  Ids,          \* TMDB ids
  MatchTitle,   \* the title TMDB has for an id
  NoId,         \* not matched
  Confidences,  \* of a match
  Resolution    \* of a file

ASSUME BuildingAssumption ==
  /\ Paths \in Seq(ToSet(Paths)) /\ IsInjective(Paths)
  /\ Resolution \in [ToSet(Paths) -> Nat]
  /\ NoId \notin Ids
  /\ Confidences \subseteq Nat \ {0}
  /\ Namings \subseteq [ToSet(Paths) -> Titles]
  /\ \A id \in Ids : MatchTitle[id] \in Titles

VARIABLES
  parsed,    \* the title that the name of a file yields
  weight,    \* the weights in the settings
  files,     \* the list of FileMetadata the view was given last
  groups     \* the groups on display: sequence of [id, title, files, rest]

groupVars == <<parsed, weight, files, groups>>

Unclassified == "unclassified"    \* the Korean name of the last group

Entries == [path : ToSet(Paths), tmdb : Ids \cup {NoId}, conf : Confidences \cup {0}]

Matched(e) == e.tmdb # NoId

\* The title of the ScannedFile of an entry: its own counts only if the name
\* yields nothing.
ScannedTitle(e) ==
  IF parsed[e.path] = Unknown /\ Matched(e) THEN MatchTitle[e.tmdb] ELSE parsed[e.path]

Scanned(list) == [i \in DOMAIN list |-> [path |-> list[i].path, title |-> ScannedTitle(list[i])]]

----------------------------------------------------------------------------
(* A full build.                                                           *)

SeriesGroups(fileGroups, list) ==
  LET EntryOf(f) == list[SelectInSeq(list, LAMBDA e : e.path = f.path)]
      Add(table, g) == AddTo(table, Series[g.title],
                             [k \in DOMAIN g.files |-> EntryOf(g.files[k])])
  IN  FoldLeft(Add, <<>>, fileGroups)

MatchedIn(fs) == Selected(fs, Matched)

\* Counter(ids).most_common(1): of equally frequent ids the one met first.
Canonical(fs) ==
  LET ms == MatchedIn(fs)
      Count(i) == Cardinality({j \in DOMAIN ms : ms[j].tmdb = ms[i].tmdb})
      first == CHOOSE i \in DOMAIN ms :
                 /\ \A j \in DOMAIN ms : Count(j) <= Count(i)
                 /\ \A j \in 1..(i - 1) : Count(j) < Count(i)
  IN  IF ms = <<>> THEN NoId ELSE ms[first].tmdb

\* max(..., key=confidence): the first of the most confident matches.
Surest(ms) ==
  ms[CHOOSE i \in DOMAIN ms : /\ \A j \in DOMAIN ms : ms[j].conf <= ms[i].conf
                              /\ \A j \in 1..(i - 1) : ms[j].conf < ms[i].conf]

\* Groups of one id become one group, under the title of their surest match.
MergeKey(rows, id) ==
  MatchTitle[Surest(Selected(FilesIn(rows), LAMBDA e : e.tmdb = id)).tmdb]

MergeByTmdb(table) ==
  LET Id(row) == Canonical(row.files)
      ids == Selected(FoldLeft(LAMBDA seen, row :
                IF Id(row) \in ToSet(seen) THEN seen ELSE Append(seen, Id(row)), <<>>, table),
               LAMBDA id : id # NoId)
      Of(id) == Selected(table, LAMBDA row : Id(row) = id)
      Apply(merged, id) ==
        IF Len(Of(id)) = 1
        THEN Put(merged, Of(id)[1].title, Of(id)[1].files)
        ELSE Put(merged, MergeKey(Of(id), id), FilesIn(Of(id)))
  IN  FoldLeft(Apply, Of(NoId), ids)

\* Mutant: what no group has is not shown.
AddNothing(table, list) == table

AddUngrouped(table, list) ==
  LET rest == Selected(list, LAMBDA e : e \notin ToSet(FilesIn(table)))
  IN  IF rest = <<>> THEN table ELSE AddTo(table, Unclassified, rest)

DisplayTitle(fs, fallback) ==
  IF MatchedIn(fs) = <<>> THEN fallback ELSE MatchTitle[Surest(MatchedIn(fs)).tmdb]

GroupDict(i, name, fs) ==
  [id |-> i, title |-> DisplayTitle(fs, name), files |-> fs,
   rest |-> name = Unclassified]

GroupDicts(table) == [i \in DOMAIN table |-> GroupDict(i, table[i].title, table[i].files)]

BuildGroups(list, f) ==
  GroupDicts(AddUngrouped(MergeByTmdb(SeriesGroups(
    GroupFiles(Scanned(list), weight, f.failed, f.raises), list)), list))

----------------------------------------------------------------------------
(* The fast path.                                                          *)

PathsOf(list) == {list[i].path : i \in DOMAIN list}

\* The entries of a group as the new list has them.
Renewed(g, list) ==
  [k \in DOMAIN g.files |->
     list[SelectInSeq(list, LAMBDA e : e.path = g.files[k].path)]]

NeedsMerge(gs, list) ==
  \E i, j \in DOMAIN gs : i # j /\
    \E e \in ToSet(Renewed(gs[i], list)), d \in ToSet(Renewed(gs[j], list)) :
      Matched(e) /\ e.tmdb = d.tmdb

FastPathTaken(gs, list) ==
  /\ gs # <<>>
  /\ PathsOf(list) = PathsOf(FilesIn(gs))
  /\ ~NeedsMerge(gs, list)

Updated(gs, list) ==
  [i \in DOMAIN gs |->
     LET new == Renewed(gs[i], list)
     IN  [gs[i] EXCEPT !.title = DisplayTitle(new, gs[i].title), !.files = new, !.id = i]]

----------------------------------------------------------------------------

\* Which matchers fail, and on which groups, by title, the title matcher raises.
Failures(list) ==
  {f \in [failed : SUBSET Matchers, raises : SUBSET {ScannedTitle(e) : e \in ToSet(list)}] :
     Cardinality(f.failed) + Cardinality(f.raises) <= MaxFailures}

GroupsInit ==
  /\ parsed \in Namings /\ weight \in Weights
  /\ files = <<>> /\ groups = <<>>

\* set_file_metadata, with the build it starts.
SetFileMetadata(list) ==
  /\ files' = list /\ UNCHANGED <<parsed, weight>>
  /\ \/ /\ list = <<>>
        /\ groups' = <<>>
     \/ /\ list # <<>> /\ FastPathTaken(groups, list)
        /\ groups' = Updated(groups, list)
     \/ /\ list # <<>> /\ ~FastPathTaken(groups, list)
        /\ \E f \in Failures(list) : groups' = BuildGroups(list, f)

Plain(p) == [path |-> p, tmdb |-> NoId, conf |-> 0]

\* A scan, or another tab: other files, none of them matched.
ScanFinished ==
  \E S \in SUBSET ToSet(Paths) :
    LET list == [i \in 1..Cardinality(S) |-> Plain(Selected(Paths, LAMBDA p : p \in S)[i])]
    IN  S # PathsOf(files) /\ SetFileMetadata(list)

\* A choice in the dialog: what one file is changes.
ChoiceApplied ==
  \E i \in DOMAIN files, id \in Ids, c \in Confidences :
    SetFileMetadata([files EXCEPT ![i].tmdb = id, ![i].conf = c])

\* A match asks once per title, so what it finds is the same for its files; a
\* file that it finds nothing for stays as it was.
MatchFinished ==
  \E found \in [{parsed[e.path] : e \in ToSet(files)} -> Ids \cup {NoId}], c \in Confidences :
    LET Result(e) == found[parsed[e.path]]
        list == [i \in DOMAIN files |->
                   IF Result(files[i]) = NoId THEN files[i]
                   ELSE [files[i] EXCEPT !.tmdb = Result(files[i]), !.conf = c]]
    IN  list # files /\ SetFileMetadata(list)

GroupsNext == ScanFinished \/ ChoiceApplied \/ MatchFinished

GroupsSpec == GroupsInit /\ [][GroupsNext]_groupVars

----------------------------------------------------------------------------
(* Properties.                                                             *)

IsPermutation(s, t) == Len(s) = Len(t) /\ ToSet(s) = ToSet(t) /\ IsInjective(s)

\* Groups are numbered in their order, and none is empty.
GroupsTypeOK ==
  /\ ToSet(files) \subseteq Entries
  /\ \A i \in DOMAIN groups : groups[i].id = i /\ groups[i].files # <<>>

\* The display and the list it was made of agree: every file is in one group,
\* once, with the metadata the list has for it now, whether its group was built
\* or brought up to date, whatever failed and whatever groups overwrote each
\* other on the way (build_groups_use_case.py:325-330, 357-373).
EachFileShownOnce == GroupsTypeOK /\ IsPermutation(FilesIn(groups), files)

\* FileGrouper loses no file and doubles none, although its title matcher
\* drops files whose titles are all brackets and dictionaries are keyed by
\* titles: as long as the hash matcher works, each file is in one group
\* (grouping_engine.py:172-221, title_matcher.py:631-646).
GrouperKeepsFiles ==
  \A f \in Failures(files) :
    "hash" \notin f.failed =>
      LET gs == GroupFiles(Scanned(files), weight, f.failed, f.raises)
      IN  IsPermutation(FilesIn(gs), Scanned(files))

\* So the enhanced plan moves every file, once (organize_service.py:82-131).
PlanMovesEachFile ==
  LET plan == PlanOf(GroupFiles(Scanned(files), weight, {}, {}), Resolution)
  IN  IsPermutation([i \in DOMAIN plan |-> plan[i].from],
                    [i \in DOMAIN files |-> files[i].path])

\* What TMDB takes for one series is one group, also after the fast path: no
\* two groups have the same most frequent id.  The group of what was left
\* over is not merged with the others (build_groups_use_case.py:208-223).
OneGroupPerSeries ==
  \A i, j \in DOMAIN groups :
    i # j /\ ~groups[i].rest /\ ~groups[j].rest =>
      LET c == Canonical(groups[i].files)
      IN  c = NoId \/ c # Canonical(groups[j].files)

\* Files whose names yield one title stay together through hashing,
\* refinement, merging and every update, as long as something of the title is
\* left for the index (title_matcher.py:215-256).
OneTitleOneGroup ==
  \A e, d \in ToSet(files) :
    LET t == parsed[e.path]
    IN  t = parsed[d.path] /\ t # Unknown /\ IndexKey[t] # NoKey =>
          \E i \in DOMAIN groups : {e, d} \subseteq ToSet(groups[i].files)

\* What the view shows is a partition of its files, whole in each respect.
GroupsTrue == EachFileShownOnce /\ OneGroupPerSeries /\ OneTitleOneGroup

\* The grouper and the enhanced plan made of its groups.
GrouperSound == GrouperKeepsFiles /\ PlanMovesEachFile
=============================================================================
