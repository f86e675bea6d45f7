---------------------------- MODULE FileGrouper ----------------------------
(* How scanned files are put into groups (core/file_grouper): a matcher by *)
(* normalised title whose groups a second matcher, by similarity, refines, *)
(* a third one by season, the choice of the result of the heaviest matcher *)
(* and the merging of group names that differ in a number only.            *)
(*                                                                         *)
(* A file is [path, title]; title is what the matchers extract, which is   *)
(* never empty (grouper.py ends with "unknown").  What the text rules say  *)
(* of a title is given by constants.                                       *)
EXTENDS Naturals, FiniteSets, Selections

CONSTANTS
  Titles,        \* what the name of a file may yield
  Unknown,       \* the title of a name that yields nothing
  HashKey,       \* lower case without punctuation (hash_matcher.py)
  IndexKey,      \* also without brackets and versions (title_index.py)
  NoKey,         \* what is left of a title that is all brackets
  Alike,         \* pairs <<representative, title>> that are candidates of each
                 \* other, pass the guards and reach the threshold
  Beats,         \* pairs <<t, u>>: u is the better name than t
  SeasonTitle,   \* "{title} S{season:02d}" of a title
  Base,          \* a group title without a trailing " (n)"
  Weights,       \* what the settings may say of the weights of the matchers
  MaxRefine      \* max_title_match_group_size

Matchers == {"hash", "title", "season"}
GroupTitles == Titles \cup {SeasonTitle[t] : t \in Titles}

ASSUME TitlesAssumption ==
  /\ Unknown \in Titles
  /\ \A t, u \in Titles : HashKey[t] # HashKey[u] => t # u
  /\ Alike \subseteq Titles \X Titles
  /\ Beats \subseteq Titles \X Titles
  /\ Weights \subseteq [Matchers -> Nat]
  /\ MaxRefine \in Nat \ {0}

\* A name carries at most one number: "Name (2) (1)" is left out.
ASSUME BaseAssumption == \A t \in GroupTitles : Base[Base[t]] = Base[t]

----------------------------------------------------------------------------
(* LinkedHashTable as what it promises: a map that keeps the order in which *)
(* its keys came.                                                          *)

Row(t, fs) == [title |-> t, files |-> fs]

Get(table, t) ==
  LET i == SelectInSeq(table, LAMBDA row : row.title = t)
  IN  IF i = 0 THEN <<>> ELSE table[i].files

Put(table, t, fs) ==
  LET i == SelectInSeq(table, LAMBDA row : row.title = t)
  IN  IF i = 0 THEN Append(table, Row(t, fs)) ELSE [table EXCEPT ![i].files = fs]

Without(table, t) == Selected(table, LAMBDA row : row.title # t)

\* Put the files under t behind those that are there.
AddTo(table, t, fs) == Put(table, t, Get(table, t) \o fs)

GroupBy(files, Key(_)) ==
  FoldLeft(LAMBDA table, f : AddTo(table, Key(f), <<f>>), <<>>, files)

FilesIn(table) == FlattenSeq([i \in DOMAIN table |-> table[i].files])

----------------------------------------------------------------------------
(* The matchers.                                                           *)

HashMatch(files) ==
  LET table == GroupBy(files, LAMBDA f : HashKey[f.title])
  IN  [i \in DOMAIN table |-> Row(table[i].files[1].title, table[i].files)]

SeasonMatch(files) == GroupBy(files, LAMBDA f : SeasonTitle[f.title])

Better(t, u) ==
  CASE t = Unknown            -> u
    [] u = Unknown            -> t
    [] <<t, u>> \in Beats     -> u
    [] OTHER                  -> t

Indices(files, S) == Selected([i \in DOMAIN files |-> i], LAMBDA i : i \in S)

\* The files whose title is, for the index, that of file i.
Twins(files, i) ==
  LET Key(j) == IndexKey[files[j].title]
  IN  {j \in DOMAIN files : Key(j) = Key(i) /\ Key(i) # NoKey}

Exact(files) == {i \in DOMAIN files : Cardinality(Twins(files, i)) > 1}

ExactGroups(files) ==
  LET firsts == {i \in Exact(files) : \A j \in Twins(files, i) : i <= j}
      Group(table, i) ==
        LET twins == Indices(files, Twins(files, i))
            Name(t, j) == Better(t, files[j].title)
        IN  AddTo(table, FoldLeft(Name, files[i].title, twins),
                  [k \in DOMAIN twins |-> files[twins[k]]])
  IN  FoldLeft(Group, <<>>, Indices(files, firsts))

Standing(rep, i, t) == [r \in DOMAIN rep \cup {i} |-> IF r = i THEN t ELSE rep[r]]

\* One of the remaining files: it joins the group of the first representative
\* it is like, which may take its title over, or becomes one itself.
Join(files, acc, i) ==
  LET t == files[i].title
      near == {r \in DOMAIN acc.rep : <<files[r].title, t>> \in Alike}
      group == acc.rep[Min(near)]
      members == Append(Get(acc.table, group), files[i])
      better == Better(group, t)
      head == CHOOSE j \in DOMAIN files : files[j] = members[1]
  IN  IF near = {}
      THEN [table |-> Put(acc.table, t, <<files[i]>>), rep |-> Standing(acc.rep, i, t)]
      ELSE IF better = group
      THEN [acc EXCEPT !.table = Put(@, group, members)]
      ELSE [table |-> Put(Without(acc.table, group), better, members),
            rep |-> Standing(acc.rep, head, better)]

TitleMatch(files) ==
  LET rest == Indices(files, DOMAIN files \ Exact(files))
  IN  FoldLeft(LAMBDA acc, i : Join(files, acc, i),
               [table |-> ExactGroups(files), rep |-> <<>>], rest).table

----------------------------------------------------------------------------
(* GroupingEngine.                                                         *)

\* Mutant: the files that match() dropped are forgotten.
RefineGroupDropping(group) ==
  LET parts == TitleMatch(group.files)
  IN  IF \/ Len(group.files) = 1
         \/ Twins(group.files, 1) = DOMAIN group.files
         \/ Len(parts) < 2
      THEN <<group>> ELSE parts

\* refine_group: the parts of a group, with the files that match() dropped in
\* the first part, or the group as it was.
RefineGroup(group) ==
  LET files == group.files
      parts == TitleMatch(files)
      orphans == Selected(files, LAMBDA f : f \notin ToSet(FilesIn(parts)))
  IN  IF \/ Len(files) = 1
         \/ Twins(files, 1) = DOMAIN files
         \/ Len(parts) < 2
      THEN <<group>>
      ELSE [parts EXCEPT ![1].files = @ \o orphans]

\* A group that is too large, or on which the matcher raises, stays as it is.
RefineAll(groups, raises) ==
  LET Refined(group) ==
        IF Len(group.files) > MaxRefine \/ group.title \in raises
        THEN <<group>> ELSE RefineGroup(group)
  IN  FlattenSeq([i \in DOMAIN groups |-> Refined(groups[i])])

\* The matchers that have a result: one that fails is passed over.
Succeeded(failed) == Selected(<<"hash", "title", "season">>, LAMBDA m : m \notin failed)

\* BestMatcherStrategy: the heaviest, of equals the first that was run.
Heaviest(ran, weight) ==
  LET best == CHOOSE i \in DOMAIN ran :
                /\ \A j \in DOMAIN ran : weight[ran[j]] <= weight[ran[i]]
                /\ \A j \in 1..(i - 1) : weight[ran[j]] < weight[ran[i]]
  IN  ran[best]

\* group_files of the engine: without the hash matcher nothing is grouped.
Engine(files, weight, failed, raises) ==
  LET hash == HashMatch(files)
      best == Heaviest(Succeeded(failed), weight)
  IN  IF files = <<>> \/ "hash" \in failed THEN <<>>
      ELSE CASE best = "hash"   -> hash
             [] best = "title"  -> RefineAll(hash, raises)
             [] best = "season" -> SeasonMatch(files)

----------------------------------------------------------------------------
(* FileGrouper: the facade.                                                *)

\* {group.title: group.files}: of two groups with one title the last is kept.
ByTitle(groups) == FoldLeft(LAMBDA table, g : Put(table, g.title, g.files), <<>>, groups)

\* The base is never taken: a group of that name has the same base.
MergeSimilarNames(table) ==
  LET bases == FoldLeft(LAMBDA seen, row :
                  IF Base[row.title] \in ToSet(seen) THEN seen
                  ELSE Append(seen, Base[row.title]), <<>>, table)
      Of(base) == Selected(table, LAMBDA row : Base[row.title] = base)
      Merge(merged, base) ==
        IF Len(Of(base)) > 1
        THEN Put(merged, base, FilesIn(Of(base)))
        ELSE Put(merged, Of(base)[1].title, Of(base)[1].files)
  IN  IF Len(table) <= 1 THEN table ELSE FoldLeft(Merge, <<>>, bases)

GroupFiles(files, weight, failed, raises) ==
  MergeSimilarNames(ByTitle(Engine(files, weight, failed, raises)))

----------------------------------------------------------------------------
(* The enhanced plan of the organize service: of each group the file of the *)
(* best resolution goes to one directory, the others to another.           *)

PlanOf(groups, best) ==
  FlattenSeq([i \in DOMAIN groups |->
    LET files == groups[i].files
        b == CHOOSE f \in ToSet(files) : \A g \in ToSet(files) : best[g.path] <= best[f.path]
        Moves(S, dir) == [k \in DOMAIN S |-> [from |-> S[k].path, dir |-> dir, title |-> groups[i].title]]
    IN  Moves(<<b>>, "high") \o Moves(Selected(files, LAMBDA f : f # b), "low")])
============================================================================
