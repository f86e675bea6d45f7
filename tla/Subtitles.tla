------------------------------ MODULE Subtitles ------------------------------
(* SubtitleMatcher, SubtitleIndex and SubtitleIndexCache: the subtitles of a *)
(* directory, indexed once and kept while its modification time stands.      *)
(*                                                                           *)
(* A name is the sequence of its symbols; a symbol is a letter, a space or a *)
(* whole mark such as "[1080p]".  Every change of the directory gives it a   *)
(* new modification time.                                                    *)
EXTENDS Naturals, Sequences, FiniteSets, Functions, Selections

CONSTANTS
    Subs, Stem,  \* the subtitle files there may be, and their names
    Videos,      \* names of videos
    Contents,    \* what a file may hold, as its SHA-256
    SubtitleMarks, VideoMarks, Brackets, Hashes, \* kinds of symbols
    Space, Rank, \* the blank, and the order of the symbols
    Lower,       \* of the symbols that lower() changes
    NoIndex, MaxChanges

\* The order of the symbols is that of the characters.
ASSUME SubtitlesAssumption ==
    /\ IsFiniteSet(Subs) /\ Rank \in [DOMAIN Rank -> Nat]
    /\ \A a, b \in DOMAIN Rank : Rank[a] = Rank[b] => a = b
    /\ \A a \in DOMAIN Lower : Lower[a] \in DOMAIN Rank
    /\ \A f \in Subs : Stem[f] \in Seq(SubtitleMarks \cup Brackets \cup DOMAIN Rank)
    /\ \A v \in Videos : v \in Seq(VideoMarks \cup SubtitleMarks \cup Brackets \cup DOMAIN Rank)

VARIABLES
    directory,  \* [file -> what it holds], of the files there are
    mtime,      \* of the directory
    cached,     \* [index, mtime, raced]: what the cache has of the directory
    build       \* [at, listed, index, raced]: a call of get_or_build;
                \* raced: history, the directory changed meanwhile, or a file
                \* that is there was taken out of the index

subtitleVars == <<directory, mtime, cached, build>>

Present == DOMAIN directory
EmptyIndex == [hash_index |-> <<>>, name_index |-> <<>>, keys |-> <<>>, metadata |-> <<>>]
NoBuild == [at |-> "idle", listed |-> {}, index |-> EmptyIndex, raced |-> FALSE]

SubtitlesInit ==
    /\ directory \in UNION {[S -> Contents] : S \in SUBSET Subs}
    /\ mtime = 0 /\ cached = NoIndex /\ build = NoBuild
-----------------------------------------------------------------------------
(* Names.                                                                    *)

Without(name, marks) == Selected(name, LAMBDA s : s \notin marks)

Stripped(name) ==
    LET solid == {i \in DOMAIN name : name[i] # Space}
    IN  IF solid = {} THEN <<>>
        ELSE SubSeq(name, CHOOSE i \in solid : \A j \in solid : i <= j,
                          CHOOSE i \in solid : \A j \in solid : i >= j)

Collapsed(name) ==
    FoldLeft(LAMBDA t, s : IF s = Space /\ t # <<>> /\ Last(t) = Space THEN t ELSE Append(t, s),
             <<>>, name)

clean_subtitle_name(name) == Stripped(Without(name, SubtitleMarks))
clean_video_name(name) == Stripped(Without(name, VideoMarks))

Lowered(name) == [i \in DOMAIN name |-> IF name[i] \in DOMAIN Lower THEN Lower[name[i]] ELSE name[i]]

normalize_subtitle_name(name) ==
    Stripped(Collapsed(Lowered(Without(name, SubtitleMarks \cup Brackets))))

HashesIn(name) == Selected(name, LAMBDA s : s \in Hashes)

\* split() has more than one word; join() of all but the last one.
Spaces(name) == {i \in DOMAIN Collapsed(name) : Collapsed(name)[i] = Space}
LastWordDropped(name) ==
    SubSeq(Collapsed(name), 1, (CHOOSE i \in Spaces(name) : \A j \in Spaces(name) : j <= i) - 1)

matches_video(subtitle, video) ==
    LET s == clean_subtitle_name(subtitle)
        v == clean_video_name(video)
    IN  \/ IsPrefix(s, v) \/ IsPrefix(v, s)
        \/ ToSet(HashesIn(subtitle)) \cap ToSet(HashesIn(video)) # {}
        \/ Spaces(s) # {} /\ LastWordDropped(s) = v
        \/ Spaces(v) # {} /\ LastWordDropped(v) = s
        \/ Spaces(s) # {} /\ Spaces(v) # {} /\ LastWordDropped(s) = LastWordDropped(v)
-----------------------------------------------------------------------------
(* SubtitleIndex.                                                            *)

Precedes(s, t) ==
    \/ IsStrictPrefix(s, t)
    \/ \E i \in DOMAIN s \cap DOMAIN t :
         /\ \A j \in 1 .. i - 1 : s[j] = t[j]
         /\ Rank[s[i]] < Rank[t[i]]

\* bisect_left on the sorted keys, as the number of keys to its left.
bisect_left(keys, name) == Cardinality({i \in DOMAIN keys : Precedes(keys[i], name)})

Listed(table, key) == IF key \in DOMAIN table THEN table[key] ELSE <<>>

\* Lists keep each file once.
AddedTo(table, key, f) ==
    LET list == Listed(table, key)
    IN  [k \in DOMAIN table \cup {key} |->
           IF k # key THEN table[k] ELSE IF Contains(list, f) THEN list ELSE Append(list, f)]

RemovedFrom(table, key, f) ==
    LET list == Selected(Listed(table, key), LAMBDA g : g # f)
    IN  [k \in IF list = <<>> THEN DOMAIN table \ {key} ELSE DOMAIN table |->
           IF k = key THEN list ELSE table[k]]

Named(index, f, name) ==
    IF name = <<>> THEN index.name_index ELSE AddedTo(index.name_index, name, f)

\* Mutant: a new key goes to the end of the sorted ones.
InsortAtEnd(index, name) ==
    IF name = <<>> \/ name \in DOMAIN index.name_index THEN index.keys
    ELSE Append(index.keys, name)

Insort(index, name) ==
    IF name = <<>> \/ name \in DOMAIN index.name_index THEN index.keys
    ELSE InsertAt(index.keys, bisect_left(index.keys, name) + 1, name)

\* add_file: nothing for a file that is gone, or is there with another content.
add_file(index, f) ==
    LET name == normalize_subtitle_name(Stem[f])
    IN  IF f \notin Present \/ f \in DOMAIN index.metadata THEN index
        ELSE [hash_index |-> AddedTo(index.hash_index, directory[f], f),
              name_index |-> Named(index, f, name),
              keys       |-> Insort(index, name),
              metadata   |-> [g \in DOMAIN index.metadata \cup {f} |->
                                IF g = f THEN <<directory[f], name>> ELSE index.metadata[g]]]

\* remove_file goes by what was noted when the file was added.
remove_file(index, f) ==
    IF f \notin DOMAIN index.metadata THEN index
    ELSE LET hash == index.metadata[f][1]
             name == index.metadata[f][2]
             names == RemovedFrom(index.name_index, name, f)
         IN  [hash_index |-> RemovedFrom(index.hash_index, hash, f),
              name_index |-> names,
              keys       |-> Selected(index.keys, LAMBDA k : k \in DOMAIN names),
              metadata   |-> Restrict(index.metadata, DOMAIN index.metadata \ {f})]

\* build_index: a file that is gone, or cannot be read, is passed over.
build_index(files) == FoldLeft(add_file, EmptyIndex, files)

get_by_hash(index, hash) == Listed(index.hash_index, hash)
get_by_name(index, name) == Listed(index.name_index, name)

\* From the first key that is not before the prefix up to one without it.
get_by_name_prefix(index, prefix) ==
    LET from == bisect_left(index.keys, prefix) + 1
        Run == {i \in from .. Len(index.keys) : \A j \in from .. i : IsPrefix(prefix, index.keys[j])}
    IN  IF prefix = <<>> THEN <<>>
        ELSE FoldLeft(LAMBDA matches, name : matches \o index.name_index[name], <<>>,
                      SubSeq(index.keys, from, from + Cardinality(Run) - 1))

Unique(list) ==
    FoldLeft(LAMBDA t, f : IF Contains(t, f) THEN t ELSE Append(t, f), <<>>, list)

\* The hash of the name is looked up among those of the contents.
CandidateSubtitles(video, index) ==
    LET hashes == HashesIn(video)
        name == normalize_subtitle_name(clean_video_name(video))
    IN  Unique((IF hashes = <<>> THEN <<>> ELSE get_by_hash(index, hashes[1]))
               \o get_by_name(index, name) \o get_by_name_prefix(index, name))

match_via_index(video, index) ==
    Selected(CandidateSubtitles(video, index), LAMBDA f : matches_video(Stem[f], video))

match_legacy(video) == {f \in Present : matches_video(Stem[f], video)}

find_matching_subtitles(video, index, strategy) ==
    LET found == ToSet(match_via_index(video, index))
    IN  CASE strategy = "legacy"   -> match_legacy(video)
          [] strategy = "indexed"  -> found
          [] strategy = "fallback" -> IF found = {} THEN match_legacy(video) ELSE found
-----------------------------------------------------------------------------
(* get_or_build: the directory may change between any two of its steps.      *)

\* The caller lists the directory; the cached index is taken or thrown away.
Ask ==
    /\ build.at = "idle"
    /\ IF cached # NoIndex /\ cached.mtime = mtime
       THEN UNCHANGED <<cached, build>>
       ELSE /\ cached' = NoIndex
            /\ build' = [NoBuild EXCEPT !.at = "listed", !.listed = Present]
    /\ UNCHANGED <<directory, mtime>>

Build ==
    /\ build.at = "listed"
    /\ \E order \in SetToSeqs(build.listed) :
         build' = [build EXCEPT !.at = "built", !.index = build_index(order)]
    /\ UNCHANGED <<directory, mtime, cached>>

\* The modification time is read when the index is made.
Keep ==
    /\ build.at = "built"
    /\ cached' = [index |-> build.index, mtime |-> mtime, raced |-> build.raced]
    /\ build' = NoBuild
    /\ UNCHANGED <<directory, mtime>>

\* The calls on an index that is in use.
Update ==
    /\ cached # NoIndex
    /\ \E f \in Subs :
         \/ cached' = [cached EXCEPT !.index = add_file(@, f)]
         \/ cached' = [cached EXCEPT !.index = remove_file(@, f),
                                     !.raced = @ \/ f \in Present]
    /\ UNCHANGED <<directory, mtime, build>>

invalidate ==
    /\ cached # NoIndex /\ cached' = NoIndex
    /\ UNCHANGED <<directory, mtime, build>>

\* A file comes, goes, or is written anew, which the directory does not show.
Change ==
    /\ \E f \in Subs :
         \/ /\ directory' = Restrict(directory, Present \ {f})
            /\ f \in Present /\ mtime < MaxChanges /\ mtime' = mtime + 1
         \/ \E c \in Contents :
              /\ directory' = [g \in Present \cup {f} |-> IF g = f THEN c ELSE directory[g]]
              /\ mtime' = IF f \in Present THEN mtime ELSE mtime + 1
              /\ f \in Present => directory[f] # c
              /\ f \notin Present => mtime < MaxChanges
    /\ build' = IF build.at = "idle" THEN build ELSE [build EXCEPT !.raced = TRUE]
    /\ UNCHANGED cached

SubtitlesNext == Ask \/ Build \/ Keep \/ Update \/ invalidate \/ Change

SubtitlesSpec == SubtitlesInit /\ [][SubtitlesNext]_subtitleVars
-----------------------------------------------------------------------------
\* The tables of an index are about the same files, once each, and the keys are
\* sorted: otherwise the search by prefix would stop too early.
IndexAgrees(index) ==
    LET In(table, key) == {f \in DOMAIN index.metadata : index.metadata[f][key] = table}
    IN  /\ \A h \in Range([f \in DOMAIN index.metadata |-> index.metadata[f][1]]) :
             ToSet(get_by_hash(index, h)) = In(h, 1)
        /\ DOMAIN index.name_index = {index.metadata[f][2] : f \in DOMAIN index.metadata} \ {<<>>}
        /\ \A n \in DOMAIN index.name_index :
             /\ ToSet(index.name_index[n]) = In(n, 2)
             /\ ToSet(get_by_name_prefix(index, n)) =
                  {f \in DOMAIN index.metadata : IsPrefix(n, index.metadata[f][2])}
        /\ ToSet(index.keys) = DOMAIN index.name_index /\ IsInjective(index.keys)

\* With the index a video finds none that the names do not allow, and every one
\* they do whose name goes on where the video's ends.
FindsAsNamed(index, video) ==
    LET found == match_via_index(video, index)
        name == normalize_subtitle_name(clean_video_name(video))
    IN  /\ IsInjective(found)
        /\ \A f \in ToSet(found) : matches_video(Stem[f], video)
        /\ name # <<>> =>
             \A f \in DOMAIN index.metadata :
               matches_video(Stem[f], video) /\ IsPrefix(name, normalize_subtitle_name(Stem[f]))
                 => f \in ToSet(found)

\* An index kept for the directory as it is has all its subtitles, unless it
\* changed while the index was made; and then "fallback" misses a video's
\* subtitles only if there are none.
SubtitlesFound ==
    cached # NoIndex =>
      /\ IndexAgrees(cached.index)
      /\ \A v \in Videos : FindsAsNamed(cached.index, v)
      /\ cached.mtime = mtime /\ ~cached.raced =>
           /\ DOMAIN cached.index.metadata = Present
           /\ \A v \in Videos :
                LET fallback == find_matching_subtitles(v, cached.index, "fallback")
                IN  fallback \subseteq match_legacy(v) /\ (fallback = {} => match_legacy(v) = {})
=============================================================================
