---------------------------- MODULE Destinations ----------------------------
(* Where a file of the library goes: FileOrganizer._build_destination_path,  *)
(* PathBuilder, ResolutionAnalyzer and ResolutionDetector.  Three classes    *)
(* tell a resolution from the same file name, each in its own way.           *)
(*                                                                           *)
(* A file is a record: marks is the sequence of the tokens of its name that  *)
(* the patterns look at, the other fields are what the parser, the match and *)
(* ffprobe say of it.  Text is a sequence of pieces: a placeholder, "/", a   *)
(* blank, or a word.                                                         *)
EXTENDS Naturals, Sequences, FiniteSets, SequencesExt

CONSTANTS
    Wrap, Label, Size, Hints, \* of a token: how it is written, its label, its
                              \* dimensions, and the classes its text contains
    High,        \* labels of VideoQuality.HIGH_RESOLUTION
    Upper,       \* of a quality: its upper case
    Forbidden,   \* INVALID_FILENAME_CHARS and the underscore
    SeasonText, YearText, \* f"Season {n:02d}" and str(year)
    Placeholders, NoText

NoSize == <<0, 0>>

\* The placeholders of a template, whose names in the code are Korean.  A
\* quality is one piece: none holds a slash.
Resolution == "{resolution}"
Year == "{year}"
Title == "{title}"
Season == "{season}"
-----------------------------------------------------------------------------
(* Dimensions: PathBuilder, ResolutionAnalyzer, ResolutionDetector.          *)

AtLeast(size, width, height) == size[1] >= width \/ size[2] >= height

\* Mutant: both sides must be long enough.
BothAtLeast(size) ==
    CASE size[1] >= 1920 /\ size[2] >= 1080 -> "1080P" [] size[1] >= 1280 /\ size[2] >= 720 -> "720P"
      [] size[1] >= 854 /\ size[2] >= 480 -> "480P" [] OTHER -> "SD"

map_dimensions_to_resolution(size) ==
    CASE AtLeast(size, 1920, 1080) -> "1080P" [] AtLeast(size, 1280, 720) -> "720P"
      [] AtLeast(size, 854, 480) -> "480P" [] OTHER -> "SD"

AnalyzerLabel(size) ==
    CASE AtLeast(size, 1920, 1080) -> "1080P" [] AtLeast(size, 1280, 720) -> "720P"
      [] AtLeast(size, 854, 480) -> "480P" [] OTHER -> "SD"

classify_resolution(size) ==
    CASE AtLeast(size, 3840, 2160) -> "4K" [] AtLeast(size, 1920, 1080) -> "1080p"
      [] AtLeast(size, 1280, 720) -> "720p" [] AtLeast(size, 854, 480) -> "480p" [] OTHER -> "SD"
-----------------------------------------------------------------------------
(* File names.                                                               *)

FirstOf(marks, Test(_)) ==
    LET found == SelectSeq(marks, Test) IN IF found = <<>> THEN NoText ELSE found[1]

\* RESOLUTION_PATTERNS: square brackets before round ones before bare words.
LabelIn(file) ==
    LET Of(wrap) == FirstOf(file.marks, LAMBDA t : Wrap[t] = wrap /\ Label[t] # NoText)
    IN  IF Of("square") # NoText THEN Label[Of("square")]
        ELSE IF Of("round") # NoText THEN Label[Of("round")]
        ELSE IF Of("bare") # NoText THEN Label[Of("bare")] ELSE NoText

SizeIn(file) ==
    LET token == FirstOf(file.marks, LAMBDA t : Size[t] # NoSize)
    IN  IF token = NoText THEN NoSize ELSE Size[token]

detect_from_filename_pattern(file) ==
    IF LabelIn(file) # NoText THEN LabelIn(file)
    ELSE IF SizeIn(file) # NoSize THEN AnalyzerLabel(SizeIn(file)) ELSE NoText

Classes == <<"4K", "1080p", "720p", "480p">>

\* _try_detect_from_filename: the classes in order, then any dimensions.
ClassIn(file) ==
    LET class == SelectSeq(Classes, LAMBDA c : \E i \in DOMAIN file.marks : c \in Hints[file.marks[i]])
    IN  IF class # <<>> THEN class[1]
        ELSE IF SizeIn(file) # NoSize THEN classify_resolution(SizeIn(file)) ELSE NoText

\* ffprobe: an error, a timeout or nonsense is no resolution.
detect_from_file_properties(file) ==
    IF file.probe[1] = 0 \/ file.probe[2] = 0 THEN NoText ELSE classify_resolution(file.probe)

detect_resolution(file) ==
    IF ClassIn(file) # NoText THEN ClassIn(file) ELSE detect_from_file_properties(file)

ClassRank(quality) ==
    CASE quality = "4K" -> 4 [] quality = "1080p" -> 3 [] quality = "720p" -> 2
      [] quality = "480p" -> 1 [] OTHER -> 0

\* As long as the best has no quality the next file is better, whatever it is.
is_better_resolution(current, best) ==
    best = NoText \/ (current # NoText /\ ClassRank(current) > ClassRank(best))

find_highest_resolution(files) ==
    FoldLeft(LAMBDA best, f :
               IF best = <<>> \/ is_better_resolution(detect_resolution(f), detect_resolution(best[1]))
               THEN <<f>> ELSE best, <<>>, files)

group_by_resolution(files) ==
    LET Of(f) == IF detect_resolution(f) = NoText THEN "unknown" ELSE detect_resolution(f)
    IN  [q \in {Of(files[i]) : i \in DOMAIN files} |-> SelectSeq(files, LAMBDA f : Of(f) = q)]
-----------------------------------------------------------------------------
(* ResolutionAnalyzer.                                                       *)

\* Brackets, "- 05", "(05)", or the stem without either.
TitleInName(file) ==
    IF file.bracket # NoText THEN file.bracket
    ELSE IF file.dashed # NoText THEN file.dashed
    ELSE IF file.numbered # NoText THEN file.numbered ELSE <<file.name>>

Info(series, quality) == [series |-> series, high |-> quality \in High]

\* A name's title is blank when the brackets hold nothing.
extract_file_resolution(file) ==
    LET label == detect_from_filename_pattern(file)
    IN  IF file.match # NoText /\ file.quality # NoText THEN {Info(file.match.title, Upper[file.quality])}
        ELSE IF label = NoText THEN {}
        ELSE IF file.match # NoText THEN {Info(file.match.title, label)}
        ELSE IF TitleInName(file) = <<>> THEN {} ELSE {Info(TitleInName(file), label)}

analyze_series(files) ==
    LET Infos(i) == extract_file_resolution(files[i])
        series == {info.series : info \in UNION {Infos(i) : i \in DOMAIN files}}
    IN  [t \in series |->
           LET of == {i \in DOMAIN files : \E info \in Infos(i) : info.series = t}
               kinds == {info.high : info \in UNION {Infos(i) : i \in of}}
           IN  [mixed |-> Cardinality(kinds) > 1, count |-> Cardinality(of)]]
-----------------------------------------------------------------------------
(* PathBuilder.                                                              *)

extract_series_title(file) ==
    IF file.match # NoText THEN file.match.title
    ELSE IF file.title # NoText THEN file.title
    ELSE IF file.bracket \notin {NoText, <<>>} THEN file.bracket
    ELSE IF file.numbered \notin {NoText, <<>>} THEN file.numbered
    ELSE IF file.dashed \notin {NoText, <<>>} THEN file.dashed ELSE <<file.name>>

\* What Windows forbids becomes a blank; blanks and dots at the ends go.
sanitize_filename(text) ==
    LET blank == [i \in DOMAIN text |-> IF text[i] \in Forbidden THEN " " ELSE text[i]]
        solid == {i \in DOMAIN blank : blank[i] \notin {" ", "."}}
        core == IF solid = {} THEN <<>>
                ELSE SubSeq(blank, CHOOSE i \in solid : \A j \in solid : i <= j,
                                   CHOOSE i \in solid : \A j \in solid : i >= j)
        once == FoldLeft(LAMBDA t, p : IF p = " " /\ Last(t) = " " THEN t ELSE Append(t, p), <<"">>, core)
    IN  IF core = <<>> THEN <<"Unknown">> ELSE Tail(once)

extract_resolution(file) ==
    IF file.quality # NoText THEN Upper[file.quality]
    ELSE IF LabelIn(file) # NoText THEN LabelIn(file)
    ELSE IF SizeIn(file) # NoSize THEN map_dimensions_to_resolution(SizeIn(file))
    ELSE IF detect_resolution(file) # NoText THEN Upper[detect_resolution(file)] ELSE NoText

extract_season_number(file) == IF file.season = NoText THEN SeasonText[1] ELSE SeasonText[file.season]

\* The year of the match, never that of the file name.
extract_year_from_tmdb(file) ==
    IF file.match # NoText /\ file.match.year \in 1900 .. 2030 THEN YearText[file.match.year]
    ELSE "unknown"

Replaced(text, key, value) ==
    FlattenSeq([i \in DOMAIN text |-> IF text[i] = key THEN value ELSE <<text[i]>>])

\* The pieces between the slashes that are not blank.
Parts(text) ==
    LET cuts == {0, Len(text) + 1} \cup {i \in DOMAIN text : text[i] = "/"}
        After(i) == CHOOSE j \in cuts : i < j /\ \A k \in cuts : i < k => j <= k
        starts == SetToSortSeq(cuts \ {Len(text) + 1}, <)
        all == [n \in DOMAIN starts |-> SubSeq(text, starts[n] + 1, After(starts[n]) - 1)]
    IN  SelectSeq(all, LAMBDA p : \E i \in DOMAIN p : p[i] # " ")

\* One placeholder after the other: a value may hold the next placeholder.
build_path_from_template(template, resolution, year, title, season) ==
    LET text == Replaced(Replaced(Replaced(Replaced(template, Resolution, resolution),
                                           Year, <<year>>), Title, title), Season, <<season>>)
        named == [i \in DOMAIN text |-> IF text[i] \in Placeholders THEN "unknown" ELSE text[i]]
    IN  IF Parts(named) = <<>> THEN <<title, <<season>>>> ELSE Parts(named)

\* The folder settings may say the template, or only what to sort by.
effective_path_template(folders) ==
    IF \E i \in DOMAIN folders.template : folders.template[i] # " " THEN folders.template
    ELSE (IF folders.by_resolution THEN <<Resolution, "/">> ELSE <<>>)
         \o (IF folders.by_year THEN <<Year, "/">> ELSE <<>>) \o <<Title, "/", Season>>

\* Below the target folder and the media type; a label is in lower case.
build_destination_path(file, folders) ==
    LET label == extract_resolution(file)
    IN  build_path_from_template(
          effective_path_template(folders), <<IF label = NoText THEN "unknown" ELSE label>>,
          extract_year_from_tmdb(file), sanitize_filename(extract_series_title(file)),
          extract_season_number(file)) \o <<<<file.name>>>>
-----------------------------------------------------------------------------
\* The file chosen as the best is one of them, none is of a higher class, and
\* no file is lost or in two groups.
BestIsBest(files) ==
    LET best == find_highest_resolution(files)
        groups == group_by_resolution(files)
    IN  /\ files = <<>> <=> best = <<>>
        /\ best # <<>> =>
             /\ best[1] \in ToSet(files)
             /\ \A i \in DOMAIN files : ClassRank(detect_resolution(files[i])) <= ClassRank(detect_resolution(best[1]))
        /\ \A i \in DOMAIN files : Cardinality({q \in DOMAIN groups : files[i] \in ToSet(groups[q])}) = 1

\* What a series is sorted by and where its file goes are told by two classes:
\* they agree whether a matched file is of high resolution.
AnalyzerAgrees(file) ==
    file.match # NoText =>
      \A info \in extract_file_resolution(file) : info.high <=> extract_resolution(file) \in High

\* A title never adds a level to the library or leaves one out, and no level is
\* blank: the path is as deep as the template.
AsDeepAsTemplate(file, folders) ==
    LET path == build_destination_path(file, folders)
        template == effective_path_template(folders)
    IN  /\ Len(path) = 1 + (IF Parts(template) = <<>> THEN 2 ELSE Len(Parts(template)))
        /\ path[Len(path)] = <<file.name>>
        /\ \A n \in DOMAIN path : "/" \notin ToSet(path[n])

\* Of one file a series is never mixed; of several it is if they differ.
MixedIfBoth(files) ==
    LET summary == analyze_series(files)
        HighIn(i, t) == \E info \in extract_file_resolution(files[i]) : info.series = t /\ info.high
        LowIn(i, t) == \E info \in extract_file_resolution(files[i]) : info.series = t /\ ~info.high
    IN  \A t \in DOMAIN summary :
          /\ summary[t].count \in 1 .. Len(files)
          /\ summary[t].mixed <=> \E i, j \in DOMAIN files : HighIn(i, t) /\ LowIn(j, t)

DestinationsTrue(files, folders) ==
    /\ BestIsBest(files) /\ MixedIfBoth(files)
    /\ \A i \in DOMAIN files : AnalyzerAgrees(files[i]) /\ AsDeepAsTemplate(files[i], folders)
=============================================================================
