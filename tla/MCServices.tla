----------------------------- MODULE MCServices -----------------------------
(* Components that share nothing, model-checked side by side: a behaviour is *)
(* one of the component that part names, and the others rest.                *)
EXTENDS ScanController, TokenBucket, Subtitles

CONSTANTS
    Dirs, FilesOf, RootFiles, Threshold, QueueSize, SENTINEL, Reentrant, \* ParallelScan
    Suffix, Patterns, Known, Malformed, Batch, Concurrency, Likeness, Weight,
    MinConfidence, Fetchable, None, MaxFailures,                  \* Enricher
    Users, Keys, Types, Data, Main, Ttls, MaxTime, MaxSteps, MaxFaults, \* SearchStore
    ApiKeys, Folders, KeyLength, BadFolders, Torn, Empty, MaxSaves, MaxErrors, \* Settings
    Wrap, Label, Size, Hints, High, Upper, Forbidden, SeasonText, YearText, Placeholders,
    NoText,                                                       \* Destinations
    Library, Ending, ExtensionLists, CLI_VIDEO_EXTENSIONS, NoFiles, \* RunFlow
    Wired, NormalizedToList                                       \* Commands

\* What lies below one directory of the root does not lie below another: links
\* are left out.
ASSUME ParallelAssumption ==
    /\ IsFiniteSet(Dirs) /\ FilesOf \in [Dirs -> SUBSET UNION {FilesOf[d] : d \in Dirs}]
    /\ \A d \in Dirs : FilesOf[d] \cap (RootFiles \cup {SENTINEL}) = {}
    /\ \A d, e \in Dirs : d # e => FilesOf[d] \cap FilesOf[e] = {}
    /\ SENTINEL \notin RootFiles

\* All that TMDB has of a kind.
CandidatesOf(type) == UNION {ToSet(Known[type][q]) : q \in DOMAIN Known[type]}
Candidates == CandidatesOf("tv") \cup CandidatesOf("movie")

\* EnrichedMetadata: an enriched item.
Items == [status : {"skipped", "failed", "success"}, score : Nat,
          details : DOMAIN Fetchable \cup {None}]

\* The configuration is refused unless the weights add up to one, and the least
\* confidence is a constant above zero.
ASSUME EnricherAssumption ==
    /\ Concurrency \in Nat \ {0} /\ Patterns \in Nat /\ IsFiniteSet(DOMAIN Batch)
    /\ \A t \in DOMAIN Batch : Batch[t].title \in Seq(DOMAIN Suffix)
    /\ \A type \in {"tv", "movie"} : \A q \in DOMAIN Known[type] :
         Known[type][q] \in Seq(Candidates)
    /\ None \notin Candidates \cup Items
    /\ \A t \in DOMAIN Batch : \A c \in Candidates :
         Batch[t].title # <<>> /\ c.name # None =>
           Likeness[Batch[t].title][c.name]
             \in [how : {"same", "case", "part", "fuzzy"}, ratio : 0 .. 100]
    /\ Weight \in [title : Nat, year : Nat, kind : Nat]
    /\ Weight.title + Weight.year + Weight.kind > 0 /\ MinConfidence \in Nat \ {0}

ASSUME StoreAssumption ==
    /\ IsFiniteSet(Users) /\ Ttls \subseteq Nat /\ MaxTime \in Nat /\ MaxSteps \in Nat
    /\ None \notin Nat \cup Data

\* What a configuration file may hold.
Configs == [key : ApiKeys \cup {Empty}, folders : Folders \cup {None}]

ASSUME SettingsAssumption ==
    /\ {None, Torn} \cap Configs = {} /\ {None, Empty} \cap ApiKeys = {}
    /\ None # Torn /\ None # Empty /\ KeyLength \in [ApiKeys -> Nat]

\* Lists of files, see RunFlow.
Lists == UNION {[S -> {"parsed", "matched", "failed"}] : S \in SUBSET Library}

ASSUME RunAssumption == IsFiniteSet(Library) /\ NoFiles \notin Lists

VARIABLES
    part,
    kind, at, dirs, job, found, batch, counts, depth, stats, put, taken, stop, lost, unread, broke,
    pc, search, permits, enriched, best, missed,
    file, rows, made, phase, path, conn, now, opened, faults, undeleted, shared,
    env_file, environ, files, instance, settings, dialog, saves, errors, behind,
    asked, step, present, scanned, matched, plan, results, timers, outcome,
    call, stage, out, answer, moved, verified, exit, fault,
    given   \* the files and the folder settings that Destinations is asked about

Par   == INSTANCE ParallelScan WITH Capacity <- QueueSize
Enr   == INSTANCE Enricher
Store == INSTANCE SearchStore
Set   == INSTANCE Settings
Dest  == INSTANCE Destinations
Run   == INSTANCE RunFlow
Cli   == INSTANCE Commands

parallelScanVars == <<kind, at, dirs, job, found, batch, counts, depth, stats, put, taken,
                      stop, lost, unread, broke>>
enricherVars == <<pc, search, permits, enriched, best, missed>>
storeVars ==
    <<file, rows, made, phase, path, conn, now, opened, faults, undeleted, shared>>
settingsVars ==
    <<env_file, environ, files, instance, settings, dialog, saves, errors, behind>>
runVars == <<asked, step, present, scanned, matched, plan, results, timers, outcome>>
commandVars == <<call, stage, out, answer, moved, verified, exit, fault>>
servicesVars ==
    <<part, vars, bucketVars, parallelScanVars, enricherVars, storeVars, settingsVars,
      subtitleVars, runVars, commandVars, given>>
-----------------------------------------------------------------------------
(* The files and settings that Destinations is asked about.                  *)

NoDimensions == <<0, 0>>  \* NoSize of Destinations
Token(wrap, label, size, hints) == [wrap |-> wrap, label |-> label, size |-> size, hints |-> hints]
Tokens == "[1080p]" :> Token("square", "1080P", NoDimensions, {"1080p"}) @@ "(720p)" :> Token("round", "720P", NoDimensions, {"720p"})
  @@ "UHD" :> Token("bare", "UHD", NoDimensions, {"720p"}) @@ "HDR" :> Token("bare", NoText, NoDimensions, {"720p"})
  @@ "1920x800" :> Token("bare", NoText, <<1920, 800>>, {}) @@ "2160p" :> Token("bare", "2160P", NoDimensions, {"4K"})
  @@ "854x480" :> Token("bare", NoText, <<854, 480>>, {"480p"})
MCWrap == [t \in DOMAIN Tokens |-> Tokens[t].wrap]
MCLabel == [t \in DOMAIN Tokens |-> Tokens[t].label]
MCSize == [t \in DOMAIN Tokens |-> Tokens[t].size]
MCHints == [t \in DOMAIN Tokens |-> Tokens[t].hints]
MCUpper == "1080p" :> "1080P" @@ "720p" :> "720P" @@ "4K" :> "4K" @@ "480p" :> "480P" @@ "SD" :> "SD"
MCSeasonText == 1 :> "Season 01" @@ 2 :> "Season 02"
MCYearText == 2001 :> "2001"
MCForbidden == {"/", "\\", "_"}
F(name, marks, match, title, season, quality, bracket, dashed, numbered, probe) ==
  [name |-> name, marks |-> marks, match |-> match, title |-> title, season |-> season, quality |-> quality,
   bracket |-> bracket, dashed |-> dashed, numbered |-> numbered, probe |-> probe]
M1 == [title |-> <<"A", "/", "B">>, year |-> 2001]
M2 == [title |-> <<" ", ".">>, year |-> 1800]
M3 == [title |-> <<Dest!Season>>, year |-> 2001]
Shelf == {
  F("f1", <<"[1080p]">>, M1, <<"a">>, 2, NoText, <<"1080p">>, NoText, NoText, NoDimensions),
  F("f2", <<"HDR", "1920x800">>, M1, <<"a">>, NoText, NoText, NoText, NoText, NoText, NoDimensions),
  F("f3", <<"UHD", "(720p)">>, M1, NoText, 1, NoText, NoText, NoText, NoText, NoDimensions),
  F("f4", <<"2160p">>, M2, <<"b">>, NoText, "720p", NoText, NoText, NoText, NoDimensions),
  F("f5", <<>>, NoText, NoText, NoText, NoText, <<>>, <<"c">>, <<"d", "\\">>, NoDimensions),
  F("f6", <<"854x480">>, NoText, <<Dest!Title>>, 1, "4K", NoText, <<"c">>, NoText, <<1280, 720>>),
  F("f7", <<>>, M3, NoText, 1, NoText, NoText, NoText, NoText, <<1280, 720>>),
  F("f8", <<"(720p)">>, NoText, NoText, 1, NoText, NoText, <<"c">>, NoText, NoDimensions),
  F("f9", <<"2160p">>, NoText, NoText, 1, NoText, NoText, <<"c">>, NoText, NoDimensions)}
FolderSettings == [template : {<<>>, <<" ">>, <<Dest!Resolution, "/", "/", Dest!Title, " ", Dest!Year, "/", "{x}">>, <<"/">>, <<"x">>}, by_resolution : BOOLEAN, by_year : BOOLEAN]
Given == [files : {<<>>} \cup {<<f>> : f \in Shelf} \cup (Shelf \X Shelf), folders : FolderSettings]
-----------------------------------------------------------------------------
ServicesInit ==
    /\ part \in {"scan", "bucket", "parallel", "enricher", "store", "settings", "subtitles",
                "destinations", "run", "commands"}
    /\ Init /\ BucketInit /\ Enr!Init /\ Store!Init
    /\ IF part = "parallel" THEN Par!ParallelInit
       ELSE /\ kind = None /\ at = None /\ dirs = {} /\ job = <<>> /\ found = <<>> /\ batch = {}
            /\ counts = None /\ depth = 0 /\ stats = [files |-> 0, dirs |-> 0] /\ put = <<>>
            /\ taken = 0 /\ stop = FALSE /\ lost = {} /\ unread = {} /\ broke = FALSE
    /\ IF part = "settings" THEN Set!Init
       ELSE /\ env_file = None /\ environ = None /\ files = <<>> /\ instance = None
            /\ settings = None /\ dialog = Set!Closed /\ saves = 0 /\ errors = 0
            /\ behind = FALSE
    /\ IF part = "subtitles" THEN SubtitlesInit
       ELSE /\ directory = <<>> /\ mtime = 0 /\ cached = NoIndex /\ build = NoBuild
    /\ IF part = "run" THEN Run!RunInit
       ELSE /\ asked = None /\ step = "done" /\ present = {} /\ scanned = NoFiles
            /\ matched = NoFiles /\ plan = NoFiles /\ results = <<>> /\ timers = {}
            /\ outcome = None
    /\ IF part = "commands" THEN Cli!CommandInit
       ELSE /\ call = None /\ stage = "exited" /\ out = <<>> /\ answer = "none"
            /\ moved = FALSE /\ verified = <<>> /\ exit = 0 /\ fault = FALSE
    /\ IF part = "destinations" THEN given \in Given ELSE given = None

\* A step of one component only.
Of(p) ==
    /\ part = p /\ part' = p
    /\ p # "scan" => UNCHANGED vars
    /\ p # "bucket" => UNCHANGED bucketVars
    /\ p # "parallel" => UNCHANGED parallelScanVars
    /\ p # "enricher" => UNCHANGED enricherVars
    /\ p # "store" => UNCHANGED storeVars
    /\ p # "settings" => UNCHANGED settingsVars
    /\ p # "subtitles" => UNCHANGED subtitleVars
    /\ p # "run" => UNCHANGED runVars
    /\ p # "commands" => UNCHANGED commandVars
    /\ UNCHANGED given

ServicesNext ==
    \/ Of("scan") /\ Next
    \/ Of("bucket") /\ BucketNext
    \/ Of("parallel") /\ Par!ParallelNext
    \/ Of("enricher") /\ Enr!Next
    \/ Of("store") /\ Store!Next
    \/ Of("settings") /\ Set!Next
    \/ Of("subtitles") /\ SubtitlesNext
    \/ Of("run") /\ Run!RunNext
    \/ Of("commands") /\ Cli!CommandNext

\* Fairness and FairSpec of each.
ServicesFairness ==
    /\ \A s \in Scans : WF_servicesVars(Of("scan") /\ ChildExits(s))
    /\ WF_servicesVars(Of("scan") /\ StopDeferred)
    /\ WF_servicesVars(Of("scan") /\ PollBegins)
    /\ WF_servicesVars(Of("scan") /\ Poll)

ServicesSpec == ServicesInit /\ [][ServicesNext]_servicesVars /\ ServicesFairness

\* A scan the window was told of is over, once, and with the result it was said
\* to have, see FinishedIsTrue and ReportedOnce.
ReportsAreTrue == FinishedIsTrue /\ ReportedOnce

\* See ParallelScan.
ParallelSound == part = "parallel" => Par!ParallelSound

\* See Enricher.
EnrichedTrue == Enr!EnrichedTrue

\* See SearchStore.
StoreSound == Store!StoreSound

\* See Settings.
SettingsAgree == part = "settings" => Set!SettingsAgree

\* See Destinations.
DestinationsTrue ==
    part = "destinations" => Dest!DestinationsTrue(given.files, given.folders)

\* See RunFlow.
RunSound == part = "run" => Run!RunSound

\* See Commands.
CommandsSound == part = "commands" => Cli!CommandsSound
-----------------------------------------------------------------------------
W(name, type, year, id, blank) == [id |-> id, name |-> name, kind |-> type, year |-> year, blank |-> blank]
MCShow  == W("n1", "tv", 2001, 1, FALSE)
MCFilm  == W("n1", "movie", 2000, 2, FALSE)
MCOther == W("n2", "tv", 1999, 3, FALSE)
MCNameless == W(None, "tv", 2001, 4, FALSE)
MCBlank == W("n3", "movie", 2001, 5, TRUE)
MCKnown == [tv |-> (<<"a">> :> <<MCNameless, MCOther>>) @@ (<<"a", "b">> :> <<MCOther, MCShow>>) @@ (<<"b">> :> <<MCShow>>),
            movie |-> (<<"a">> :> <<MCFilm>>) @@ (<<"b">> :> <<MCBlank>>)]
MCBatch == <<[title |-> <<"a", "b", "x", "v2">>, year |-> 2000, season |-> 1, episode |-> 2],
             [title |-> <<"a", "x">>, year |-> 2000, season |-> None, episode |-> None],
             [title |-> <<"b">>, year |-> None, season |-> None, episode |-> 3],
             [title |-> <<>>, year |-> None, season |-> None, episode |-> None]>>
Like(h, r) == [how |-> h, ratio |-> r]
MCLikeness == [t \in {MCBatch[i].title : i \in DOMAIN MCBatch} |->
   [n \in {"n1", "n2", "n3"} |-> CASE n = "n1" -> Like("same", 0) [] n = "n2" -> Like("fuzzy", 40) [] n = "n3" -> Like("case", 0)]]
MCSuffix == [w \in {"a", "b", "x", "v2"} |-> IF w = "v2" THEN 1 ELSE 0]
MCWeight == [title |-> 6, year |-> 2, kind |-> 2]
MCFetchable == 1 :> [title |-> "N1", year |-> 2001] @@ 2 :> [title |-> "N1", year |-> 2000]
MCFilesOf == "d1" :> {"a"} @@ "d2" :> {"b"}
MCStem == "f1" :> <<"s"," ","1","[eng]">> @@ "f2" :> <<"s"," ","1","0">> @@ "f3" :> <<"[grp]","S"," ","1","[H]">>
MCVideos == {<<"s"," ","1","[1080p]">>, <<"s"," ","2">>, <<"[H]">>, <<"s">>}
MCRank == " " :> 0 @@ "0" :> 1 @@ "1" :> 2 @@ "2" :> 3 @@ "s" :> 5 @@ "S" :> 4
MCLower == "S" :> "s"
MCEnding == "a" :> ".mkv" @@ "b" :> ".ts"
MCExtensionLists == {{"mkv"}, {".mkv", ".ts"}}
MCKeyLength == [k \in ApiKeys |-> CASE k = "tiny" -> 5 [] k = "short" -> 12 [] OTHER -> 32]
=============================================================================
