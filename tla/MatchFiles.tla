---------------------------- MODULE MatchFiles ----------------------------
(* Matching files with TMDB: the window matches the list it shows, one     *)
(* search per series, and may be cancelled between two searches; the       *)
(* command line matches every file of the directory, some at a time.  Both *)
(* look in the cache first, an SQLite file that they share, and each has a *)
(* connection of its own that may fail at any call ("database is locked"). *)
(*                                                                         *)
(* Cancelling, a call of the cache that fails and a search that fails are  *)
(* steps of their own; between two awaits a task is one step.              *)
EXTENDS MatchEngine

CONSTANTS
  Paths,         \* the files of the directory
  Found,         \* the directory as the command line finds it
  Lists,         \* what the window may show: a scan, a scan matched before
  RawTitles,     \* what a name may be parsed to, or TMDB call a show
  ParsedTitle,   \* AnitopyParser.parse(path).title
  Series,        \* normalize_series_title
  Query,         \* normalize_query_from_anitopy, or NoTitle
  NoTitle,
  CacheKey,      \* _extract_series_title of a title, and the language
  Answers,       \* what TMDB may answer to a title
  TitleOf,       \* the title of a candidate
  YearOf,        \* the year of a candidate, or NoYear
  NoYear,
  TTL,           \* SEARCH_CACHE_TTL
  Concurrency,   \* of MatchUseCase.execute
  MaxTime, MaxFaults,  \* bounds
  MaxMatches     \* bound, per job

Keys == {CacheKey[t] : t \in Titles}
Years == {NoYear} \cup {YearOf[c] : c \in Candidates}
Jobs == {"window", "command"}
NoRow == [results |-> <<>>, expires |-> 0, there |-> FALSE]
File == [path : Paths, title : RawTitles, year : Years,
         tmdb : Candidates \cup {NoMatch}]

ASSUME MatchAssumption ==
  /\ Found \in Seq(Paths) /\ Lists \subseteq Seq(File)
  /\ ParsedTitle \in [Paths -> RawTitles]
  /\ Series \in [RawTitles -> RawTitles]
  /\ Query \in [RawTitles -> Titles \cup {NoTitle}]
  /\ NoTitle \notin Titles /\ NoMatch \notin Candidates
  /\ \A t \in Titles : Answers[t] \subseteq Seq(Candidates) /\ Answers[t] # {}
  /\ TitleOf \in [Candidates -> RawTitles]
  /\ {TTL, Concurrency} \subseteq Nat \ {0}
  /\ {MaxTime, MaxFaults} \subseteq Nat /\ MaxMatches \in [Jobs -> Nat]

VARIABLES
  files,      \* what the window shows
  tasks,      \* per job, its searches in the order they are started
  running,    \* the jobs under way
  cancelled,  \* the window's worker was told to stop
  rows,       \* the table tmdb_cache
  now,
  told,       \* for the properties: what TMDB answered, for TTL
  matches,    \* how often each job was started, bounded by MaxMatches
  faults      \* calls of the cache that failed, bounded by MaxFaults

vars == <<files, tasks, running, cancelled, rows, now, told, matches, faults>>

----------------------------------------------------------------------------
(* The cache (SQLiteCacheAdapter over SQLiteCacheDB).                      *)

\* CacheEntry.is_expired: a row is good at its last instant.
Live(row) == row.there /\ now <= row.expires

Cached(key) == Live(rows[key])

\* Mutant: an answer without results is not kept.
InsertSome(key, results) == IF results = <<>> THEN rows ELSE
  [rows EXCEPT ![key] = [results |-> results, expires |-> now + TTL,
                         there |-> TRUE]]

\* INSERT OR REPLACE under the key.
Insert(key, results) ==
  [rows EXCEPT ![key] = [results |-> results, expires |-> now + TTL,
                         there |-> TRUE]]

\* Opening the database purges what has expired.
Purged == [k \in Keys |-> IF rows[k].there /\ rows[k].expires < now
                          THEN NoRow ELSE rows[k]]

----------------------------------------------------------------------------
(* Starting a job.                                                         *)

Task(key, path, raw) ==
  [key |-> key, path |-> path, title |-> Query[raw], status |-> "waiting",
   match |-> NoMatch]

\* Mutant: every file is a group of its own.
SeriesKeyOfPath(f) == <<Series[f.title], f.path>>

SeriesKey(f) == <<Series[f.title], f.year>>

\* The groups by their first files, in the order those come.
Firsts(fs) == {i \in DOMAIN fs : \A j \in 1 .. (i - 1) : SeriesKey(fs[j]) # SeriesKey(fs[i])}

Until(fs, i) == {j \in Firsts(fs) : j <= i}

NthFirst(fs, n) == CHOOSE i \in Firsts(fs) : Cardinality(Until(fs, i)) = n

\* The first file of a group speaks for it.
WindowTasks ==
  [n \in 1 .. Cardinality(Firsts(files)) |->
     LET first == files[NthFirst(files, n)]
     IN  Task(SeriesKey(first), first.path, Series[first.title])]

\* Each opens the database, which purges it.
StartWindow ==
  /\ "window" \notin running /\ matches["window"] < MaxMatches["window"]
  /\ running' = running \cup {"window"}
  /\ tasks' = [tasks EXCEPT !["window"] = WindowTasks]
  /\ matches' = [matches EXCEPT !["window"] = @ + 1]
  /\ rows' = Purged
  /\ UNCHANGED <<files, cancelled, now, told, faults>>

StartCommand ==
  /\ "command" \notin running /\ matches["command"] < MaxMatches["command"]
  /\ running' = running \cup {"command"}
  /\ tasks' = [tasks EXCEPT !["command"] =
                 [n \in DOMAIN Found |->
                    Task(Found[n], Found[n], ParsedTitle[Found[n]])]]
  /\ matches' = [matches EXCEPT !["command"] = @ + 1]
  /\ rows' = Purged
  /\ UNCHANGED <<files, cancelled, now, told, faults>>

----------------------------------------------------------------------------
(* One search.                                                             *)

With(job, status) == {n \in DOMAIN tasks[job] : tasks[job][n].status = status}

\* Mutants: no cancel_check; a semaphore that is not released.
MayBeginCancelled(job, n) ==
  /\ job \in running
  /\ n \in With(job, "waiting") /\ \A m \in With(job, "waiting") : n <= m
  /\ Cardinality(With(job, "asking")) < IF job = "window" THEN 1 ELSE Concurrency
MayBeginOnce(job, n) ==
  /\ job \in running
  /\ n \in With(job, "waiting") /\ \A m \in With(job, "waiting") : n <= m
  /\ IF job = "window" THEN With(job, "asking") = {} /\ ~cancelled
     ELSE Cardinality(With(job, "asking") \cup With(job, "done")) < Concurrency

\* The window awaits each search; cancel_check precedes it.  The command
\* line's tasks queue at a semaphore.
MayBegin(job, n) ==
  /\ job \in running
  /\ n \in With(job, "waiting") /\ \A m \in With(job, "waiting") : n <= m
  /\ IF job = "window" THEN With(job, "asking") = {} /\ ~cancelled
     ELSE Cardinality(With(job, "asking")) < Concurrency

Done(job, n, match) ==
  [tasks EXCEPT ![job][n].status = "done", ![job][n].match = match]

\* A title of which nothing is left is not searched for.
BeginWithoutTitle(job, n) ==
  /\ MayBegin(job, n) /\ tasks[job][n].title = NoTitle
  /\ tasks' = Done(job, n, NoMatch)
  /\ UNCHANGED <<files, running, cancelled, rows, now, told, matches, faults>>

\* A hit, also when TMDB found nothing, goes on without an await.
BeginWithHit(job, n) ==
  LET title == tasks[job][n].title
  IN  /\ MayBegin(job, n) /\ title # NoTitle
      /\ Cached(CacheKey[title])
      /\ tasks' = Done(job, n, FindMatch(title, rows[CacheKey[title]].results))
      /\ UNCHANGED <<files, running, cancelled, rows, now, told, matches,
                     faults>>

\* SQLiteCacheAdapter.get turns an error into a miss.
BeginWithMiss(job, n) ==
  LET title == tasks[job][n].title
      fault == Cached(CacheKey[title])
  IN  /\ MayBegin(job, n) /\ title # NoTitle
      /\ fault => faults < MaxFaults
      /\ faults' = IF fault THEN faults + 1 ELSE faults
      /\ tasks' = [tasks EXCEPT ![job][n].status = "asking"]
      /\ UNCHANGED <<files, running, cancelled, rows, now, told, matches>>

\* The same answer at the same time is told apart by its number.
Said(key, results) ==
  LET same == {t \in told : t.key = key /\ t.results = results /\ t.at = now}
  IN  [key |-> key, results |-> results, at |-> now, nth |-> Cardinality(same)]

\* SQLiteCacheAdapter.set ignores an error.
Answer(job, n) ==
  LET title == tasks[job][n].title
      key   == CacheKey[title]
  IN  /\ n \in With(job, "asking")
      /\ \E results \in Answers[title] :
           /\ \/ rows' = Insert(key, results) /\ UNCHANGED faults
              \/ faults < MaxFaults /\ faults' = faults + 1 /\ UNCHANGED rows
           /\ told' = told \cup {Said(key, results)}
           /\ tasks' = Done(job, n, FindMatch(title, results))
      /\ UNCHANGED <<files, running, cancelled, now, matches>>

\* Mutant: a failure is cached as an answer.
FailCached(job, n) ==
  /\ n \in With(job, "asking")
  /\ tasks' = Done(job, n, NoMatch)
  /\ rows' = Insert(CacheKey[tasks[job][n].title], <<>>)
  /\ UNCHANGED <<files, running, cancelled, now, told, matches, faults>>

\* search() answers every error with no results and caches none.
Fail(job, n) ==
  /\ n \in With(job, "asking")
  /\ tasks' = Done(job, n, NoMatch)
  /\ UNCHANGED <<files, running, cancelled, rows, now, told, matches, faults>>

----------------------------------------------------------------------------
(* The end of a job.                                                       *)

\* match_result_to_file_metadata: without a match the parsed title stays.
Metadata(task) ==
  IF task.match = NoMatch
  THEN [title |-> ParsedTitle[task.path], year |-> NoYear, tmdb |-> NoMatch]
  ELSE [title |-> TitleOf[task.match], year |-> YearOf[task.match],
        tmdb |-> task.match]

TaskOf(f) ==
  CHOOSE task \in {tasks["window"][n] : n \in DOMAIN tasks["window"]} :
    task.key = SeriesKey(f)

\* The metadata of the series, with what the file itself knows.
Rematched(f) ==
  LET meta == Metadata(TaskOf(f))
  IN  [path  |-> f.path,
       title |-> meta.title,
       year  |-> IF f.year # NoYear THEN f.year ELSE meta.year,
       tmdb  |-> meta.tmdb]

Results ==
  [n \in DOMAIN files |->
     IF TaskOf(files[n]).status = "done" THEN Rematched(files[n]) ELSE files[n]]

FinishWindow ==
  /\ "window" \in running /\ With("window", "asking") = {}
  /\ cancelled \/ With("window", "waiting") = {}
  /\ files' = Results
  /\ running' = running \ {"window"}
  /\ tasks' = [tasks EXCEPT !["window"] = <<>>]
  /\ cancelled' = FALSE
  /\ UNCHANGED <<rows, now, told, matches, faults>>

\* gather() has the results of all; what the command line prints of them is
\* kept nowhere.
FinishCommand ==
  /\ "command" \in running
  /\ With("command", "done") = DOMAIN tasks["command"]
  /\ running' = running \ {"command"}
  /\ tasks' = [tasks EXCEPT !["command"] = <<>>]
  /\ UNCHANGED <<files, cancelled, rows, now, told, matches, faults>>

----------------------------------------------------------------------------
(* The environment.                                                        *)

Cancel ==
  /\ "window" \in running /\ ~cancelled
  /\ cancelled' = TRUE
  /\ UNCHANGED <<files, tasks, running, rows, now, told, matches, faults>>

Tick ==
  /\ now < MaxTime
  /\ now' = now + 1
  /\ told' = {t \in told : t.at + TTL > now}
  /\ UNCHANGED <<files, tasks, running, cancelled, rows, matches, faults>>

\* Nothing is under way and the bounds are reached.
Stop ==
  /\ running = {} /\ matches = MaxMatches
  /\ UNCHANGED vars

Init ==
  /\ files \in Lists
  /\ tasks = [j \in Jobs |-> <<>>]
  /\ running = {} /\ cancelled = FALSE
  /\ rows = [k \in Keys |-> NoRow]
  /\ now = 0 /\ told = {} /\ faults = 0
  /\ matches = [j \in Jobs |-> 0]

TaskStep(job, n) ==
  \/ BeginWithoutTitle(job, n) \/ BeginWithHit(job, n) \/ BeginWithMiss(job, n)
  \/ Answer(job, n) \/ Fail(job, n)

Next ==
  \/ StartWindow \/ StartCommand
  \/ \E job \in Jobs : \E n \in DOMAIN tasks[job] : TaskStep(job, n)
  \/ FinishWindow \/ FinishCommand
  \/ Cancel \/ Tick \/ Stop

\* An await of TMDB ends, by the timeout of its session if by nothing else,
\* and the event loop runs what is ready.
Fairness ==
  /\ \A job \in Jobs : WF_vars(\E n \in DOMAIN tasks[job] : TaskStep(job, n))
  /\ WF_vars(FinishWindow) /\ WF_vars(FinishCommand)

Spec == Init /\ [][Next]_vars /\ Fairness
----------------------------------------------------------------------------
(* Properties.                                                             *)

\* The state is well-formed; the window never has two searches under way,
\* the command line no more than Concurrency.
TypeOK ==
  /\ files \in Seq(File)
  /\ \A job \in Jobs : \A n \in DOMAIN tasks[job] :
       LET task == tasks[job][n]
       IN  /\ task.path \in Paths /\ task.title \in Titles \cup {NoTitle}
           /\ task.status \in {"waiting", "asking", "done"}
           /\ task.match \in Candidates \cup {NoMatch}
  /\ Cardinality(With("window", "asking")) <= 1
  /\ Cardinality(With("command", "asking")) <= Concurrency
  /\ running \subseteq Jobs /\ cancelled \in BOOLEAN
  /\ \A k \in Keys : rows[k].results \in Seq(Candidates) /\ rows[k].expires <= now + TTL
  /\ now \in 0 .. MaxTime /\ faults \in 0 .. MaxFaults
  /\ \A j \in Jobs : matches[j] <= MaxMatches[j]

\* What the cache will answer with is what TMDB answered to a search under
\* that key no longer than TTL ago: a search that failed leaves nothing that
\* would pass for "TMDB knows no such title" (search_service.py:202-238).
OnlyAnswersCached ==
  TypeOK /\ \A k \in Keys : Cached(k) =>
    \E t \in told : /\ t.key = k /\ t.results = rows[k].results
                    /\ t.at + TTL = rows[k].expires

\* Whoever is matched is matched to the best of an answer that TMDB gave no
\* longer than TTL ago to a title of the same key, whichever job asked and
\* whether or not the cache had it (engine.py:91-207, query.py:138-208).
MatchIsBestOfAnAnswer ==
  [][\A job \in Jobs : \A n \in DOMAIN tasks[job] \cap DOMAIN tasks'[job] :
       LET task == tasks'[job][n]
       IN  tasks[job][n].status # "done" /\ task.match # NoMatch
           => \E t \in told' : /\ t.key = CacheKey[task.title]
                               /\ task.match \in Best(task.title, t.results)]_tasks

\* A series costs no more searches in a TTL than there are slots, those of
\* the command line and the window's one, beside one for every call of the
\* cache that failed: not one per episode (search_service.py:35-67, 142-192).
SearchesPerSeries ==
  \A k \in Keys :
    Cardinality({t \in told : t.key = k}) <= Concurrency + 1 + faults

\* Results come in the order of the files, each for its own file, and a year
\* once known is kept ("Preserves input order and length",
\* match_use_case.py:76-77, 131-149).
FilesKeepTheirPlace ==
  [][/\ DOMAIN files' = DOMAIN files
     /\ \A n \in DOMAIN files :
          /\ files'[n].path = files[n].path
          /\ files[n].year # NoYear => files'[n].year = files[n].year]_files

\* Files of one title and year that had the same answer get the same again,
\* though TMDB, asked twice, could answer twice (match_use_case.py:93-128).
SeriesAgree ==
  [][\A m, n \in DOMAIN files :
       /\ files[m].title = files[n].title /\ files[m].year = files[n].year
       /\ files[m].tmdb = files[n].tmdb
       => files'[m].tmdb = files'[n].tmdb]_files

\* Each file gets what its series got, at its own place.
ResultsKeepOrder == FilesKeepTheirPlace /\ SeriesAgree

\* Once it is cancelled the window starts no search, and a file whose series
\* was not searched is shown as it was (match_use_case.py:113-114, 145-147).
CancelIsHeeded ==
  [][cancelled =>
       /\ "window" \in running' => With("window", "waiting")' = With("window", "waiting")
       /\ \A n \in DOMAIN files :
            files'[n] # files[n] => TaskOf(files[n]).status = "done"]_vars

\* A match that was started ends, for the window and for the command line.
MatchEnds == \A job \in Jobs : job \in running ~> job \notin running
=============================================================================
