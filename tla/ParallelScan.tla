---------------------------- MODULE ParallelScan ----------------------------
(* The two scanners that read a library's directories in parallel:           *)
(* ParallelDirectoryScanner and DirectoryScanner with parallel=True.  A pool *)
(* reads the directories below the root, the scanner's own thread puts what  *)
(* was found into the input queue and counts it with ThreadSafeStatsUpdater. *)
(*                                                                           *)
(* The updater takes the lock of both counts and calls two methods that take *)
(* it again.  It is declared to work with a Lock or an RLock; both scanners  *)
(* give it a Lock.                                                           *)
EXTENDS Naturals, Sequences, FiniteSets, Functions

CONSTANTS
    Dirs, FilesOf, RootFiles,  \* the library: files anywhere below each directory
    Threshold,                 \* directories from which the pool is used
    Capacity, SENTINEL,
    Reentrant                  \* the updater's lock is an RLock

VARIABLES
    kind,      \* "parallel" (ParallelDirectoryScanner) or "directory"
    at,        \* where the scanner thread is
    dirs,      \* the directories listed
    job,       \* of each directory: its future
    found,     \* of each directory: what its reading found
    batch,     \* files still to be put of the batch in hand
    counts,    \* [files, dirs] of the batch, once it is put
    depth,     \* how often the scanner thread holds the updater's lock
    stats,     \* [files, dirs] of ScanStatistics
    put, taken, \* everything ever put, in order; how much of it is consumed
    stop,      \* the stop event
    lost, unread, broke \* history: puts timed out, directories not read to the
                        \* end, and whether the root was not or no job submitted

parallelVars == <<kind, at, dirs, job, found, batch, counts, depth, stats, put,
                  taken, stop, lost, unread, broke>>
poolVars == <<job, found>>
pastVars == <<lost, unread, broke>>
lockVars == <<depth, stats>>

ParallelInit ==
    /\ kind \in {"parallel", "directory"} /\ at = "start"
    /\ dirs = {} /\ job = [d \in Dirs |-> "none"] /\ found = [d \in Dirs |-> {}]
    /\ batch = {} /\ counts = [files |-> 0, dirs |-> 0]
    /\ depth = 0 /\ stats = [files |-> 0, dirs |-> 0]
    /\ put = <<>> /\ taken = 0 /\ stop = FALSE
    /\ lost = {} /\ unread = {} /\ broke = FALSE

CanPut == Len(put) - taken < Capacity
-----------------------------------------------------------------------------
(* run: the root's own files first.                                          *)

\* Either listing of the root is cut short by the stop event or an error.
ListedDirs == SUBSET Dirs
ListedFiles == SUBSET RootFiles

\* The root may be gone.
ListRoot ==
    /\ at = "start"
    /\ \/ /\ at' = "put"
          /\ dirs' \in ListedDirs /\ batch' \in ListedFiles
          /\ unread' = Dirs \ dirs' /\ broke' = (batch' # RootFiles)
          /\ counts' = [files |-> 0, dirs |-> 1]
       \/ at' = "sentinel" /\ broke' = TRUE
          /\ UNCHANGED <<dirs, batch, counts, unread>>
    /\ UNCHANGED <<kind, poolVars, lockVars, put, taken, stop, lost>>

\* The scanner's with statement waits for the pool before the error goes on.
Unwind == at' = "leave_pool"

\* _thread_safe_put_files: a full queue is waited for, but not for ever.
PutFile ==
    /\ at = "put" /\ ~stop /\ CanPut
    /\ \E f \in batch :
         /\ put' = Append(put, f) /\ batch' = batch \ {f}
    /\ counts' = [counts EXCEPT !.files = @ + 1]
    /\ UNCHANGED <<kind, at, dirs, poolVars, lockVars, taken, stop, pastVars>>

\* queue.Full is no OSError: one scanner skips the file, the other gives up.
PutTimesOut ==
    /\ at = "put" /\ ~stop /\ ~CanPut
    /\ \E f \in batch :
         /\ lost' = lost \cup {f}
         /\ IF kind = "directory"
            THEN batch' = batch \ {f} /\ UNCHANGED at
            ELSE batch' = {} /\ Unwind
    /\ UNCHANGED <<kind, dirs, poolVars, counts, lockVars, put, taken, stop, unread, broke>>

PutEnds ==
    /\ at = "put" /\ (stop \/ batch = {})
    /\ at' = "update" /\ batch' = {}
    /\ UNCHANGED <<kind, dirs, poolVars, counts, lockVars, put, taken, stop, pastVars>>
-----------------------------------------------------------------------------
(* update_files_and_directories.                                             *)

\* Mutant: a lock that its holder cannot take again.
AcquirableOnce == depth = 0

Acquirable == depth = 0 \/ Reentrant

TakeLock ==
    /\ at = "update" /\ Acquirable
    /\ depth' = depth + 1 /\ at' = "increment_files"
    /\ UNCHANGED <<kind, dirs, poolVars, batch, counts, stats, put, taken, stop, pastVars>>

increment_files ==
    /\ at = "increment_files" /\ Acquirable
    /\ stats' = [stats EXCEPT !.files = @ + counts.files]
    /\ at' = "increment_directories"
    /\ UNCHANGED <<kind, dirs, poolVars, batch, counts, depth, put, taken, stop, pastVars>>

increment_directories ==
    /\ at = "increment_directories" /\ Acquirable
    /\ stats' = [stats EXCEPT !.dirs = @ + counts.dirs]
    /\ depth' = depth - 1 /\ at' = "next"
    /\ counts' = [files |-> 0, dirs |-> 0]
    /\ UNCHANGED <<kind, dirs, poolVars, batch, put, taken, stop, pastVars>>
-----------------------------------------------------------------------------
(* Reading the directories below the root.                                   *)

\* _recursive_scan_directory, _parallel_scan_directory: what was found until
\* the stop event, or until the directory could not be read.
Reads(d, files) ==
    \/ files = FilesOf[d] /\ UNCHANGED unread
    \/ stop /\ UNCHANGED unread
    \/ files # FilesOf[d] /\ unread' = unread \cup {d}

Few == Cardinality(dirs) < Threshold

Remaining == {d \in dirs : job[d] = "none"}

\* Fewer than the threshold: one after the other, on the scanner's thread.
ReadNext ==
    /\ at = "next" /\ Few /\ ~stop
    /\ \E d \in Remaining : \E files \in SUBSET FilesOf[d] :
         /\ Reads(d, files)
         /\ job' = [job EXCEPT ![d] = "taken"]
         /\ batch' = files
         /\ counts' = [files |-> 0, dirs |-> IF unread' = unread THEN 1 ELSE 0]
    /\ at' = "put"
    /\ UNCHANGED <<kind, dirs, found, lockVars, put, taken, stop, lost, broke>>

Submit ==
    /\ at = "next" /\ ~Few /\ ~stop
    /\ \E d \in Remaining : job' = [job EXCEPT ![d] = "pending"]
    /\ UNCHANGED <<kind, at, dirs, found, batch, counts, lockVars, put, taken, stop, pastVars>>

\* The pool takes no more threads.
SubmitFails ==
    /\ at = "next" /\ ~Few /\ ~stop /\ Remaining # {}
    /\ broke' = TRUE /\ Unwind
    /\ UNCHANGED <<kind, dirs, poolVars, batch, counts, lockVars, put, taken, stop, lost, unread>>

AllSubmitted ==
    /\ at = "next" /\ (stop \/ Remaining = {})
    /\ at' = IF Few THEN "sentinel" ELSE "await"
    /\ UNCHANGED <<kind, dirs, poolVars, batch, counts, lockVars, put, taken, stop, pastVars>>

\* A thread of the pool.
JobStarts(d) ==
    /\ job[d] = "pending"
    /\ job' = [job EXCEPT ![d] = "running"]
    /\ UNCHANGED <<kind, at, dirs, found, batch, counts, lockVars, put, taken, stop, pastVars>>

JobEnds(d) ==
    /\ job[d] = "running"
    /\ \E files \in SUBSET FilesOf[d] : Reads(d, files) /\ found' = [found EXCEPT ![d] = files]
    /\ job' = [job EXCEPT ![d] = "done"]
    /\ UNCHANGED <<kind, at, dirs, batch, counts, lockVars, put, taken, stop, lost, broke>>

\* Mutant: a future that was dealt with is dealt with again.
TakeResultTwice ==
    /\ at = "await" /\ ~stop
    /\ \E d \in Dirs :
         /\ job[d] = "done" /\ batch' = found[d]
         /\ counts' = [files |-> 0, dirs |-> IF d \in unread THEN 0 ELSE 1]
    /\ at' = "put"
    /\ UNCHANGED <<kind, dirs, poolVars, lockVars, put, taken, stop, pastVars>>

\* as_completed: one finished future after the other, in any order.
TakeResult ==
    /\ at = "await" /\ ~stop
    /\ \E d \in Dirs :
         /\ job[d] = "done" /\ job' = [job EXCEPT ![d] = "taken"]
         /\ batch' = found[d]
         /\ counts' = [files |-> 0, dirs |-> IF d \in unread THEN 0 ELSE 1]
    /\ at' = "put"
    /\ UNCHANGED <<kind, dirs, found, lockVars, put, taken, stop, pastVars>>

\* The stop event is seen when the next future is done: it cancels the others.
AwaitStopped ==
    /\ at = "await" /\ stop /\ \E d \in Dirs : job[d] = "done"
    /\ job' = [d \in Dirs |-> IF job[d] = "pending" THEN "cancelled" ELSE job[d]]
    /\ Unwind
    /\ UNCHANGED <<kind, dirs, found, batch, counts, lockVars, put, taken, stop, pastVars>>

AllTaken ==
    /\ at = "await" /\ \A d \in Dirs : job[d] \in {"none", "taken"}
    /\ Unwind
    /\ UNCHANGED <<kind, dirs, poolVars, batch, counts, lockVars, put, taken, stop, pastVars>>

LeavePool ==
    /\ at = "leave_pool" /\ \A d \in Dirs : job[d] \notin {"pending", "running"}
    /\ at' = "sentinel"
    /\ UNCHANGED <<kind, dirs, poolVars, batch, counts, lockVars, put, taken, stop, pastVars>>

\* The finally of run: the end mark, unless the queue stays full.
PutSentinel ==
    /\ at = "sentinel" /\ at' = "done"
    /\ \/ CanPut /\ put' = Append(put, SENTINEL)
       \/ ~CanPut /\ UNCHANGED put
    /\ UNCHANGED <<kind, dirs, poolVars, batch, counts, lockVars, taken, stop, pastVars>>
-----------------------------------------------------------------------------
\* A parser takes the next file.
Consume ==
    /\ taken < Len(put) /\ taken' = taken + 1
    /\ UNCHANGED <<kind, at, dirs, poolVars, batch, counts, lockVars, put, stop, pastVars>>

Stop ==
    /\ ~stop /\ stop' = TRUE
    /\ UNCHANGED <<kind, at, dirs, poolVars, batch, counts, lockVars, put, taken, pastVars>>

ScannerThread ==
    \/ ListRoot \/ PutFile \/ PutTimesOut \/ PutEnds
    \/ TakeLock \/ increment_files \/ increment_directories
    \/ ReadNext \/ Submit \/ SubmitFails \/ AllSubmitted
    \/ TakeResult \/ AwaitStopped \/ AllTaken \/ LeavePool \/ PutSentinel

PoolThread == \E d \in Dirs : JobStarts(d) \/ JobEnds(d)

ParallelNext == ScannerThread \/ PoolThread \/ Consume \/ Stop

\* Both run while they can: no wait of theirs is without a timeout but the lock's.
ParallelFairness == WF_parallelVars(ScannerThread) /\ WF_parallelVars(PoolThread)

ParallelSpec == ParallelInit /\ [][ParallelNext]_parallelVars /\ ParallelFairness
-----------------------------------------------------------------------------
Queued == Range(put) \ {SENTINEL}

Readable == RootFiles \cup UNION {FilesOf[d] : d \in Dirs \ unread}

\* No file is given to the parsers twice, none after the end mark, the counts
\* are those of the queue, and a scan that was not stopped, cut short or made
\* to drop a file has queued every file there is.
ParallelSound ==
    /\ IsInjective(put)
    /\ SENTINEL \in Range(put) => at = "done" /\ put[Len(put)] = SENTINEL
    /\ stats.files <= Cardinality(Queued) /\ stats.dirs <= Cardinality(Dirs) + 1
    /\ at = "done" /\ kind = "directory" => stats.files = Cardinality(Queued)
    /\ at = "done" /\ ~stop /\ lost = {} /\ ~broke => Readable \subseteq Queued

\* A parallel scan ends, and with it the wait of the parsers for its end mark.
ScanEnds == <>(at = "done")
=============================================================================
