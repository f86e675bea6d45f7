------------------------------ MODULE Pipeline ------------------------------
(***************************************************************************)
(* The file-processing pipeline of anivault/core/pipeline: run_pipeline    *)
(* (domain/orchestrator.py, domain/lifecycle.py) on the calling thread,    *)
(* the DirectoryScanner, ParserWorker and ResultCollector threads, and the *)
(* two BoundedQueues between them.                                         *)
(*                                                                         *)
(* A file stands for its path, for the dictionary its worker makes of it   *)
(* and for the FileMetadata the collector stores.  A timed wait either     *)
(* succeeds or, where queue.Queue allows it, gives up: time itself is not  *)
(* modelled.  KeyboardInterrupt may hit the calling thread once, anywhere  *)
(* in the try block of run_pipeline.                                       *)
(***************************************************************************)
EXTENDS Naturals, Sequences, FiniteSets

CONSTANTS
    Files,      \* the files the scan yields when nothing cuts it short
    Workers,    \* the ParserWorker threads of the pool
    Capacity,   \* max_queue_size
    None,       \* Python's None: the scanner's end mark, or nothing held
    SENTINEL    \* Pipeline.SENTINEL

ASSUME PipelineAssumption ==
    /\ IsFiniteSet(Workers) /\ Workers # {}
    /\ Capacity \in Nat \ {0}
    /\ None \notin Files /\ SENTINEL \notin Files /\ None # SENTINEL

VARIABLES
    main,           \* where run_pipeline is
    outcome,        \* how it ends: "none" yet, "ok", "error", "interrupted"
    sent,           \* sentinels signal_parser_shutdown has put so far
    report,         \* the results run_pipeline returns
    toScan,         \* files the scan generator has still to yield
    scanFailed,     \* the scan raised; DirectoryScanner.run only logs it
    scanner, scanFile, scannerStop,
    fileQueue,
    worker, job,
    workerStop,     \* the workers whose stop event is set
    failed,         \* files whose worker raised: counted, no result
    resultQueue,
    collector, item, collectorStop,
    results,        \* ResultCollector._results
    rejected        \* results that dict_to_file_metadata refused

mainVars      == <<main, outcome, sent, report>>
scannerVars   == <<toScan, scanFailed, scanner, scanFile>>
workerVars    == <<worker, job, failed>>
collectorVars == <<collector, item, results, rejected>>
stopVars      == <<scannerStop, workerStop, collectorStop>>
queueVars     == <<fileQueue, resultQueue>>
vars == <<mainVars, scannerVars, workerVars, collectorVars, stopVars, queueVars>>

StartPCs    == {"start_scanner", "start_pool", "start_collector"}
CollectPCs  == {"signal_collector", "join_collector", "join_again", "get_results"}
GracefulPCs == {"graceful_scanner", "graceful_pool", "graceful_collector"}
ForcePCs    == {"force_scanner", "force_pool", "force_collector"}
TryPCs      == StartPCs \cup CollectPCs \cup GracefulPCs
                 \cup {"join_scanner", "signal_parsers", "join_parsers"}
MainPCs      == TryPCs \cup ForcePCs \cup {"returned"}
ScannerPCs   == {"new", "scan", "put", "sentinel", "done"}
WorkerPCs    == {"new", "check", "get", "process", "put", "done"}
CollectorPCs == {"new", "check", "get", "store", "done"}

Init ==
    /\ main = "start_scanner" /\ outcome = "none" /\ sent = 0 /\ report = {}
    /\ toScan = Files /\ scanFailed = FALSE
    /\ scanner = "new" /\ scanFile = None /\ scannerStop = FALSE
    /\ fileQueue = <<>>
    /\ worker = [w \in Workers |-> "new"] /\ job = [w \in Workers |-> None]
    /\ workerStop = {} /\ failed = {}
    /\ resultQueue = <<>>
    /\ collector = "new" /\ item = None /\ collectorStop = FALSE
    /\ results = {} /\ rejected = {}

-----------------------------------------------------------------------------
\* BoundedQueue.put blocks (or times out) exactly while the queue is full.
CanPut(q) == Len(q) < Capacity

Alive(pc) == pc \notin {"new", "done"}

\* ResultCollector overrides Thread.is_alive; it answers False for ever.
CollectorIsAlive == FALSE

-----------------------------------------------------------------------------
(* run_pipeline: _execute_pipeline and _collect_results.                    *)

StartScanner ==
    /\ main = "start_scanner"
    /\ main' = "start_pool" /\ scanner' = "scan"
    /\ UNCHANGED <<outcome, sent, report, toScan, scanFailed, scanFile>>
    /\ UNCHANGED <<workerVars, collectorVars, stopVars, queueVars>>

\* ParserWorkerPool.start, one turn of its loop.
StartWorker(w) ==
    /\ main = "start_pool" /\ worker[w] = "new"
    /\ worker' = [worker EXCEPT ![w] = "check"]
    /\ main' = IF \A v \in Workers \ {w} : worker[v] # "new"
               THEN "start_collector" ELSE "start_pool"
    /\ UNCHANGED <<outcome, sent, report, job, failed>>
    /\ UNCHANGED <<scannerVars, collectorVars, stopVars, queueVars>>

StartCollector ==
    /\ main = "start_collector"
    /\ main' = "join_scanner" /\ collector' = "check"
    /\ UNCHANGED <<outcome, sent, report, item, results, rejected>>
    /\ UNCHANGED <<scannerVars, workerVars, stopVars, queueVars>>

\* An exception inside the try block: _handle_pipeline_error takes over.
Raise ==
    /\ outcome' = "error" /\ main' = "graceful_scanner"
    /\ UNCHANGED <<sent, report>>
    /\ UNCHANGED <<scannerVars, workerVars, collectorVars, stopVars, queueVars>>

\* Thread.start may raise RuntimeError at any of the three stages.
StartFails == main \in StartPCs /\ Raise

JoinScanner ==
    /\ main = "join_scanner" /\ scanner = "done"
    /\ main' = "signal_parsers"
    /\ UNCHANGED <<outcome, sent, report>>
    /\ UNCHANGED <<scannerVars, workerVars, collectorVars, stopVars, queueVars>>

\* Mutant: one sentinel for the whole pool.
SignalOneParser ==
    /\ main = "signal_parsers" /\ CanPut(fileQueue)
    /\ fileQueue' = Append(fileQueue, SENTINEL)
    /\ sent' = sent + 1
    /\ main' = "join_parsers"
    /\ UNCHANGED <<outcome, report, resultQueue>>
    /\ UNCHANGED <<scannerVars, workerVars, collectorVars, stopVars>>

SignalParser ==
    /\ main = "signal_parsers" /\ CanPut(fileQueue)
    /\ fileQueue' = Append(fileQueue, SENTINEL)
    /\ sent' = sent + 1
    /\ main' = IF sent + 1 >= Cardinality(Workers)
               THEN "join_parsers" ELSE "signal_parsers"
    /\ UNCHANGED <<outcome, report, resultQueue>>
    /\ UNCHANGED <<scannerVars, workerVars, collectorVars, stopVars>>

SignalParserTimesOut == main = "signal_parsers" /\ ~CanPut(fileQueue) /\ Raise

\* Mutant: the pool is joined with a timeout.
JoinParsersTimed ==
    /\ main = "join_parsers"
    /\ main' = "signal_collector"
    /\ UNCHANGED <<outcome, sent, report>>
    /\ UNCHANGED <<scannerVars, workerVars, collectorVars, stopVars, queueVars>>

JoinParsers ==
    /\ main = "join_parsers" /\ \A w \in Workers : worker[w] = "done"
    /\ main' = "signal_collector"
    /\ UNCHANGED <<outcome, sent, report>>
    /\ UNCHANGED <<scannerVars, workerVars, collectorVars, stopVars, queueVars>>

\* Mutant: the collector gets no sentinel.
SignalCollectorNothing ==
    /\ main = "signal_collector" /\ CanPut(resultQueue)
    /\ main' = "join_collector"
    /\ UNCHANGED <<outcome, sent, report, queueVars>>
    /\ UNCHANGED <<scannerVars, workerVars, collectorVars, stopVars>>

SignalCollector ==
    /\ main = "signal_collector" /\ CanPut(resultQueue)
    /\ resultQueue' = Append(resultQueue, SENTINEL)
    /\ main' = "join_collector"
    /\ UNCHANGED <<outcome, sent, report, fileQueue>>
    /\ UNCHANGED <<scannerVars, workerVars, collectorVars, stopVars>>

SignalCollectorTimesOut == main = "signal_collector" /\ ~CanPut(resultQueue) /\ Raise

(* wait_for_collector_completion, which run_pipeline calls twice.  The      *)
(* timed join returns when the collector is done or after one second; a     *)
(* collector that answers is_alive is told to stop.                         *)
JoinCollector(from, to) ==
    /\ main = from
    /\ main' = to
    /\ collectorStop' = IF CollectorIsAlive THEN TRUE ELSE collectorStop
    /\ UNCHANGED <<outcome, sent, report, scannerStop, workerStop>>
    /\ UNCHANGED <<scannerVars, workerVars, collectorVars, queueVars>>

GetResults ==
    /\ main = "get_results"
    /\ report' = results /\ outcome' = "ok" /\ main' = "force_scanner"
    /\ UNCHANGED sent
    /\ UNCHANGED <<scannerVars, workerVars, collectorVars, stopVars, queueVars>>

\* graceful_shutdown: scanner.stop(), parser_pool.stop(), collector.stop().
GracefulShutdown ==
    /\ \/ /\ main = "graceful_scanner" /\ main' = "graceful_pool"
          /\ scannerStop' = TRUE /\ UNCHANGED <<workerStop, collectorStop>>
       \/ /\ main = "graceful_pool" /\ main' = "graceful_collector"
          /\ workerStop' = Workers /\ UNCHANGED <<scannerStop, collectorStop>>
       \/ /\ main = "graceful_collector" /\ main' = "force_scanner"
          /\ collectorStop' = TRUE /\ UNCHANGED <<scannerStop, workerStop>>
    /\ UNCHANGED <<outcome, sent, report>>
    /\ UNCHANGED <<scannerVars, workerVars, collectorVars, queueVars>>

\* force_shutdown_if_needed, in the finally clause of run_pipeline.
ForceShutdown ==
    /\ \/ /\ main = "force_scanner" /\ main' = "force_pool"
          /\ scannerStop' = IF Alive(scanner) THEN TRUE ELSE scannerStop
          /\ UNCHANGED <<workerStop, collectorStop>>
       \/ /\ main = "force_pool" /\ main' = "force_collector"
          /\ workerStop' = IF \E w \in Workers : Alive(worker[w])
                           THEN Workers ELSE workerStop
          /\ UNCHANGED <<scannerStop, collectorStop>>
       \/ /\ main = "force_collector" /\ main' = "returned"
          /\ collectorStop' = IF CollectorIsAlive THEN TRUE ELSE collectorStop
          /\ UNCHANGED <<scannerStop, workerStop>>
    /\ UNCHANGED <<outcome, sent, report>>
    /\ UNCHANGED <<scannerVars, workerVars, collectorVars, queueVars>>

\* KeyboardInterrupt is no Exception: only the finally clause sees it.
Interrupt ==
    /\ main \in TryPCs
    /\ outcome' = "interrupted" /\ main' = "force_scanner"
    /\ UNCHANGED <<sent, report>>
    /\ UNCHANGED <<scannerVars, workerVars, collectorVars, stopVars, queueVars>>

MainStep ==
    \/ StartScanner \/ (\E w \in Workers : StartWorker(w)) \/ StartCollector
    \/ JoinScanner \/ SignalParser \/ SignalParserTimesOut \/ JoinParsers
    \/ SignalCollector \/ SignalCollectorTimesOut
    \/ JoinCollector("join_collector", "join_again")
    \/ JoinCollector("join_again", "get_results")
    \/ GetResults \/ GracefulShutdown \/ ForceShutdown

-----------------------------------------------------------------------------
(* DirectoryScanner.run with the sequential scan run_pipeline sets up.      *)

ScanNext(f) ==
    /\ scanner = "scan" /\ ~scannerStop /\ f \in toScan
    /\ toScan' = toScan \ {f} /\ scanFile' = f /\ scanner' = "put"
    /\ UNCHANGED scanFailed
    /\ UNCHANGED <<mainVars, workerVars, collectorVars, stopVars, queueVars>>

\* put() without a timeout: the scanner waits here while the queue is full.
ScannerPut ==
    /\ scanner = "put" /\ CanPut(fileQueue)
    /\ fileQueue' = Append(fileQueue, scanFile)
    /\ scanFile' = None /\ scanner' = "scan"
    /\ UNCHANGED <<toScan, scanFailed, resultQueue>>
    /\ UNCHANGED <<mainVars, workerVars, collectorVars, stopVars>>

\* The generator is exhausted or the stop event ends it.
ScanEnds ==
    /\ scanner = "scan" /\ (toScan = {} \/ scannerStop)
    /\ scanner' = "sentinel"
    /\ UNCHANGED <<toScan, scanFailed, scanFile>>
    /\ UNCHANGED <<mainVars, workerVars, collectorVars, stopVars, queueVars>>

\* The scan raises: run() logs the error and goes on to its finally clause.
ScanRaises ==
    /\ scanner = "scan"
    /\ scanner' = "sentinel" /\ scanFailed' = TRUE
    /\ UNCHANGED <<toScan, scanFile>>
    /\ UNCHANGED <<mainVars, workerVars, collectorVars, stopVars, queueVars>>

\* The end mark is given up, with a warning, when the queue stays full.
ScannerSentinel ==
    /\ scanner = "sentinel"
    /\ scanner' = "done"
    /\ fileQueue' = IF CanPut(fileQueue) THEN Append(fileQueue, None) ELSE fileQueue
    /\ UNCHANGED <<toScan, scanFailed, scanFile, resultQueue>>
    /\ UNCHANGED <<mainVars, workerVars, collectorVars, stopVars>>

ScannerStep ==
    \/ \E f \in Files : ScanNext(f)
    \/ ScannerPut \/ ScanEnds \/ ScanRaises \/ ScannerSentinel

-----------------------------------------------------------------------------
(* ParserWorker.run and _process_file.                                      *)

WorkerChecksStop(w) ==
    /\ worker[w] = "check"
    /\ worker' = [worker EXCEPT ![w] = IF w \in workerStop THEN "done" ELSE "get"]
    /\ UNCHANGED <<job, failed>>
    /\ UNCHANGED <<mainVars, scannerVars, collectorVars, stopVars, queueVars>>

\* A path is processed; None and SENTINEL both end the worker.
WorkerGets(w) ==
    /\ worker[w] = "get" /\ fileQueue # <<>>
    /\ fileQueue' = Tail(fileQueue)
    /\ IF Head(fileQueue) \in Files
       THEN /\ job' = [job EXCEPT ![w] = Head(fileQueue)]
            /\ worker' = [worker EXCEPT ![w] = "process"]
       ELSE /\ worker' = [worker EXCEPT ![w] = "done"]
            /\ UNCHANGED job
    /\ UNCHANGED <<failed, resultQueue>>
    /\ UNCHANGED <<mainVars, scannerVars, collectorVars, stopVars>>

WorkerGetTimesOut(w) ==
    /\ worker[w] = "get" /\ fileQueue = <<>>
    /\ worker' = [worker EXCEPT ![w] = "check"]
    /\ UNCHANGED <<job, failed>>
    /\ UNCHANGED <<mainVars, scannerVars, collectorVars, stopVars, queueVars>>

\* A cache hit, or a miss that is parsed and stored in the cache.
WorkerParses(w) ==
    /\ worker[w] = "process"
    /\ worker' = [worker EXCEPT ![w] = "put"]
    /\ UNCHANGED <<job, failed>>
    /\ UNCHANGED <<mainVars, scannerVars, collectorVars, stopVars, queueVars>>

\* Mutant: the failure is counted but the result is put all the same.
WorkerFailsAndPuts(w) ==
    /\ worker[w] = "process"
    /\ failed' = failed \cup {job[w]}
    /\ worker' = [worker EXCEPT ![w] = "put"]
    /\ UNCHANGED <<mainVars, scannerVars, collectorVars, stopVars, queueVars, job>>

\* The cache lookup or the cache write raises: counted, no result is put.
WorkerFails(w) ==
    /\ worker[w] = "process"
    /\ failed' = failed \cup {job[w]}
    /\ job' = [job EXCEPT ![w] = None]
    /\ worker' = [worker EXCEPT ![w] = "check"]
    /\ UNCHANGED <<mainVars, scannerVars, collectorVars, stopVars, queueVars>>

\* put() without a timeout: the worker waits here while the queue is full.
WorkerPuts(w) ==
    /\ worker[w] = "put" /\ CanPut(resultQueue)
    /\ resultQueue' = Append(resultQueue, job[w])
    /\ job' = [job EXCEPT ![w] = None]
    /\ worker' = [worker EXCEPT ![w] = "check"]
    /\ UNCHANGED <<failed, fileQueue>>
    /\ UNCHANGED <<mainVars, scannerVars, collectorVars, stopVars>>

WorkerStep(w) ==
    \/ WorkerChecksStop(w) \/ WorkerGets(w) \/ WorkerGetTimesOut(w)
    \/ WorkerParses(w) \/ WorkerFails(w) \/ WorkerPuts(w)

-----------------------------------------------------------------------------
(* ResultCollector.run.                                                     *)

CollectorChecksStop ==
    /\ collector = "check"
    /\ collector' = IF collectorStop THEN "done" ELSE "get"
    /\ UNCHANGED <<item, results, rejected>>
    /\ UNCHANGED <<mainVars, scannerVars, workerVars, stopVars, queueVars>>

CollectorGets ==
    /\ collector = "get" /\ resultQueue # <<>>
    /\ resultQueue' = Tail(resultQueue)
    /\ IF Head(resultQueue) = SENTINEL
       THEN /\ collectorStop' = TRUE /\ collector' = "done"
            /\ UNCHANGED item
       ELSE /\ item' = Head(resultQueue) /\ collector' = "store"
            /\ UNCHANGED collectorStop
    /\ UNCHANGED <<results, rejected, fileQueue, scannerStop, workerStop>>
    /\ UNCHANGED <<mainVars, scannerVars, workerVars>>

\* Nothing came for a second: the collector sleeps and looks again.
CollectorIdles ==
    /\ collector = "get" /\ resultQueue = <<>>
    /\ collector' = "check"
    /\ UNCHANGED <<item, results, rejected>>
    /\ UNCHANGED <<mainVars, scannerVars, workerVars, stopVars, queueVars>>

\* Mutant: the result is kept before its conversion fails.
CollectorStoresFirst ==
    /\ collector = "store"
    /\ results' = results \cup {item}
    /\ rejected' \in {rejected, rejected \cup {item}}
    /\ item' = None /\ collector' = "check"
    /\ UNCHANGED <<mainVars, scannerVars, workerVars, stopVars, queueVars>>

\* dict_to_file_metadata converts the result, or raises and it is dropped.
CollectorStores ==
    /\ collector = "store"
    /\ \/ results' = results \cup {item} /\ UNCHANGED rejected
       \/ rejected' = rejected \cup {item} /\ UNCHANGED results
    /\ item' = None /\ collector' = "check"
    /\ UNCHANGED <<mainVars, scannerVars, workerVars, stopVars, queueVars>>

CollectorStep ==
    CollectorChecksStop \/ CollectorGets \/ CollectorIdles \/ CollectorStores

-----------------------------------------------------------------------------
Next ==
    \/ MainStep \/ StartFails \/ Interrupt
    \/ ScannerStep \/ (\E w \in Workers : WorkerStep(w)) \/ CollectorStep

Spec == Init /\ [][Next]_vars

\* Every thread is scheduled by the operating system; nothing makes a start
\* fail or an interrupt arrive.
Fairness ==
    /\ WF_vars(MainStep) /\ WF_vars(ScannerStep) /\ WF_vars(CollectorStep)
    /\ \A w \in Workers : WF_vars(WorkerStep(w))

FairSpec == Spec /\ Fairness

-----------------------------------------------------------------------------
Items(q) == {q[i] : i \in 1..Len(q)}

\* Every variable has its type and neither queue outgrows max_queue_size.
TypeOK ==
    /\ main \in MainPCs /\ outcome \in {"none", "ok", "error", "interrupted"}
    /\ sent \in Nat /\ report \subseteq Files
    /\ toScan \subseteq Files /\ scanFailed \in BOOLEAN
    /\ scanner \in ScannerPCs /\ scanFile \in Files \cup {None}
    /\ scannerStop \in BOOLEAN
    /\ fileQueue \in Seq(Files \cup {None, SENTINEL}) /\ Len(fileQueue) <= Capacity
    /\ worker \in [Workers -> WorkerPCs] /\ job \in [Workers -> Files \cup {None}]
    /\ workerStop \subseteq Workers /\ failed \subseteq Files
    /\ resultQueue \in Seq(Files \cup {SENTINEL}) /\ Len(resultQueue) <= Capacity
    /\ collector \in CollectorPCs /\ item \in Files \cup {None}
    /\ collectorStop \in BOOLEAN
    /\ results \subseteq Files /\ rejected \subseteq Files

\* The places a file can be at between the directory and the result list.
Places == {"directory", "scanner", "file_queue", "worker", "failed",
           "result_queue", "collector", "results", "rejected"}

At(f, p) ==
    \/ p = "directory"    /\ f \in toScan
    \/ p = "scanner"      /\ f = scanFile
    \/ p = "file_queue"   /\ f \in Items(fileQueue)
    \/ p = "worker"       /\ \E w \in Workers : f = job[w]
    \/ p = "failed"       /\ f \in failed
    \/ p = "result_queue" /\ f \in Items(resultQueue)
    \/ p = "collector"    /\ f = item
    \/ p = "results"      /\ f \in results
    \/ p = "rejected"     /\ f \in rejected

OnePlace ==
    \A f \in Files :
        /\ \E p \in Places : At(f, p)
        /\ \A p, q \in Places : At(f, p) /\ At(f, q) => p = q

\* No file occurs twice in a queue.
Once(q) == \A i, j \in 1..Len(q) : q[i] \in Files /\ q[i] = q[j] => i = j

NoDoubles ==
    /\ Once(fileQueue) /\ Once(resultQueue)
    /\ \A v, w \in Workers : job[v] \in Files /\ job[v] = job[w] => v = w

(* Whatever the interleaving, timeout, stop or interrupt, no file is lost    *)
(* and none is processed twice: it is at exactly one place, once.  (The      *)
(* hand-overs between scanner, queues, workers and collector.)               *)
Conservation == OnePlace /\ NoDoubles

(* Once run_pipeline has joined the parser pool, the files are all behind    *)
(* the workers: a sentinel never overtakes a path, though the scanner and    *)
(* signal_parser_shutdown both put end marks into one shared queue.          *)
ParsersDrained ==
    main \in CollectPCs =>
        \A f \in Files : ~At(f, "scanner") /\ ~At(f, "file_queue") /\ ~At(f, "worker")

(* When run_pipeline has returned normally and the collector has ended,      *)
(* every scanned file is in the collector's results or was counted as a      *)
(* failure; and what was returned is part of those results.                  *)
CollectedAll ==
    outcome = "ok" =>
        /\ report \subseteq results
        /\ collector = "done" =>
             \A f \in Files : f \in results \cup failed \cup rejected
                              \/ (scanFailed /\ f \in toScan)

(* No file is lost, doubled or overtaken on its way, and the queues keep     *)
(* their bound.                                                              *)
FilesPlaced == TypeOK /\ Conservation /\ ParsersDrained

\* run_pipeline comes back: the two bounded queues, the end marks and the
\* unbounded joins cannot hold it for ever.
PipelineReturns == <>(main = "returned")

Stopped == /\ ~Alive(scanner) /\ ~Alive(collector)
           /\ \A w \in Workers : ~Alive(worker[w])

\* After a normal return no thread of the pipeline stays behind.
NormalReturnStopsThreads == outcome = "ok" ~> Stopped

-----------------------------------------------------------------------------
(* The inductive invariant behind the safety properties.                     *)

\* A thread holds a file exactly while it is between taking and passing it on.
HoldInv ==
    /\ scanFile # None <=> scanner = "put"
    /\ \A w \in Workers : job[w] # None <=> worker[w] \in {"process", "put"}
    /\ item # None <=> collector = "store"

FilesFirst(q) == \A i, j \in 1..Len(q) : i < j /\ q[i] \notin Files => q[j] \notin Files

\* End marks follow the files, and a thread they ended has left none behind.
OrderInv ==
    /\ FilesFirst(fileQueue) /\ FilesFirst(resultQueue)
    /\ (\E x \in Items(fileQueue) : x \notin Files) => scanner = "done"
    /\ (\E x \in Items(resultQueue) : x \notin Files) =>
          \A w \in Workers : worker[w] = "done"
    /\ \A w \in Workers : worker[w] = "done" /\ w \notin workerStop =>
          scanner = "done" /\ Items(fileQueue) \cap Files = {}
    /\ collector = "done" /\ outcome \in {"none", "ok"} =>
          /\ \A w \in Workers : worker[w] = "done"
          /\ Items(resultQueue) \cap Files = {}

\* What run_pipeline has established by the time it is where it is.
PhaseInv ==
    /\ main = "start_scanner" => scanner = "new"
    /\ main \in StartPCs => collector = "new"
    /\ main \in {"signal_parsers", "join_parsers"} \cup CollectPCs => scanner = "done"
    /\ main \in CollectPCs => \A w \in Workers : worker[w] = "done"
    /\ outcome = "none" <=> main \in TryPCs \ GracefulPCs
    /\ main \in GracefulPCs => outcome = "error"
    /\ outcome = "ok" =>
          /\ main \in ForcePCs \cup {"returned"} /\ scanner = "done"
          /\ \A w \in Workers : worker[w] = "done"
    /\ outcome \in {"none", "ok"} =>
          /\ ~scannerStop /\ workerStop = {}
          /\ collectorStop => collector = "done"
    /\ scanner \in {"sentinel", "done"} /\ ~scannerStop /\ ~scanFailed => toScan = {}
    /\ report \subseteq results

IInv == TypeOK /\ Conservation /\ HoldInv /\ OrderInv /\ PhaseInv

-----------------------------------------------------------------------------
(* The pipeline implements the promise of FileBatch.                         *)

Batch == INSTANCE FileBatch WITH collected <- results, dropped <- failed \cup rejected

\* Each file is decided at most once, collected or dropped but never both, by
\* whichever thread; a normal return hands over what was collected then, and
\* an error or an interrupt hands over nothing and is not undone.
PipelineDecidesOnce == Batch!Spec

-----------------------------------------------------------------------------
(* What the documentation of the code says and the code does not do.         *)

\* run_pipeline: "3. ResultCollector gathers all results" before it returns.
ReportComplete ==
    outcome = "ok" /\ ~scanFailed => report \cup failed \cup rejected = Files
=============================================================================
