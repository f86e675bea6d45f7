--------------------------- MODULE PipelineProofs ---------------------------
(* Proofs about Pipeline, for every set of files and workers and every       *)
(* queue size: the type invariant, that no file is lost or doubled, and that *)
(* the end marks never overtake the files.                                   *)
EXTENDS Pipeline, TLAPS

-----------------------------------------------------------------------------
(* What Append and Tail do to the items of a queue.                          *)

\* Append keeps the type of a queue and adds one item to it.
LEMMA AppendItems ==
    ASSUME NEW S, NEW q \in Seq(S), NEW e \in S
    PROVE  /\ Append(q, e) \in Seq(S)
           /\ Len(Append(q, e)) = Len(q) + 1
           /\ Items(Append(q, e)) = Items(q) \cup {e}
<1>1. /\ Append(q, e) \in Seq(S) /\ Len(Append(q, e)) = Len(q) + 1
      /\ Append(q, e)[Len(q) + 1] = e
      /\ \A i \in 1..Len(q) : Append(q, e)[i] = q[i]
      /\ Len(q) \in Nat
    OBVIOUS
<1>2. Items(q) \cup {e} \subseteq Items(Append(q, e))
    BY <1>1 DEF Items
<1>3. Items(Append(q, e)) \subseteq Items(q) \cup {e}
    BY <1>1 DEF Items
<1> QED BY <1>1, <1>2, <1>3

\* Tail takes the head away, and the items of a queue are its head and
\* those of its tail.
LEMMA TailItems ==
    ASSUME NEW S, NEW q \in Seq(S), q # <<>>
    PROVE  /\ Head(q) \in S /\ Tail(q) \in Seq(S)
           /\ Len(Tail(q)) <= Len(q)
           /\ Items(q) = Items(Tail(q)) \cup {Head(q)}
<1>1. /\ Head(q) = q[1] /\ Head(q) \in S /\ Tail(q) \in Seq(S)
      /\ Len(q) \in Nat /\ Len(q) >= 1 /\ Len(Tail(q)) = Len(q) - 1
      /\ \A i \in 1..Len(q) - 1 : Tail(q)[i] = q[i + 1]
    OBVIOUS
<1>2. Items(q) \subseteq Items(Tail(q)) \cup {Head(q)}
  <2> SUFFICES ASSUME NEW i \in 1..Len(q), q[i] # Head(q)
               PROVE  q[i] \in Items(Tail(q))
      BY DEF Items
  <2>1. i - 1 \in 1..Len(Tail(q)) /\ q[i] = Tail(q)[i - 1]
      BY <1>1
  <2> QED BY <2>1 DEF Items
<1>3. Items(Tail(q)) \cup {Head(q)} \subseteq Items(q)
    BY <1>1 DEF Items
<1> QED BY <1>1, <1>2, <1>3

\* A put of a file that the queue does not hold makes no double.
LEMMA AppendOnce ==
    ASSUME NEW S, NEW q \in Seq(S), NEW e \in S, Once(q),
           e \in Files => e \notin Items(q)
    PROVE  Once(Append(q, e))
<1>1. /\ Len(Append(q, e)) = Len(q) + 1 /\ Len(q) \in Nat
      /\ Append(q, e)[Len(q) + 1] = e
      /\ \A i \in 1..Len(q) : Append(q, e)[i] = q[i]
    OBVIOUS
<1> QED BY <1>1 DEF Once, Items

\* A get leaves no second copy of the file it takes.
LEMMA TailOnce ==
    ASSUME NEW S, NEW q \in Seq(S), q # <<>>, Once(q)
    PROVE  /\ Once(Tail(q))
           /\ Head(q) \in Files => Head(q) \notin Items(Tail(q))
<1>1. /\ Head(q) = q[1]
      /\ Len(q) \in Nat /\ Len(q) >= 1 /\ Len(Tail(q)) = Len(q) - 1
      /\ \A i \in 1..Len(q) - 1 : Tail(q)[i] = q[i + 1]
    OBVIOUS
<1> QED BY <1>1 DEF Once, Items

\* A file put where only files are, or a mark put anywhere, keeps the
\* files in front.
LEMMA AppendFilesFirst ==
    ASSUME NEW S, NEW q \in Seq(S), NEW e \in S, FilesFirst(q),
           e \in Files => Items(q) \subseteq Files
    PROVE  FilesFirst(Append(q, e))
<1>1. /\ Len(Append(q, e)) = Len(q) + 1 /\ Len(q) \in Nat
      /\ Append(q, e)[Len(q) + 1] = e
      /\ \A i \in 1..Len(q) : Append(q, e)[i] = q[i]
    OBVIOUS
<1> QED BY <1>1 DEF FilesFirst, Items

\* When a mark is at the head, no file is behind it.
LEMMA TailFilesFirst ==
    ASSUME NEW S, NEW q \in Seq(S), q # <<>>, FilesFirst(q)
    PROVE  /\ FilesFirst(Tail(q))
           /\ Head(q) \notin Files => Items(Tail(q)) \cap Files = {}
<1>1. /\ Head(q) = q[1]
      /\ Len(q) \in Nat /\ Len(q) >= 1 /\ Len(Tail(q)) = Len(q) - 1
      /\ \A i \in 1..Len(q) - 1 : Tail(q)[i] = q[i + 1]
    OBVIOUS
<1> QED BY <1>1 DEF FilesFirst, Items

\* The empty queue holds nothing.
LEMMA EmptyQueue ==
    Items(<<>>) = {} /\ Once(<<>>) /\ FilesFirst(<<>>)
BY DEF Items, Once, FilesFirst

-----------------------------------------------------------------------------
(* Type correctness.                                                         *)

USE DEF mainVars, scannerVars, workerVars, collectorVars, stopVars, queueVars,
        StartPCs, CollectPCs, GracefulPCs, ForcePCs, TryPCs, MainPCs,
        ScannerPCs, WorkerPCs, CollectorPCs

\* run_pipeline starts with values of the right types.
LEMMA TypeInit == Init => TypeOK
<1> SUFFICES ASSUME Init PROVE TypeOK
    OBVIOUS
<1>1. /\ <<>> \in Seq(Files \cup {None, SENTINEL}) /\ <<>> \in Seq(Files \cup {SENTINEL})
      /\ Len(<<>>) = 0 /\ 0 <= Capacity
    BY PipelineAssumption
<1>2. /\ fileQueue \in Seq(Files \cup {None, SENTINEL}) /\ Len(fileQueue) <= Capacity
      /\ resultQueue \in Seq(Files \cup {SENTINEL}) /\ Len(resultQueue) <= Capacity
    BY <1>1 DEF Init
<1> QED BY <1>2 DEF Init, TypeOK

\* No step breaks a type; TypeOK needs HoldInv for the file a thread holds.
LEMMA TypeStep == TypeOK /\ HoldInv /\ [Next]_vars => TypeOK'
<1> SUFFICES ASSUME TypeOK, HoldInv, [Next]_vars PROVE TypeOK'
    OBVIOUS
<1> USE PipelineAssumption
<1>1. CASE StartScanner
    BY <1>1 DEF TypeOK, StartScanner
<1>2. ASSUME NEW w \in Workers, StartWorker(w) PROVE TypeOK'
    BY <1>2 DEF TypeOK, StartWorker
<1>3. CASE StartCollector
    BY <1>3 DEF TypeOK, StartCollector
<1>4. CASE StartFails
    BY <1>4 DEF TypeOK, StartFails, Raise
<1>5. CASE JoinScanner
    BY <1>5 DEF TypeOK, JoinScanner
<1>6. CASE SignalParser
    BY <1>6 DEF TypeOK, SignalParser, CanPut
<1>7. CASE SignalParserTimesOut
    BY <1>7 DEF TypeOK, SignalParserTimesOut, Raise
<1>8. CASE JoinParsers
    BY <1>8 DEF TypeOK, JoinParsers
<1>9. CASE SignalCollector
    BY <1>9 DEF TypeOK, SignalCollector, CanPut
<1>10. CASE SignalCollectorTimesOut
    BY <1>10 DEF TypeOK, SignalCollectorTimesOut, Raise
<1>11. ASSUME NEW from \in TryPCs, NEW to \in TryPCs, JoinCollector(from, to)
      PROVE  TypeOK'
    BY <1>11 DEF TypeOK, JoinCollector, CollectorIsAlive
<1>12. CASE GetResults
    BY <1>12 DEF TypeOK, GetResults
<1>13. CASE GracefulShutdown
  <2>1. CASE main = "graceful_scanner"
      BY <1>13, <2>1 DEF TypeOK, GracefulShutdown
  <2>2. CASE main = "graceful_pool"
      BY <1>13, <2>2 DEF TypeOK, GracefulShutdown
  <2>3. CASE main = "graceful_collector"
      BY <1>13, <2>3 DEF TypeOK, GracefulShutdown
  <2> QED BY <1>13, <2>1, <2>2, <2>3 DEF GracefulShutdown
<1>14. CASE ForceShutdown
  <2>1. CASE main = "force_scanner"
    <3>1. scannerStop' \in BOOLEAN
        BY <1>14, <2>1, Zenon DEF TypeOK, ForceShutdown
    <3>2. UNCHANGED <<workerStop, collectorStop>> /\ main' = "force_pool"
        BY <1>14, <2>1 DEF ForceShutdown
    <3> QED BY <1>14, <3>1, <3>2 DEF TypeOK, ForceShutdown
  <2>2. CASE main = "force_pool"
      BY <1>14, <2>2 DEF TypeOK, ForceShutdown
  <2>3. CASE main = "force_collector"
      BY <1>14, <2>3 DEF TypeOK, ForceShutdown, CollectorIsAlive
  <2> QED BY <1>14, <2>1, <2>2, <2>3 DEF ForceShutdown
<1>15. CASE Interrupt
    BY <1>15 DEF TypeOK, Interrupt
<1>16. ASSUME NEW f \in Files, ScanNext(f) PROVE TypeOK'
    BY <1>16 DEF TypeOK, ScanNext
<1>17. CASE ScannerPut
    BY <1>17 DEF TypeOK, ScannerPut, CanPut
<1>18. CASE ScanEnds
    BY <1>18 DEF TypeOK, ScanEnds
<1>19. CASE ScanRaises
    BY <1>19 DEF TypeOK, ScanRaises
<1>20. CASE ScannerSentinel
    BY <1>20 DEF TypeOK, ScannerSentinel, CanPut
<1>21. ASSUME NEW w \in Workers, WorkerChecksStop(w) PROVE TypeOK'
    BY <1>21 DEF TypeOK, WorkerChecksStop
<1>22. ASSUME NEW w \in Workers, WorkerGets(w) PROVE TypeOK'
  <2>1. /\ Head(fileQueue) \in Files \cup {None, SENTINEL}
        /\ Tail(fileQueue) \in Seq(Files \cup {None, SENTINEL})
        /\ Len(Tail(fileQueue)) <= Len(fileQueue)
      BY <1>22, TailItems DEF TypeOK, WorkerGets
  <2>2. fileQueue' \in Seq(Files \cup {None, SENTINEL}) /\ Len(fileQueue') <= Capacity
      BY <1>22, <2>1 DEF TypeOK, WorkerGets
  <2>3. /\ job' \in [Workers -> Files \cup {None}]
        /\ worker' \in [Workers -> WorkerPCs]
      BY <1>22 DEF TypeOK, WorkerGets
  <2> QED BY <1>22, <2>2, <2>3 DEF TypeOK, WorkerGets
<1>23. ASSUME NEW w \in Workers, WorkerGetTimesOut(w) PROVE TypeOK'
    BY <1>23 DEF TypeOK, WorkerGetTimesOut
<1>24. ASSUME NEW w \in Workers, WorkerParses(w) PROVE TypeOK'
    BY <1>24 DEF TypeOK, WorkerParses
<1>25. ASSUME NEW w \in Workers, WorkerFails(w) PROVE TypeOK'
  <2>1. job[w] \in Files
      BY <1>25 DEF TypeOK, HoldInv, WorkerFails
  <2> QED BY <1>25, <2>1 DEF TypeOK, WorkerFails
<1>26. ASSUME NEW w \in Workers, WorkerPuts(w) PROVE TypeOK'
  <2>1. job[w] \in Files
      BY <1>26 DEF TypeOK, HoldInv, WorkerPuts
  <2>2. resultQueue' \in Seq(Files \cup {SENTINEL}) /\ Len(resultQueue') <= Capacity
      BY <1>26, <2>1 DEF TypeOK, WorkerPuts, CanPut
  <2> QED BY <1>26, <2>2 DEF TypeOK, WorkerPuts
<1>27. CASE CollectorChecksStop
    BY <1>27 DEF TypeOK, CollectorChecksStop
<1>28. CASE CollectorGets
  <2>1. /\ Head(resultQueue) \in Files \cup {SENTINEL}
        /\ Tail(resultQueue) \in Seq(Files \cup {SENTINEL})
        /\ Len(Tail(resultQueue)) <= Len(resultQueue)
      BY <1>28, TailItems DEF TypeOK, CollectorGets
  <2>2. resultQueue' \in Seq(Files \cup {SENTINEL}) /\ Len(resultQueue') <= Capacity
      BY <1>28, <2>1 DEF TypeOK, CollectorGets
  <2>3. CASE Head(resultQueue) = SENTINEL
      BY <1>28, <2>2, <2>3 DEF TypeOK, CollectorGets
  <2>4. CASE Head(resultQueue) # SENTINEL
      BY <1>28, <2>1, <2>2, <2>4 DEF TypeOK, CollectorGets
  <2> QED BY <2>3, <2>4
<1>29. CASE CollectorIdles
    BY <1>29 DEF TypeOK, CollectorIdles
<1>30. CASE CollectorStores
  <2>1. item \in Files
      BY <1>30 DEF TypeOK, HoldInv, CollectorStores
  <2> QED BY <1>30, <2>1 DEF TypeOK, CollectorStores
<1>31. CASE UNCHANGED vars
    BY <1>31 DEF TypeOK, vars
<1> QED
    BY <1>1, <1>2, <1>3, <1>4, <1>5, <1>6, <1>7, <1>8, <1>9, <1>10, <1>11, <1>12, <1>13, <1>14, <1>15, <1>16, <1>17, <1>18, <1>19, <1>20, <1>21, <1>22, <1>23, <1>24, <1>25, <1>26, <1>27, <1>28, <1>29, <1>30, <1>31
    DEF Next, MainStep, ScannerStep, WorkerStep, CollectorStep

-----------------------------------------------------------------------------
(* Who holds a file.                                                         *)

\* No step breaks who holds a file.
LEMMA HoldStep == TypeOK /\ HoldInv /\ PhaseInv /\ [Next]_vars => HoldInv'
<1> SUFFICES ASSUME TypeOK, HoldInv, PhaseInv, [Next]_vars PROVE HoldInv'
    OBVIOUS
<1> USE PipelineAssumption
<1>1. CASE StartScanner
    BY <1>1 DEF TypeOK, HoldInv, PhaseInv, StartScanner
<1>2. ASSUME NEW w \in Workers, StartWorker(w) PROVE HoldInv'
    BY <1>2 DEF TypeOK, HoldInv, StartWorker
<1>3. CASE StartCollector
    BY <1>3 DEF TypeOK, HoldInv, PhaseInv, StartCollector
<1>4. CASE StartFails
    BY <1>4 DEF TypeOK, HoldInv, StartFails, Raise
<1>5. CASE JoinScanner
    BY <1>5 DEF TypeOK, HoldInv, JoinScanner
<1>6. CASE SignalParser
    BY <1>6 DEF TypeOK, HoldInv, SignalParser
<1>7. CASE SignalParserTimesOut
    BY <1>7 DEF TypeOK, HoldInv, SignalParserTimesOut, Raise
<1>8. CASE JoinParsers
    BY <1>8 DEF TypeOK, HoldInv, JoinParsers
<1>9. CASE SignalCollector
    BY <1>9 DEF TypeOK, HoldInv, SignalCollector
<1>10. CASE SignalCollectorTimesOut
    BY <1>10 DEF TypeOK, HoldInv, SignalCollectorTimesOut, Raise
<1>11. ASSUME NEW from \in TryPCs, NEW to \in TryPCs, JoinCollector(from, to)
      PROVE  HoldInv'
    BY <1>11 DEF HoldInv, JoinCollector
<1>12. CASE GetResults
    BY <1>12 DEF TypeOK, HoldInv, GetResults
<1>13. CASE GracefulShutdown
    BY <1>13 DEF TypeOK, HoldInv, GracefulShutdown
<1>14. CASE ForceShutdown
    BY <1>14 DEF TypeOK, HoldInv, ForceShutdown
<1>15. CASE Interrupt
    BY <1>15 DEF TypeOK, HoldInv, Interrupt
<1>16. ASSUME NEW f \in Files, ScanNext(f) PROVE HoldInv'
    BY <1>16 DEF TypeOK, HoldInv, ScanNext
<1>17. CASE ScannerPut
    BY <1>17 DEF TypeOK, HoldInv, ScannerPut
<1>18. CASE ScanEnds
    BY <1>18 DEF TypeOK, HoldInv, ScanEnds
<1>19. CASE ScanRaises
    BY <1>19 DEF TypeOK, HoldInv, ScanRaises
<1>20. CASE ScannerSentinel
    BY <1>20 DEF TypeOK, HoldInv, ScannerSentinel
<1>21. ASSUME NEW w \in Workers, WorkerChecksStop(w) PROVE HoldInv'
    BY <1>21 DEF TypeOK, HoldInv, WorkerChecksStop
<1>22. ASSUME NEW w \in Workers, WorkerGets(w) PROVE HoldInv'
    BY <1>22 DEF TypeOK, HoldInv, WorkerGets
<1>23. ASSUME NEW w \in Workers, WorkerGetTimesOut(w) PROVE HoldInv'
    BY <1>23 DEF TypeOK, HoldInv, WorkerGetTimesOut
<1>24. ASSUME NEW w \in Workers, WorkerParses(w) PROVE HoldInv'
    BY <1>24 DEF TypeOK, HoldInv, WorkerParses
<1>25. ASSUME NEW w \in Workers, WorkerFails(w) PROVE HoldInv'
    BY <1>25 DEF TypeOK, HoldInv, WorkerFails
<1>26. ASSUME NEW w \in Workers, WorkerPuts(w) PROVE HoldInv'
    BY <1>26 DEF TypeOK, HoldInv, WorkerPuts
<1>27. CASE CollectorChecksStop
    BY <1>27 DEF TypeOK, HoldInv, CollectorChecksStop
<1>28. CASE CollectorGets
    BY <1>28 DEF TypeOK, HoldInv, CollectorGets
<1>29. CASE CollectorIdles
    BY <1>29 DEF TypeOK, HoldInv, CollectorIdles
<1>30. CASE CollectorStores
    BY <1>30 DEF TypeOK, HoldInv, CollectorStores
<1>31. CASE UNCHANGED vars
    BY <1>31 DEF HoldInv, vars
<1> QED
    BY <1>1, <1>2, <1>3, <1>4, <1>5, <1>6, <1>7, <1>8, <1>9, <1>10, <1>11, <1>12, <1>13, <1>14, <1>15, <1>16, <1>17, <1>18, <1>19, <1>20, <1>21, <1>22, <1>23, <1>24, <1>25, <1>26, <1>27, <1>28, <1>29, <1>30, <1>31
    DEF Next, MainStep, ScannerStep, WorkerStep, CollectorStep

-----------------------------------------------------------------------------
(* Conservation.  Most steps leave the places alone; the others move one     *)
(* file, or an end mark that is no file.                                     *)

placeVars == <<toScan, scanFile, fileQueue, job, failed, resultQueue, item,
               results, rejected>>

\* A step that touches none of the places keeps every file where it is.
LEMMA ConservationKept == Conservation /\ UNCHANGED placeVars => Conservation'
BY DEF Conservation, OnePlace, NoDoubles, At, Items, Once, placeVars

\* The generator yields a file: from the directory to the scanner.
LEMMA ConservationScanNext ==
    ASSUME TypeOK, HoldInv, Conservation, NEW f \in Files, ScanNext(f)
    PROVE  Conservation'
<1> USE PipelineAssumption
<1>1. scanFile = None
    BY DEF HoldInv, ScanNext
<1>2. OnePlace'
    BY <1>1 DEF TypeOK, Conservation, OnePlace, At, Places, Items, ScanNext
<1> QED BY <1>2 DEF Conservation, NoDoubles, Once, ScanNext

\* The scanner puts its file into the file queue.
LEMMA ConservationScannerPut ==
    ASSUME TypeOK, HoldInv, Conservation, ScannerPut
    PROVE  Conservation'
<1> USE PipelineAssumption
<1>1. scanFile \in Files
    BY DEF TypeOK, HoldInv, ScannerPut
<1>2. Items(fileQueue') = Items(fileQueue) \cup {scanFile}
    BY <1>1, AppendItems DEF TypeOK, ScannerPut
<1>3. scanFile \notin Items(fileQueue)
    BY <1>1 DEF Conservation, OnePlace, At, Places
<1>4. OnePlace'
    BY <1>1, <1>2 DEF TypeOK, Conservation, OnePlace, At, Places, Items, ScannerPut
<1>5. Once(fileQueue')
    BY <1>1, <1>3, AppendOnce DEF TypeOK, Conservation, NoDoubles, ScannerPut
<1> QED BY <1>4, <1>5 DEF Conservation, NoDoubles, Once, ScannerPut

\* An end mark in the file queue moves no file.
LEMMA ConservationFileMark ==
    ASSUME TypeOK, Conservation, NEW e \in {None, SENTINEL},
           fileQueue' = Append(fileQueue, e),
           UNCHANGED <<toScan, scanFile, job, failed, resultQueue, item, results, rejected>>
    PROVE  Conservation'
<1> USE PipelineAssumption
<1>1. Items(fileQueue') = Items(fileQueue) \cup {e}
    BY AppendItems DEF TypeOK
<1>2. \A f \in Files : f \in Items(fileQueue') <=> f \in Items(fileQueue)
    BY <1>1
<1>3. OnePlace'
    BY <1>2 DEF Conservation, OnePlace, At, Places, Items
<1>4. Once(fileQueue')
    BY AppendOnce DEF TypeOK, Conservation, NoDoubles
<1> QED BY <1>3, <1>4 DEF Conservation, NoDoubles, Once

\* An end mark in the result queue moves no file.
LEMMA ConservationResultMark ==
    ASSUME TypeOK, Conservation, SignalCollector
    PROVE  Conservation'
<1> USE PipelineAssumption
<1>1. Items(resultQueue') = Items(resultQueue) \cup {SENTINEL}
    BY AppendItems DEF TypeOK, SignalCollector
<1>2. \A f \in Files : f \in Items(resultQueue') <=> f \in Items(resultQueue)
    BY <1>1
<1>3. OnePlace'
    BY <1>2 DEF Conservation, OnePlace, At, Places, Items, SignalCollector
<1>4. Once(resultQueue')
    BY AppendOnce DEF TypeOK, Conservation, NoDoubles, SignalCollector
<1> QED BY <1>3, <1>4 DEF Conservation, NoDoubles, Once, SignalCollector

\* A worker takes a file, or an end mark, from the file queue.
LEMMA ConservationWorkerGets ==
    ASSUME TypeOK, HoldInv, Conservation, NEW w \in Workers, WorkerGets(w)
    PROVE  Conservation'
<1> USE PipelineAssumption
<1> DEFINE head == Head(fileQueue)
<1>1. job[w] = None
    BY DEF HoldInv, WorkerGets
<1>2. Items(fileQueue) = Items(fileQueue') \cup {head}
    BY TailItems DEF TypeOK, WorkerGets
<1>3. Once(fileQueue') /\ (head \in Files => head \notin Items(fileQueue'))
    BY TailOnce DEF TypeOK, Conservation, NoDoubles, WorkerGets
<1>4. CASE head \in Files
  <2>1. /\ \A v \in Workers : job'[v] = IF v = w THEN head ELSE job[v]
        /\ \A v \in Workers : job[v] # head
    <3>1. \A v \in Workers : job[v] # head
        BY <1>2, <1>4 DEF Conservation, OnePlace, At, Places
    <3> QED BY <1>4, <3>1 DEF TypeOK, WorkerGets
  <2>2. \A f \in Files : f \in Items(fileQueue') <=> f \in Items(fileQueue) /\ f # head
      BY <1>2, <1>3, <1>4
  <2>3. \A f \in Files : (\E v \in Workers : f = job'[v])
                           <=> f = head \/ \E v \in Workers : f = job[v]
      BY <1>1, <1>4, <2>1
  <2>4. ~At(head, "worker") /\ At(head, "file_queue")
      BY <1>2, <2>1 DEF At
  <2>5. UNCHANGED <<toScan, scanFile, failed, resultQueue, item, results, rejected>>
      BY DEF WorkerGets
  <2>6. OnePlace'
      BY <1>4, <2>2, <2>3, <2>4, <2>5 DEF Conservation, OnePlace, At, Places
  <2> QED BY <1>3, <1>4, <2>1, <2>6 DEF Conservation, NoDoubles, Once, WorkerGets
<1>5. CASE head \notin Files
  <2>1. job' = job /\ \A f \in Files : f \in Items(fileQueue') <=> f \in Items(fileQueue)
      BY <1>2, <1>5 DEF WorkerGets
  <2>2. OnePlace'
      BY <2>1 DEF Conservation, OnePlace, At, Places, Items, WorkerGets
  <2> QED BY <1>3, <2>1, <2>2 DEF Conservation, NoDoubles, Once, WorkerGets
<1> QED BY <1>4, <1>5

\* A worker fails: its file is counted as failed and nowhere else.
LEMMA ConservationWorkerFails ==
    ASSUME TypeOK, HoldInv, Conservation, NEW w \in Workers, WorkerFails(w)
    PROVE  Conservation'
<1> USE PipelineAssumption
<1>1. job[w] \in Files
    BY DEF TypeOK, HoldInv, WorkerFails
<1>2. \A v \in Workers : /\ job'[v] = IF v = w THEN None ELSE job[v]
                         /\ job[v] = job[w] => v = w
    BY <1>1 DEF TypeOK, Conservation, NoDoubles, WorkerFails
<1>3. OnePlace'
    BY <1>1, <1>2 DEF TypeOK, Conservation, OnePlace, At, Places, Items, WorkerFails
<1> QED BY <1>2, <1>3 DEF Conservation, NoDoubles, Once, WorkerFails

\* A worker hands its result to the result queue.
LEMMA ConservationWorkerPuts ==
    ASSUME TypeOK, HoldInv, Conservation, NEW w \in Workers, WorkerPuts(w)
    PROVE  Conservation'
<1> USE PipelineAssumption
<1>1. job[w] \in Files
    BY DEF TypeOK, HoldInv, WorkerPuts
<1>2. \A v \in Workers : /\ job'[v] = IF v = w THEN None ELSE job[v]
                         /\ job[v] = job[w] => v = w
    BY <1>1 DEF TypeOK, Conservation, NoDoubles, WorkerPuts
<1>3. Items(resultQueue') = Items(resultQueue) \cup {job[w]}
    BY <1>1, AppendItems DEF TypeOK, WorkerPuts
<1>4. job[w] \notin Items(resultQueue)
    BY <1>1 DEF Conservation, OnePlace, At, Places
<1>5. OnePlace'
    BY <1>1, <1>2, <1>3
    DEF TypeOK, Conservation, OnePlace, At, Places, Items, WorkerPuts
<1>6. Once(resultQueue')
    BY <1>1, <1>4, AppendOnce DEF TypeOK, Conservation, NoDoubles, WorkerPuts
<1> QED BY <1>2, <1>5, <1>6 DEF Conservation, NoDoubles, Once, WorkerPuts

\* The collector takes a result, or the end mark.
LEMMA ConservationCollectorGets ==
    ASSUME TypeOK, HoldInv, Conservation, CollectorGets
    PROVE  Conservation'
<1> USE PipelineAssumption
<1> DEFINE head == Head(resultQueue)
<1>1. item = None
    BY DEF HoldInv, CollectorGets
<1>2. /\ Items(resultQueue) = Items(resultQueue') \cup {head}
      /\ head \in Files \cup {SENTINEL}
    BY TailItems DEF TypeOK, CollectorGets
<1>3. Once(resultQueue') /\ (head \in Files => head \notin Items(resultQueue'))
    BY TailOnce DEF TypeOK, Conservation, NoDoubles, CollectorGets
<1>4. CASE head # SENTINEL
  <2>1. item' = head /\ head \in Files
      BY <1>2, <1>4 DEF CollectorGets
  <2>2. \A f \in Files : f \in Items(resultQueue') <=> f \in Items(resultQueue) /\ f # head
      BY <1>2, <1>3, <2>1
  <2>3. UNCHANGED <<toScan, scanFile, fileQueue, job, failed, results, rejected>>
      BY DEF CollectorGets
  <2>4. OnePlace'
      BY <1>1, <1>2, <2>1, <2>2, <2>3 DEF Conservation, OnePlace, At, Places
  <2> QED BY <1>3, <2>4 DEF Conservation, NoDoubles, Once, CollectorGets
<1>5. CASE head = SENTINEL
  <2>1. item' = item /\ \A f \in Files : f \in Items(resultQueue') <=> f \in Items(resultQueue)
      BY <1>2, <1>5 DEF CollectorGets
  <2>2. OnePlace'
      BY <2>1 DEF Conservation, OnePlace, At, Places, Items, CollectorGets
  <2> QED BY <1>3, <2>2 DEF Conservation, NoDoubles, Once, CollectorGets
<1> QED BY <1>4, <1>5

\* The collector keeps its result or drops it.
LEMMA ConservationCollectorStores ==
    ASSUME TypeOK, HoldInv, Conservation, CollectorStores
    PROVE  Conservation'
<1> USE PipelineAssumption
<1>1. item \in Files
    BY DEF TypeOK, HoldInv, CollectorStores
<1>2. CASE results' = results \cup {item} /\ UNCHANGED rejected
  <2>1. OnePlace'
      BY <1>1, <1>2 DEF TypeOK, Conservation, OnePlace, At, Places, Items, CollectorStores
  <2> QED BY <2>1 DEF Conservation, NoDoubles, Once, CollectorStores
<1>3. CASE rejected' = rejected \cup {item} /\ UNCHANGED results
  <2>1. OnePlace'
      BY <1>1, <1>3 DEF TypeOK, Conservation, OnePlace, At, Places, Items, CollectorStores
  <2> QED BY <2>1 DEF Conservation, NoDoubles, Once, CollectorStores
<1> QED BY <1>2, <1>3 DEF CollectorStores

\* No step loses or doubles a file.
LEMMA ConservationStep ==
    TypeOK /\ HoldInv /\ Conservation /\ [Next]_vars => Conservation'
<1> SUFFICES ASSUME TypeOK, HoldInv, Conservation, [Next]_vars PROVE Conservation'
    OBVIOUS
<1>1. CASE StartFails \/ Interrupt \/ UNCHANGED vars
    BY <1>1, ConservationKept DEF StartFails, Raise, Interrupt, placeVars, vars
<1>2. CASE MainStep
  <2>1. CASE SignalParser
      BY <2>1, ConservationFileMark DEF SignalParser
  <2>2. CASE SignalCollector
      BY <2>2, ConservationResultMark
  <2>3. CASE ~SignalParser /\ ~SignalCollector
      BY <1>2, <2>3, ConservationKept
      DEF MainStep, StartScanner, StartWorker, StartCollector, JoinScanner,
          SignalParserTimesOut, JoinParsers, SignalCollectorTimesOut, JoinCollector,
          Raise, GetResults, GracefulShutdown, ForceShutdown, placeVars
  <2> QED BY <2>1, <2>2, <2>3
<1>3. CASE ScannerStep
  <2>1. CASE ScanEnds \/ ScanRaises
      BY <2>1, ConservationKept DEF ScanEnds, ScanRaises, placeVars
  <2>2. CASE ScannerSentinel
      BY <2>2, ConservationKept, ConservationFileMark DEF ScannerSentinel, placeVars
  <2> QED BY <1>3, <2>1, <2>2, ConservationScanNext, ConservationScannerPut
      DEF ScannerStep
<1>4. ASSUME NEW w \in Workers, WorkerStep(w) PROVE Conservation'
  <2>1. CASE WorkerChecksStop(w) \/ WorkerGetTimesOut(w) \/ WorkerParses(w)
      BY <2>1, ConservationKept
      DEF WorkerChecksStop, WorkerGetTimesOut, WorkerParses, placeVars
  <2> QED BY <1>4, <2>1, ConservationWorkerGets, ConservationWorkerFails,
             ConservationWorkerPuts DEF WorkerStep
<1>5. CASE CollectorStep
  <2>1. CASE CollectorChecksStop \/ CollectorIdles
      BY <2>1, ConservationKept DEF CollectorChecksStop, CollectorIdles, placeVars
  <2> QED BY <1>5, <2>1, ConservationCollectorGets, ConservationCollectorStores
      DEF CollectorStep
<1> QED BY <1>1, <1>2, <1>3, <1>4, <1>5 DEF Next

-----------------------------------------------------------------------------
(* What run_pipeline has established.                                        *)

\* No step breaks what run_pipeline has established where it is.
LEMMA PhaseStep ==
    TypeOK /\ HoldInv /\ OrderInv /\ PhaseInv /\ [Next]_vars => PhaseInv'
<1> SUFFICES ASSUME TypeOK, HoldInv, OrderInv, PhaseInv, [Next]_vars PROVE PhaseInv'
    OBVIOUS
<1> USE PipelineAssumption
<1>1. CASE StartScanner
    BY <1>1 DEF TypeOK, HoldInv, PhaseInv, StartScanner
<1>2. ASSUME NEW w \in Workers, StartWorker(w) PROVE PhaseInv'
    BY <1>2 DEF TypeOK, HoldInv, PhaseInv, StartWorker
<1>3. CASE StartCollector
    BY <1>3 DEF TypeOK, HoldInv, PhaseInv, StartCollector
<1>4. CASE StartFails
    BY <1>4 DEF TypeOK, HoldInv, PhaseInv, StartFails, Raise
<1>5. CASE JoinScanner
    BY <1>5 DEF TypeOK, HoldInv, PhaseInv, JoinScanner
<1>6. CASE SignalParser
    BY <1>6 DEF TypeOK, HoldInv, PhaseInv, SignalParser
<1>7. CASE SignalParserTimesOut
    BY <1>7 DEF TypeOK, HoldInv, PhaseInv, SignalParserTimesOut, Raise
<1>8. CASE JoinParsers
    BY <1>8 DEF TypeOK, HoldInv, PhaseInv, JoinParsers
<1>9. CASE SignalCollector
    BY <1>9 DEF TypeOK, HoldInv, PhaseInv, SignalCollector
<1>10. CASE SignalCollectorTimesOut
    BY <1>10 DEF TypeOK, HoldInv, PhaseInv, SignalCollectorTimesOut, Raise
<1>11. CASE \/ JoinCollector("join_collector", "join_again")
           \/ JoinCollector("join_again", "get_results")
    BY <1>11 DEF TypeOK, HoldInv, PhaseInv, JoinCollector, CollectorIsAlive
<1>12. CASE GetResults
    BY <1>12 DEF TypeOK, HoldInv, PhaseInv, GetResults
<1>13. CASE GracefulShutdown
    BY <1>13 DEF TypeOK, HoldInv, PhaseInv, GracefulShutdown
<1>14. CASE ForceShutdown
  <2>1. CASE main = "force_scanner"
    <3>1. scannerStop' \in BOOLEAN
          /\ (outcome \in {"none", "ok"} => ~scannerStop')
          /\ (~scannerStop' => ~scannerStop)
        BY <1>14, <2>1, Zenon DEF TypeOK, PhaseInv, ForceShutdown, Alive
    <3>2. main' = "force_pool" /\ UNCHANGED <<outcome, report, workerStop, collectorStop>>
          /\ UNCHANGED <<scannerVars, workerVars, collectorVars, queueVars>>
        BY <1>14, <2>1 DEF ForceShutdown
    <3> QED BY <2>1, <3>1, <3>2 DEF PhaseInv
  <2>2. CASE main = "force_pool"
    <3>1. outcome \in {"none", "ok"} => workerStop' = {}
        BY <1>14, <2>2 DEF PhaseInv, ForceShutdown, Alive
    <3>2. main' = "force_collector" /\ UNCHANGED <<outcome, report, scannerStop, collectorStop>>
          /\ UNCHANGED <<scannerVars, workerVars, collectorVars, queueVars>>
        BY <1>14, <2>2 DEF ForceShutdown
    <3> QED BY <2>2, <3>1, <3>2 DEF PhaseInv
  <2>3. CASE main = "force_collector"
      BY <1>14, <2>3 DEF PhaseInv, ForceShutdown, CollectorIsAlive
  <2> QED BY <1>14, <2>1, <2>2, <2>3 DEF ForceShutdown
<1>15. CASE Interrupt
    BY <1>15 DEF TypeOK, HoldInv, PhaseInv, Interrupt
<1>16. ASSUME NEW f \in Files, ScanNext(f) PROVE PhaseInv'
    BY <1>16 DEF TypeOK, HoldInv, PhaseInv, ScanNext
<1>17. CASE ScannerPut
    BY <1>17 DEF TypeOK, HoldInv, PhaseInv, ScannerPut
<1>18. CASE ScanEnds
    BY <1>18 DEF TypeOK, HoldInv, PhaseInv, ScanEnds
<1>19. CASE ScanRaises
    BY <1>19 DEF TypeOK, HoldInv, PhaseInv, ScanRaises
<1>20. CASE ScannerSentinel
    BY <1>20 DEF TypeOK, HoldInv, PhaseInv, ScannerSentinel
<1>21. ASSUME NEW w \in Workers, WorkerChecksStop(w) PROVE PhaseInv'
    BY <1>21 DEF TypeOK, HoldInv, PhaseInv, WorkerChecksStop
<1>22. ASSUME NEW w \in Workers, WorkerGets(w) PROVE PhaseInv'
    BY <1>22 DEF TypeOK, HoldInv, PhaseInv, WorkerGets
<1>23. ASSUME NEW w \in Workers, WorkerGetTimesOut(w) PROVE PhaseInv'
    BY <1>23 DEF TypeOK, HoldInv, PhaseInv, WorkerGetTimesOut
<1>24. ASSUME NEW w \in Workers, WorkerParses(w) PROVE PhaseInv'
    BY <1>24 DEF TypeOK, HoldInv, PhaseInv, WorkerParses
<1>25. ASSUME NEW w \in Workers, WorkerFails(w) PROVE PhaseInv'
    BY <1>25 DEF TypeOK, HoldInv, PhaseInv, WorkerFails
<1>26. ASSUME NEW w \in Workers, WorkerPuts(w) PROVE PhaseInv'
    BY <1>26 DEF TypeOK, HoldInv, PhaseInv, WorkerPuts
<1>27. CASE CollectorChecksStop
    BY <1>27 DEF TypeOK, HoldInv, PhaseInv, CollectorChecksStop
<1>28. CASE CollectorGets
    BY <1>28 DEF TypeOK, HoldInv, PhaseInv, CollectorGets
<1>29. CASE CollectorIdles
    BY <1>29 DEF TypeOK, HoldInv, PhaseInv, CollectorIdles
<1>30. CASE CollectorStores
    BY <1>30 DEF TypeOK, HoldInv, PhaseInv, CollectorStores
<1>31. CASE UNCHANGED vars
    BY <1>31 DEF PhaseInv, vars
<1> QED
    BY <1>1, <1>2, <1>3, <1>4, <1>5, <1>6, <1>7, <1>8, <1>9, <1>10, <1>11, <1>12, <1>13, <1>14, <1>15, <1>16, <1>17, <1>18, <1>19, <1>20, <1>21, <1>22, <1>23, <1>24, <1>25, <1>26, <1>27, <1>28, <1>29, <1>30, <1>31
    DEF Next, MainStep, ScannerStep, WorkerStep, CollectorStep

-----------------------------------------------------------------------------
(* The order of files and end marks.                                         *)

\* No step puts a file behind an end mark, or ends a thread too early.
LEMMA OrderStep ==
    TypeOK /\ HoldInv /\ OrderInv /\ PhaseInv /\ [Next]_vars => OrderInv'
<1> SUFFICES ASSUME TypeOK, HoldInv, OrderInv, PhaseInv, [Next]_vars PROVE OrderInv'
    OBVIOUS
<1> USE PipelineAssumption
<1>1. CASE StartScanner
    BY <1>1 DEF TypeOK, HoldInv, OrderInv, PhaseInv, StartScanner
<1>2. ASSUME NEW w \in Workers, StartWorker(w) PROVE OrderInv'
    BY <1>2 DEF TypeOK, HoldInv, OrderInv, PhaseInv, StartWorker
<1>3. CASE StartCollector
    BY <1>3 DEF TypeOK, HoldInv, OrderInv, PhaseInv, StartCollector
<1>4. CASE StartFails
    BY <1>4 DEF TypeOK, HoldInv, OrderInv, PhaseInv, StartFails, Raise
<1>5. CASE JoinScanner
    BY <1>5 DEF TypeOK, HoldInv, OrderInv, PhaseInv, JoinScanner
<1>6. CASE SignalParser
  <2>1. /\ Items(fileQueue') = Items(fileQueue) \cup {SENTINEL}
        /\ FilesFirst(fileQueue')
      BY <1>6, AppendItems, AppendFilesFirst DEF TypeOK, OrderInv, SignalParser
  <2> QED BY <1>6, <2>1 DEF OrderInv, PhaseInv, SignalParser
<1>7. CASE SignalParserTimesOut
    BY <1>7 DEF TypeOK, HoldInv, OrderInv, PhaseInv, SignalParserTimesOut, Raise
<1>8. CASE JoinParsers
    BY <1>8 DEF TypeOK, HoldInv, OrderInv, PhaseInv, JoinParsers
<1>9. CASE SignalCollector
  <2>1. /\ Items(resultQueue') = Items(resultQueue) \cup {SENTINEL}
        /\ FilesFirst(resultQueue')
      BY <1>9, AppendItems, AppendFilesFirst DEF TypeOK, OrderInv, SignalCollector
  <2> QED BY <1>9, <2>1 DEF OrderInv, PhaseInv, SignalCollector
<1>10. CASE SignalCollectorTimesOut
    BY <1>10 DEF TypeOK, HoldInv, OrderInv, PhaseInv, SignalCollectorTimesOut, Raise
<1>11. CASE \/ JoinCollector("join_collector", "join_again")
           \/ JoinCollector("join_again", "get_results")
    BY <1>11 DEF TypeOK, HoldInv, OrderInv, PhaseInv, JoinCollector, CollectorIsAlive
<1>12. CASE GetResults
    BY <1>12 DEF TypeOK, HoldInv, OrderInv, PhaseInv, GetResults
<1>13. CASE GracefulShutdown
    BY <1>13 DEF TypeOK, HoldInv, OrderInv, PhaseInv, GracefulShutdown
<1>14. CASE ForceShutdown
    BY <1>14 DEF TypeOK, HoldInv, OrderInv, PhaseInv, ForceShutdown, CollectorIsAlive, Alive
<1>15. CASE Interrupt
    BY <1>15 DEF TypeOK, HoldInv, OrderInv, PhaseInv, Interrupt
<1>16. ASSUME NEW f \in Files, ScanNext(f) PROVE OrderInv'
    BY <1>16 DEF TypeOK, HoldInv, OrderInv, PhaseInv, ScanNext
<1>17. CASE ScannerPut
  <2>1. scanFile \in Files /\ Items(fileQueue) \subseteq Files
      BY <1>17 DEF TypeOK, HoldInv, OrderInv, ScannerPut
  <2>2. /\ Items(fileQueue') = Items(fileQueue) \cup {scanFile}
        /\ FilesFirst(fileQueue')
      BY <1>17, <2>1, AppendItems, AppendFilesFirst DEF TypeOK, OrderInv, ScannerPut
  <2> QED BY <1>17, <2>1, <2>2 DEF OrderInv, ScannerPut
<1>18. CASE ScanEnds
    BY <1>18 DEF TypeOK, HoldInv, OrderInv, PhaseInv, ScanEnds
<1>19. CASE ScanRaises
    BY <1>19 DEF TypeOK, HoldInv, OrderInv, PhaseInv, ScanRaises
<1>20. CASE ScannerSentinel
  <2>1. CASE fileQueue' = Append(fileQueue, None)
    <3>1. /\ Items(fileQueue') = Items(fileQueue) \cup {None}
          /\ FilesFirst(fileQueue')
        BY <2>1, AppendItems, AppendFilesFirst DEF TypeOK, OrderInv
    <3> QED BY <1>20, <3>1 DEF OrderInv, ScannerSentinel
  <2>2. CASE fileQueue' = fileQueue
      BY <1>20, <2>2 DEF OrderInv, ScannerSentinel
  <2> QED BY <1>20, <2>1, <2>2 DEF ScannerSentinel
<1>21. ASSUME NEW w \in Workers, WorkerChecksStop(w) PROVE OrderInv'
    BY <1>21 DEF TypeOK, HoldInv, OrderInv, PhaseInv, WorkerChecksStop
<1>22. ASSUME NEW w \in Workers, WorkerGets(w) PROVE OrderInv'
  <2>1. /\ Items(fileQueue) = Items(fileQueue') \cup {Head(fileQueue)}
        /\ FilesFirst(fileQueue')
        /\ Head(fileQueue) \notin Files => Items(fileQueue') \cap Files = {}
      BY <1>22, TailItems, TailFilesFirst DEF TypeOK, OrderInv, WorkerGets
  <2>2. \A v \in Workers : worker'[v] = "done" /\ v # w => worker[v] = "done"
      BY <1>22 DEF TypeOK, WorkerGets
  <2>3. worker'[w] = "done" => Head(fileQueue) \notin Files
      BY <1>22 DEF TypeOK, WorkerGets
  <2>4. Items(resultQueue) \subseteq Files /\ ~(collector = "done" /\ outcome \in {"none", "ok"})
      BY <1>22 DEF OrderInv, WorkerGets
  <2>5. UNCHANGED <<scanner, resultQueue, workerStop, collector, outcome>>
      BY <1>22 DEF WorkerGets
  <2> QED BY <2>1, <2>2, <2>3, <2>4, <2>5 DEF OrderInv
<1>23. ASSUME NEW w \in Workers, WorkerGetTimesOut(w) PROVE OrderInv'
    BY <1>23 DEF TypeOK, HoldInv, OrderInv, PhaseInv, WorkerGetTimesOut
<1>24. ASSUME NEW w \in Workers, WorkerParses(w) PROVE OrderInv'
    BY <1>24 DEF TypeOK, HoldInv, OrderInv, PhaseInv, WorkerParses
<1>25. ASSUME NEW w \in Workers, WorkerFails(w) PROVE OrderInv'
    BY <1>25 DEF TypeOK, HoldInv, OrderInv, PhaseInv, WorkerFails
<1>26. ASSUME NEW w \in Workers, WorkerPuts(w) PROVE OrderInv'
  <2>1. job[w] \in Files /\ Items(resultQueue) \subseteq Files
      BY <1>26 DEF TypeOK, HoldInv, OrderInv, WorkerPuts
  <2>2. /\ Items(resultQueue') = Items(resultQueue) \cup {job[w]}
        /\ FilesFirst(resultQueue')
      BY <1>26, <2>1, AppendItems, AppendFilesFirst DEF TypeOK, OrderInv, WorkerPuts
  <2>3. \A v \in Workers : worker'[v] = "done" => worker[v] = "done"
      BY <1>26 DEF TypeOK, WorkerPuts
  <2>4. ~(collector = "done" /\ outcome \in {"none", "ok"})
      BY <1>26 DEF OrderInv, WorkerPuts
  <2>5. UNCHANGED <<scanner, fileQueue, workerStop, collector, outcome>>
      BY <1>26 DEF WorkerPuts
  <2> QED BY <2>1, <2>2, <2>3, <2>4, <2>5 DEF OrderInv
<1>27. CASE CollectorChecksStop
    BY <1>27 DEF TypeOK, HoldInv, OrderInv, PhaseInv, CollectorChecksStop
<1>28. CASE CollectorGets
  <2>1. /\ Items(resultQueue) = Items(resultQueue') \cup {Head(resultQueue)}
        /\ FilesFirst(resultQueue')
        /\ Head(resultQueue) \notin Files => Items(resultQueue') \cap Files = {}
      BY <1>28, TailItems, TailFilesFirst DEF TypeOK, OrderInv, CollectorGets
  <2>2. collector' = "done" => Head(resultQueue) \notin Files
      BY <1>28 DEF CollectorGets
  <2>3. UNCHANGED <<scanner, fileQueue, worker, workerStop, outcome>>
      BY <1>28 DEF CollectorGets
  <2> QED BY <2>1, <2>2, <2>3 DEF OrderInv
<1>29. CASE CollectorIdles
    BY <1>29 DEF TypeOK, HoldInv, OrderInv, PhaseInv, CollectorIdles
<1>30. CASE CollectorStores
    BY <1>30 DEF TypeOK, HoldInv, OrderInv, PhaseInv, CollectorStores
<1>31. CASE UNCHANGED vars
    BY <1>31 DEF OrderInv, vars
<1> QED
    BY <1>1, <1>2, <1>3, <1>4, <1>5, <1>6, <1>7, <1>8, <1>9, <1>10, <1>11, <1>12, <1>13, <1>14, <1>15, <1>16, <1>17, <1>18, <1>19, <1>20, <1>21, <1>22, <1>23, <1>24, <1>25, <1>26, <1>27, <1>28, <1>29, <1>30, <1>31
    DEF Next, MainStep, ScannerStep, WorkerStep, CollectorStep

-----------------------------------------------------------------------------
(* The inductive invariant and what follows from it.                         *)

\* The pipeline starts with every file in the directory and nothing running.
LEMMA InvInit == Init => IInv
<1> SUFFICES ASSUME Init PROVE IInv
    OBVIOUS
<1> USE PipelineAssumption
<1>1. TypeOK
    BY TypeInit
<1>2. /\ Items(fileQueue) = {} /\ Once(fileQueue) /\ FilesFirst(fileQueue)
      /\ Items(resultQueue) = {} /\ Once(resultQueue) /\ FilesFirst(resultQueue)
    BY EmptyQueue DEF Init
<1>3. OnePlace
    BY <1>2 DEF Init, OnePlace, At, Places
<1>4. NoDoubles
    BY <1>2 DEF Init, NoDoubles
<1>5. HoldInv
    BY DEF Init, HoldInv
<1>6. OrderInv
    BY <1>2 DEF Init, OrderInv
<1>7. PhaseInv
    BY DEF Init, PhaseInv
<1> QED BY <1>1, <1>3, <1>4, <1>5, <1>6, <1>7 DEF IInv, Conservation

\* No step of any thread breaks the inductive invariant.
LEMMA InvStep == IInv /\ [Next]_vars => IInv'
BY TypeStep, HoldStep, ConservationStep, OrderStep, PhaseStep DEF IInv

\* The inductive invariant holds in every reachable state.
THEOREM Invariance == Spec => []IInv
<1>1. Init => IInv
    BY InvInit
<1>2. IInv /\ [Next]_vars => IInv'
    BY InvStep
<1> QED BY <1>1, <1>2, PTL DEF Spec

\* Every variable keeps its type and neither queue outgrows max_queue_size,
\* whatever is put, timed out, stopped or interrupted.
THEOREM TypeCorrect == Spec => []TypeOK
<1>1. IInv => TypeOK
    BY DEF IInv
<1> QED BY <1>1, Invariance, PTL

\* No file is lost between two threads and none is processed twice.
THEOREM NothingLost == Spec => []Conservation
<1>1. IInv => Conservation
    BY DEF IInv
<1> QED BY <1>1, Invariance, PTL

\* Once the parser pool is joined, no file is before or in the workers: the
\* end marks in the shared file queue never overtake a path.
THEOREM MarksStayBehind == Spec => []ParsersDrained
<1>1. IInv => ParsersDrained
  <2> SUFFICES ASSUME IInv, main \in CollectPCs, NEW f \in Files
               PROVE  ~At(f, "scanner") /\ ~At(f, "file_queue") /\ ~At(f, "worker")
      BY DEF ParsersDrained
  <2> USE PipelineAssumption
  <2>1. /\ scanner = "done" /\ outcome = "none"
        /\ \A w \in Workers : worker[w] = "done" /\ workerStop = {}
      BY DEF IInv, PhaseInv
  <2>2. scanFile = None /\ \A w \in Workers : job[w] = None
      BY <2>1 DEF IInv, HoldInv
  <2>3. f \notin Items(fileQueue)
      BY <2>1 DEF IInv, OrderInv
  <2> QED BY <2>2, <2>3 DEF At
<1> QED BY <1>1, Invariance, PTL

\* When run_pipeline returned normally and the collector ended, every scanned
\* file is among the collector's results or was counted as a failure.
THEOREM AllCollected == Spec => []CollectedAll
<1>1. IInv => CollectedAll
  <2> SUFFICES ASSUME IInv, outcome = "ok"
               PROVE  /\ report \subseteq results
                      /\ collector = "done" =>
                           \A f \in Files : f \in results \cup failed \cup rejected
                                            \/ (scanFailed /\ f \in toScan)
      BY DEF CollectedAll
  <2> USE PipelineAssumption
  <2>1. /\ scanner = "done" /\ ~scannerStop /\ workerStop = {}
        /\ \A w \in Workers : worker[w] = "done"
        /\ ~scanFailed => toScan = {}
        /\ report \subseteq results
      BY DEF IInv, PhaseInv
  <2>2. ASSUME collector = "done", NEW f \in Files
        PROVE  f \in results \cup failed \cup rejected \/ (scanFailed /\ f \in toScan)
    <3>1. /\ scanFile = None /\ item = None
          /\ \A w \in Workers : job[w] = None
        BY <2>1, <2>2 DEF IInv, HoldInv
    <3>2. f \notin Items(fileQueue) /\ f \notin Items(resultQueue)
        BY <2>1, <2>2 DEF IInv, OrderInv
    <3>3. PICK p \in Places : At(f, p)
        BY DEF IInv, Conservation, OnePlace
    <3>4. p \in {"directory", "failed", "results", "rejected"}
        BY <3>1, <3>2, <3>3 DEF At, Places
    <3> QED BY <2>1, <3>3, <3>4 DEF At
  <2> QED BY <2>1, <2>2
<1> QED BY <1>1, Invariance, PTL
\* Each file has exactly one place, the queues stay within max_queue_size and
\* the pool is joined only when nothing is left for it: what Pipeline.cfg checks.
THEOREM FilesArePlaced == Spec => []FilesPlaced
<1>1. TypeOK /\ Conservation /\ ParsersDrained => FilesPlaced
    BY DEF FilesPlaced
<1> QED BY <1>1, TypeCorrect, NothingLost, MarksStayBehind, PTL
-----------------------------------------------------------------------------
(* The pipeline implements FileBatch.                                        *)

batchVars == <<outcome, report, results, failed \cup rejected>>

\* Every step of a pipeline thread is a step of the batch or leaves it alone.
LEMMA BatchStep == IInv /\ [Next]_vars => [Batch!Next]_batchVars
<1> SUFFICES ASSUME IInv, [Next]_vars PROVE [Batch!Next]_batchVars
    OBVIOUS
<1> USE PipelineAssumption DEF batchVars
<1>1. CASE Raise /\ main \in StartPCs \cup {"signal_parsers", "signal_collector"}
    BY <1>1 DEF IInv, PhaseInv, Raise, Batch!Next, Batch!Abandon
<1>2. CASE Interrupt
  <2>1. outcome \in {"none", "error"}
      BY <1>2 DEF IInv, TypeOK, PhaseInv, Interrupt
  <2> QED BY <1>2, <2>1 DEF Interrupt, Batch!Next, Batch!Abandon
<1>3. CASE GetResults
    BY <1>3 DEF IInv, PhaseInv, GetResults, Batch!Next, Batch!Return
<1>4. ASSUME NEW w \in Workers, WorkerFails(w) PROVE [Batch!Next]_batchVars
  <2>1. /\ job[w] \in Files
        /\ job[w] \notin results \cup failed \cup rejected
    <3>1. job[w] \in Files
        BY <1>4 DEF IInv, TypeOK, HoldInv, WorkerFails
    <3> QED BY <3>1 DEF IInv, Conservation, OnePlace, At, Places
  <2>2. Batch!Drop(job[w])
      BY <1>4, <2>1 DEF WorkerFails, Batch!Drop, Batch!Undecided
  <2> QED BY <2>1, <2>2 DEF Batch!Next
<1>5. CASE CollectorStores
  <2>1. /\ item \in Files
        /\ item \notin results \cup failed \cup rejected
    <3>1. item \in Files
        BY <1>5 DEF IInv, TypeOK, HoldInv, CollectorStores
    <3> QED BY <3>1 DEF IInv, Conservation, OnePlace, At, Places
  <2>2. Batch!Collect(item) \/ Batch!Drop(item)
      BY <1>5, <2>1 DEF CollectorStores, Batch!Collect, Batch!Drop, Batch!Undecided
  <2> QED BY <2>1, <2>2 DEF Batch!Next
<1>6. CASE UNCHANGED batchVars
    BY <1>6
<1>7. CASE MainStep \/ StartFails
  <2>1. CASE StartScanner \/ (\E w \in Workers : StartWorker(w)) \/ StartCollector
      BY <2>1 DEF StartScanner, StartWorker, StartCollector
  <2>2. CASE JoinScanner \/ SignalParser \/ JoinParsers \/ SignalCollector
      BY <2>2 DEF JoinScanner, SignalParser, JoinParsers, SignalCollector
  <2>3. CASE SignalParserTimesOut \/ SignalCollectorTimesOut \/ StartFails
      BY <1>1, <2>3 DEF SignalParserTimesOut, SignalCollectorTimesOut, StartFails
  <2>4. CASE \/ JoinCollector("join_collector", "join_again")
             \/ JoinCollector("join_again", "get_results")
      BY <2>4 DEF JoinCollector
  <2>5. CASE GracefulShutdown \/ ForceShutdown
      BY <2>5 DEF GracefulShutdown, ForceShutdown
  <2> QED BY <1>3, <1>7, <2>1, <2>2, <2>3, <2>4, <2>5 DEF MainStep
<1>8. CASE ScannerStep
    BY <1>8 DEF ScannerStep, ScanNext, ScannerPut, ScanEnds, ScanRaises, ScannerSentinel
<1>9. ASSUME NEW w \in Workers, WorkerStep(w) PROVE [Batch!Next]_batchVars
    BY <1>4, <1>9 DEF WorkerStep, WorkerChecksStop, WorkerGets, WorkerGetTimesOut,
                      WorkerParses, WorkerPuts
<1>10. CASE CollectorStep
    BY <1>5, <1>10 DEF CollectorStep, CollectorChecksStop, CollectorGets, CollectorIdles
<1>11. CASE UNCHANGED vars
    BY <1>11 DEF vars
<1> QED BY <1>2, <1>7, <1>8, <1>9, <1>10, <1>11 DEF Next

\* The threads and queues of the pipeline implement the promise of FileBatch:
\* each file is decided at most once, and only a normal return hands over any.
THEOREM DecidesOnce == Spec => PipelineDecidesOnce
<1>1. Init => Batch!Init
    BY DEF Init, Batch!Init
<1>2. IInv /\ [Next]_vars => [Batch!Next]_<<outcome, report, results, failed \cup rejected>>
    BY BatchStep DEF batchVars
<1> QED BY <1>1, <1>2, Invariance, PTL DEF Spec, PipelineDecidesOnce, Batch!Spec
=============================================================================
