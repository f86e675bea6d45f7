---------------------------- MODULE ServicesProofs ----------------------------
(* Proofs about the components that run side by side in MCServices, each for *)
(* any values of its constants.                                              *)
EXTENDS MCServices, SequenceTheorems, FiniteSetTheorems, TLAPS
-----------------------------------------------------------------------------
(* The scan controller by itself, for any number of scans, messages and      *)
(* cancellations.                                                            *)

(* The inductive invariant.  The controller is busy exactly while it knows a *)
(* process, its timer is set only then and while a poll goes on, and more    *)
(* stops are pending than cancels explain only where one of them will end    *)
(* the scan that was just reported.                                          *)
Bookkeeping ==
    /\ running <=> process # 0
    /\ timer => running
    /\ gui # "idle" => timer /\ ~closed
    /\ closed \/ stops <= cancels \/ (running /\ ~timer)

ControllerInv == TypeOK /\ Bookkeeping /\ NeverStuck /\ OnlyCurrentLives

\* Nothing runs at first.
LEMMA ControllerInit == Init => ControllerInv
<1> SUFFICES ASSUME Init PROVE ControllerInv
    OBVIOUS
<1>1. /\ running \in BOOLEAN /\ timer \in BOOLEAN /\ closed \in BOOLEAN
      /\ ~running /\ ~timer
    BY Zenon DEF Init
<1>2. TypeOK
    BY <1>1, ScanAssumption DEF Init, TypeOK, Scans, Kinds, Reports, ChildPCs
<1>3. Bookkeeping /\ NeverStuck
    BY <1>1, ScanAssumption DEF Init, Bookkeeping, NeverStuck
<1>4. OnlyCurrentLives
    BY DEF Init, OnlyCurrentLives, IsAlive
<1> QED BY <1>2, <1>3, <1>4 DEF ControllerInv

\* What a scan process does keeps the invariant: it writes messages and
\* moves on, and no step of it brings an ended process back.
LEMMA ScanKeeps ==
    ASSUME ControllerInv, NEW s \in Scans, Scan(s)
    PROVE  ControllerInv'
<1>1. /\ UNCHANGED <<guiVars, scans, reports>>
      /\ queue' \in [Scans -> Seq(Kinds)] /\ succeeded' \subseteq Scans
  <2>1. CASE ChildExits(s)
      BY <2>1 DEF ChildExits, ControllerInv, TypeOK
  <2>2. ASSUME NEW message \in Kinds, NEW place \in ChildPCs, Put(s, message, place)
        PROVE  /\ UNCHANGED <<guiVars, scans, reports>>
               /\ queue' \in [Scans -> Seq(Kinds)]
      BY <2>2 DEF Put, ControllerInv, TypeOK
  <2> QED BY <2>1, <2>2
          DEF Scan, ChildStarts, ChildProgress, ChildSucceeds, ChildFails,
              ChildIsDone, Kinds, ChildPCs, ControllerInv, TypeOK
<1>2. PICK place \in ChildPCs \ {"new"} : child' = [child EXCEPT ![s] = place]
    BY DEF Scan, ChildStarts, ChildProgress, ChildSucceeds, ChildFails,
           ChildIsDone, ChildExits, Put, ChildPCs
<1>3. IsAlive(s)
    BY DEF Scan, ChildStarts, ChildProgress, ChildSucceeds, ChildFails,
           ChildIsDone, ChildExits, IsAlive
<1>4. TypeOK'
    BY <1>1, <1>2 DEF ControllerInv, TypeOK, guiVars
<1>5. OnlyCurrentLives'
    BY <1>1, <1>2, <1>3 DEF ControllerInv, TypeOK, OnlyCurrentLives, IsAlive, guiVars
<1>6. Bookkeeping' /\ NeverStuck'
    BY <1>1 DEF ControllerInv, Bookkeeping, NeverStuck, guiVars
<1> QED BY <1>4, <1>5, <1>6 DEF ControllerInv

\* After a stop no process lives and the controller is free.
LEMMA StopEnds ==
    ASSUME ControllerInv, Stop
    PROVE  /\ child' \in [Scans -> ChildPCs]
           /\ process' = 0 /\ ~timer' /\ ~running'
           /\ timer' \in BOOLEAN /\ running' \in BOOLEAN
           /\ \A s \in Scans : ~IsAlive(s)'
<1>1. child' \in [Scans -> ChildPCs]
    BY DEF ControllerInv, TypeOK, Stop, ChildPCs
<1>2. ASSUME NEW s \in Scans PROVE ~IsAlive(s)'
    BY DEF ControllerInv, TypeOK, OnlyCurrentLives, IsAlive, Stop, Scans
<1>3. ~timer' /\ ~running' /\ timer' \in BOOLEAN /\ running' \in BOOLEAN
    BY Zenon DEF Stop
<1> QED BY <1>1, <1>2, <1>3 DEF Stop

\* A report is one of the three kinds.
LEMMA ReportTyped ==
    ASSUME ControllerInv, NEW s \in Scans, NEW what \in Reports, Report(s, what)
    PROVE  reports' \in [Scans -> Seq(Reports)]
BY DEF Report, ControllerInv, TypeOK

\* Reading a message leaves well-formed messages.
LEMMA GetTyped ==
    ASSUME ControllerInv, NEW message, Get(message)
    PROVE  /\ queue' \in [Scans -> Seq(Kinds)] /\ process \in Scans
           /\ timer /\ running /\ ~closed /\ stops <= cancels
           /\ UNCHANGED <<running, process, closed, cancels, scans, child, succeeded>>
<1>1. gui # "idle" /\ timer /\ running /\ ~closed /\ stops <= cancels
    BY DEF Get, ControllerInv, Bookkeeping
<1>2. process \in Scans
    BY <1>1, ScanAssumption DEF ControllerInv, TypeOK, Bookkeeping, Scans
<1>3. queue[process] \in Seq(Kinds) /\ queue[process] # <<>>
    BY <1>2 DEF Get, ControllerInv, TypeOK
<1>4. Tail(queue[process]) \in Seq(Kinds)
    BY <1>3
<1> QED BY <1>1, <1>2, <1>4 DEF Get, ControllerInv, TypeOK

\* A step of the GUI thread keeps the invariant.
LEMMA GuiKeeps ==
    ASSUME ControllerInv,
           StartScan \/ StopDeferred \/ cancel \/ cleanup \/ PollBegins \/ Poll
    PROVE  ControllerInv'
<1> USE ScanAssumption DEF ControllerInv, Bookkeeping, NeverStuck
<1>1. CASE StartScan
  <2>1. scans + 1 \in Scans /\ process = 0
      BY <1>1, ScanAssumption DEF StartScan, Idle, TypeOK, Scans
  <2>2. TypeOK'
      BY <1>1, <2>1 DEF StartScan, TypeOK, ChildPCs, Scans
  <2>3. OnlyCurrentLives'
      BY <1>1, <2>1 DEF StartScan, TypeOK, OnlyCurrentLives, IsAlive, Scans
  <2> QED BY <1>1, <2>1, <2>2, <2>3 DEF StartScan, Idle, TypeOK
<1>2. CASE StopDeferred
  <2>1. Stop
      BY <1>2 DEF StopDeferred
  <2>2. TypeOK'
      BY <1>2, <2>1, StopEnds DEF StopDeferred, TypeOK
  <2> QED BY <1>2, <2>1, <2>2, StopEnds DEF StopDeferred, Idle, TypeOK, OnlyCurrentLives
<1>3. CASE cancel
  <2>1. Stop /\ process \in Scans /\ Report(process, "cancelled")
      BY <1>3, ScanAssumption DEF cancel, TypeOK, Scans
  <2>2. reports' \in [Scans -> Seq(Reports)]
      BY <2>1, ReportTyped DEF Reports
  <2>3. TypeOK'
      BY <1>3, <2>1, <2>2, StopEnds DEF cancel, TypeOK
  <2> QED BY <1>3, <2>1, <2>3, StopEnds DEF cancel, Idle, TypeOK, OnlyCurrentLives
<1>4. CASE cleanup
  <2>1. Stop /\ closed' /\ closed' \in BOOLEAN
      BY <1>4, Zenon DEF cleanup
  <2>2. TypeOK'
      BY <1>4, <2>1, StopEnds DEF cleanup, TypeOK
  <2> QED BY <1>4, <2>1, <2>2, StopEnds DEF cleanup, Idle, OnlyCurrentLives
<1>5. CASE PollBegins
    BY <1>5 DEF PollBegins, Idle, TypeOK, OnlyCurrentLives, IsAlive
<1>6. CASE GetProgress
  <2>1. PICK message \in {"STARTED", "PROGRESS"} : Get(message)
      BY <1>6 DEF GetProgress
  <2> QED BY <1>6, <2>1, GetTyped DEF GetProgress, TypeOK, OnlyCurrentLives, IsAlive
<1>7. CASE GetResult \/ GetError \/ GetDone
  <2>1. PICK message : Get(message)
      BY <1>7 DEF GetResult, GetError, GetDone
  <2>2. gui' = "idle" /\ ~timer' /\ timer' \in BOOLEAN /\ stops' = stops + 1
      BY <1>7, Zenon DEF GetResult, GetError, GetDone
  <2>3. reports' \in [Scans -> Seq(Reports)]
      BY <1>7, <2>1, GetTyped, ReportTyped
         DEF GetResult, GetError, GetDone, Reports, TypeOK
  <2>4. TypeOK'
      BY <2>1, <2>2, <2>3, GetTyped DEF TypeOK
  <2>5. OnlyCurrentLives'
      BY <2>1, GetTyped DEF OnlyCurrentLives, IsAlive
  <2>6. running' /\ process' # 0 /\ ~closed' /\ stops <= cancels /\ cancels' = cancels
      BY <2>1, GetTyped DEF Scans
  <2>7. Bookkeeping' /\ NeverStuck'
      BY <2>2, <2>6 DEF TypeOK
  <2> QED BY <2>4, <2>5, <2>7
<1>8. CASE GetNothing \/ StillAlive
    BY <1>8 DEF GetNothing, StillAlive, TypeOK, OnlyCurrentLives, IsAlive
<1>9. CASE DeadWithMessage
  <2>1. process \in Scans /\ queue[process] # <<>>
      BY <1>9, ScanAssumption DEF DeadWithMessage, TypeOK, Scans
  <2>2. Tail(queue[process]) \in Seq(Kinds)
      BY <2>1 DEF TypeOK
  <2>3. TypeOK'
      BY <1>9, <2>1, <2>2 DEF DeadWithMessage, TypeOK
  <2> QED BY <1>9, <2>3 DEF DeadWithMessage, OnlyCurrentLives, IsAlive
<1>10. CASE DeadAndEmpty
  <2>1. Stop /\ process \in Scans /\ Report(process, "error")
      BY <1>10, ScanAssumption DEF DeadAndEmpty, TypeOK, Scans
  <2>2. reports' \in [Scans -> Seq(Reports)]
      BY <2>1, ReportTyped DEF Reports
  <2>3. TypeOK'
      BY <1>10, <2>1, <2>2, StopEnds DEF DeadAndEmpty, TypeOK
  <2> QED BY <1>10, <2>1, <2>3, StopEnds DEF DeadAndEmpty, OnlyCurrentLives
<1> QED BY <1>1, <1>2, <1>3, <1>4, <1>5, <1>6, <1>7, <1>8, <1>9, <1>10 DEF Poll

\* No step of the controller or of a scan breaks the invariant.
LEMMA ControllerStep == ControllerInv /\ [Next]_vars => ControllerInv'
<1> SUFFICES ASSUME ControllerInv, [Next]_vars PROVE ControllerInv'
    OBVIOUS
<1>1. CASE Next
    BY <1>1, ScanKeeps, GuiKeeps DEF Next
<1>2. CASE UNCHANGED vars
    BY <1>2 DEF vars, guiVars, ControllerInv, TypeOK, Bookkeeping, NeverStuck,
                OnlyCurrentLives, IsAlive
<1> QED BY <1>1, <1>2

\* The invariant is one of every behaviour.
THEOREM ControllerInvariant == Spec => []ControllerInv
BY ControllerInit, ControllerStep, PTL DEF Spec

\* No order of messages, crashes, clicks and put-off stops leaves the
\* controller busy with nothing that would ever free it.
THEOREM NeverStuckAlways == Spec => []NeverStuck
<1>1. ControllerInv => NeverStuck
    BY DEF ControllerInv
<1> QED BY <1>1, ControllerInvariant, PTL

\* At most the current scan has a process, and none has after a close.
THEOREM OnlyCurrentLivesAlways == Spec => []OnlyCurrentLives
<1>1. ControllerInv => OnlyCurrentLives
    BY DEF ControllerInv
<1> QED BY <1>1, ControllerInvariant, PTL
-----------------------------------------------------------------------------
(* What the window is told.                                                  *)

Has(seq, what)     == \E i \in DOMAIN seq : seq[i] = what
HasOnce(seq, what) == \A i, j \in DOMAIN seq : seq[i] = what /\ seq[j] = what => i = j

(* A RESULT is put once, by a scan that has not put it yet, and is either    *)
(* still in the queue or was read from it: then the window was told so.      *)
ResultOf(s) ==
    /\ s > scans => child[s] = "new" /\ reports[s] = <<>>
    /\ s \in succeeded => child[s] \in {"ending", "leaving", "exited"}
    /\ Has(queue[s], "RESULT") => s \in succeeded
    /\ Has(reports[s], "finished") => s \in succeeded /\ ~Has(queue[s], "RESULT")
    /\ HasOnce(queue[s], "RESULT") /\ HasOnce(reports[s], "finished")

\* The scan that was reported is not polled any more.
OneReport(s) ==
    cancels = 0 => Len(reports[s]) <= 1 /\ (reports[s] # <<>> => ~(timer /\ process = s))

ReportInv == ControllerInv /\ \A s \in Scans : ResultOf(s) /\ OneReport(s)

\* What a sequence has after one element more, and after one less.
LEMMA HasAppend ==
    ASSUME NEW S, NEW seq \in Seq(S), NEW e \in S, NEW what
    PROVE  /\ Has(Append(seq, e), what) <=> Has(seq, what) \/ e = what
           /\ HasOnce(seq, what) /\ (e = what => ~Has(seq, what))
                => HasOnce(Append(seq, e), what)
           /\ Len(Append(seq, e)) = Len(seq) + 1
<1>1. /\ DOMAIN Append(seq, e) = 1..(Len(seq) + 1) /\ DOMAIN seq = 1..Len(seq)
      /\ Len(seq) \in Nat /\ Len(Append(seq, e)) = Len(seq) + 1
    OBVIOUS
<1>2. \A i \in 1..(Len(seq) + 1) :
          Append(seq, e)[i] = IF i <= Len(seq) THEN seq[i] ELSE e
    OBVIOUS
<1>3. Has(Append(seq, e), what) <=> Has(seq, what) \/ e = what
  <2>1. Len(seq) + 1 \in DOMAIN Append(seq, e) /\ Append(seq, e)[Len(seq) + 1] = e
      BY <1>1, <1>2
  <2>2. \A i \in DOMAIN seq : i \in DOMAIN Append(seq, e) /\ Append(seq, e)[i] = seq[i]
      BY <1>1, <1>2
  <2> QED BY <1>1, <1>2, <2>1, <2>2 DEF Has
<1>4. ASSUME HasOnce(seq, what), e = what => ~Has(seq, what)
      PROVE  HasOnce(Append(seq, e), what)
    BY <1>1, <1>2, <1>4 DEF Has, HasOnce
<1> QED BY <1>1, <1>3, <1>4

LEMMA HasTail ==
    ASSUME NEW S, NEW seq \in Seq(S), seq # <<>>, NEW what
    PROVE  /\ Has(Tail(seq), what) => Has(seq, what)
           /\ HasOnce(seq, what) => HasOnce(Tail(seq), what)
           /\ HasOnce(seq, what) /\ Head(seq) = what => ~Has(Tail(seq), what)
           /\ Has(seq, what) /\ Head(seq) # what => Has(Tail(seq), what)
<1>1. /\ DOMAIN Tail(seq) = 1..(Len(seq) - 1) /\ DOMAIN seq = 1..Len(seq)
      /\ Len(seq) \in Nat /\ Len(seq) > 0
    OBVIOUS
<1>2. \A i \in 1..(Len(seq) - 1) : Tail(seq)[i] = seq[i + 1]
    OBVIOUS
<1>3. Head(seq) = seq[1]
    OBVIOUS
<1>4. Has(Tail(seq), what) => Has(seq, what)
    BY <1>1, <1>2 DEF Has
<1>5. HasOnce(seq, what) => HasOnce(Tail(seq), what)
    BY <1>1, <1>2 DEF HasOnce
<1>6. HasOnce(seq, what) /\ Head(seq) = what => ~Has(Tail(seq), what)
    BY <1>1, <1>2, <1>3 DEF HasOnce, Has
<1>7. ASSUME NEW i \in DOMAIN seq, seq[i] = what, Head(seq) # what
      PROVE  Has(Tail(seq), what)
  <2>1. i - 1 \in DOMAIN Tail(seq) /\ Tail(seq)[i - 1] = what
      BY <1>1, <1>2, <1>3, <1>7
  <2> QED BY <2>1 DEF Has
<1> QED BY <1>4, <1>5, <1>6, <1>7 DEF Has

\* A message of a scan process leaves what was told of it true.
LEMMA ScanReports ==
    ASSUME ReportInv, NEW s \in Scans, Scan(s), NEW u \in Scans
    PROVE  ResultOf(u)' /\ OneReport(u)'
<1> USE DEF ReportInv, ControllerInv, TypeOK
<1>1. OneReport(u)'
    BY DEF Scan, ChildStarts, ChildProgress, ChildSucceeds, ChildFails, ChildIsDone,
           ChildExits, Put, OneReport, guiVars
<1>2. CASE u # s
  <2>1. /\ child'[u] = child[u] /\ queue'[u] = queue[u]
        /\ u \in succeeded' <=> u \in succeeded
        /\ UNCHANGED <<scans, reports>>
      BY <1>2 DEF Scan, ChildStarts, ChildProgress, ChildSucceeds, ChildFails, ChildIsDone,
                  ChildExits, Put
  <2> QED BY <1>1, <2>1 DEF ResultOf
<1>3. CASE u = s /\ ChildExits(s)
  <2>1. /\ child'[u] = "exited" /\ child[u] # "new"
        /\ UNCHANGED <<scans, queue, reports, succeeded>>
      BY <1>3 DEF ChildExits, IsAlive
  <2> QED BY <1>1, <2>1 DEF ResultOf
<1>4. CASE u = s /\ ChildSucceeds(s)
  <2>1. queue'[s] = Append(queue[s], "RESULT") /\ queue[s] \in Seq(Kinds)
        /\ child' = [child EXCEPT ![s] = "ending"] /\ UNCHANGED <<scans, reports>>
        /\ child[s] = "scanning" /\ succeeded' = succeeded \cup {s}
      BY <1>4 DEF ChildSucceeds, Put
  <2>2. s \notin succeeded /\ ~Has(queue[s], "RESULT") /\ ~Has(reports[s], "finished")
      BY <2>1 DEF ResultOf
  <2>3. HasOnce(queue'[s], "RESULT")
    <3>1. "RESULT" \in Kinds /\ HasOnce(queue[s], "RESULT")
        BY DEF Kinds, ResultOf
    <3> QED BY <2>1, <2>2, <3>1, HasAppend
  <2>4. child'[s] = "ending" /\ s \in succeeded' /\ s <= scans
      BY <2>1 DEF ResultOf, Scans
  <2> QED BY <1>1, <1>4, <2>1, <2>2, <2>3, <2>4 DEF ResultOf
<1>5. ASSUME NEW message \in Kinds \ {"RESULT"}, NEW place \in ChildPCs, u = s,
             Put(s, message, place), child[s] \in {"starting", "scanning", "ending"},
             place \in {"scanning", "ending", "leaving"},
             child[s] = "ending" => place = "leaving", UNCHANGED succeeded
      PROVE  ResultOf(u)'
  <2>1. queue'[s] = Append(queue[s], message) /\ queue[s] \in Seq(Kinds)
      BY <1>5 DEF Put
  <2>2. /\ Has(queue'[s], "RESULT") <=> Has(queue[s], "RESULT")
        /\ HasOnce(queue[s], "RESULT") => HasOnce(queue'[s], "RESULT")
      BY <1>5, <2>1, HasAppend
  <2> QED BY <1>5, <2>2 DEF Put, ResultOf, guiVars
<1> QED BY <1>1, <1>2, <1>3, <1>4, <1>5
        DEF Scan, ChildStarts, ChildProgress, ChildFails, ChildIsDone, Kinds, ChildPCs

\* Reading or dropping a message, or ending the process, tells the window of
\* nothing.
LEMMA ReadKeepsResult ==
    ASSUME ReportInv, NEW u \in Scans,
           queue'[u] = queue[u] \/ (queue[u] # <<>> /\ queue'[u] = Tail(queue[u])),
           child'[u] = child[u] \/ (u <= scans /\ child'[u] = "exited"),
           reports'[u] = reports[u], UNCHANGED <<scans, succeeded>>
    PROVE  ResultOf(u)'
<1>1. queue[u] \in Seq(Kinds) /\ ResultOf(u) /\ u \in Nat /\ scans \in Nat
    BY ScanAssumption DEF ReportInv, ControllerInv, TypeOK, Scans
<1>2. /\ Has(queue'[u], "RESULT") => Has(queue[u], "RESULT")
      /\ HasOnce(queue'[u], "RESULT")
    BY <1>1, HasTail DEF ResultOf
<1> QED BY <1>1, <1>2 DEF ResultOf

\* A report other than of a result says nothing of a result.
LEMMA OtherReport ==
    ASSUME ReportInv, NEW s \in Scans, NEW what \in Reports \ {"finished"}, Report(s, what),
           UNCHANGED <<scans, succeeded, queue>>, s <= scans,
           \A u \in Scans : child'[u] = child[u] \/ (u <= scans /\ child'[u] = "exited"),
           NEW u \in Scans
    PROVE  ResultOf(u)'
<1>1. CASE u # s
    BY <1>1, ReadKeepsResult DEF Report, ReportInv, ControllerInv, TypeOK
<1>2. CASE u = s
  <2>1. reports[s] \in Seq(Reports) /\ reports'[s] = Append(reports[s], what)
        /\ ResultOf(s)
      BY DEF Report, ReportInv, ControllerInv, TypeOK
  <2>2. /\ Has(reports'[s], "finished") <=> Has(reports[s], "finished")
        /\ HasOnce(reports'[s], "finished")
      BY <2>1, HasAppend DEF ResultOf
  <2>3. s \in Nat /\ scans \in Nat
      BY ScanAssumption DEF ReportInv, ControllerInv, TypeOK, Scans
  <2> QED BY <1>2, <2>1, <2>2, <2>3 DEF ResultOf
<1> QED BY <1>1, <1>2

\* A stop ends a process that was started.
LEMMA StopsStarted ==
    ASSUME ControllerInv, Stop, NEW u \in Scans
    PROVE  child'[u] = child[u] \/ (u <= scans /\ child'[u] = "exited")
BY ScanAssumption DEF Stop, ControllerInv, TypeOK, Scans

\* What the GUI thread does leaves what was told true.
LEMMA GuiReports ==
    ASSUME ReportInv, NEW u \in Scans,
           StartScan \/ StopDeferred \/ cancel \/ cleanup \/ PollBegins \/ Poll
    PROVE  ResultOf(u)' /\ OneReport(u)'
<1> USE ScanAssumption
<1>0. /\ ControllerInv /\ TypeOK /\ Bookkeeping /\ ResultOf(u) /\ OneReport(u)
      /\ reports[u] \in Seq(Reports) /\ queue[u] \in Seq(Kinds)
      /\ scans \in Nat /\ process \in Nat /\ process <= scans /\ u \in Nat
      /\ cancels \in Nat
    BY DEF ReportInv, ControllerInv, TypeOK, Scans
<1>1. CASE StartScan
  <2>1. /\ scans' = scans + 1 /\ process' = scans + 1 /\ UNCHANGED <<cancels, queue, reports, succeeded>>
        /\ child'[u] = IF u = scans + 1 THEN "starting" ELSE child[u]
      BY <1>0, <1>1 DEF StartScan, TypeOK
  <2> QED BY <1>0, <2>1 DEF ResultOf, OneReport
<1>2. CASE StopDeferred \/ cleanup
  <2>1. /\ Stop /\ UNCHANGED <<scans, queue, reports, succeeded, cancels>> /\ ~timer'
      BY <1>2 DEF StopDeferred, cleanup, Stop
  <2>2. ResultOf(u)'
      BY <1>0, <2>1, StopsStarted, ReadKeepsResult
  <2> QED BY <1>0, <2>1, <2>2 DEF OneReport
<1>3. CASE cancel
  <2>1. /\ Stop /\ UNCHANGED <<scans, queue, succeeded>> /\ process # 0 /\ cancels' = cancels + 1
        /\ Report(process, "cancelled") /\ process \in Scans
      BY <1>0, <1>3 DEF cancel, TypeOK, Scans
  <2>2. ResultOf(u)'
      BY <1>0, <2>1, StopsStarted, OtherReport DEF Reports
  <2> QED BY <1>0, <2>1, <2>2 DEF OneReport
<1>4. CASE PollBegins \/ GetNothing \/ StillAlive
  <2>1. UNCHANGED <<scans, child, queue, reports, succeeded, cancels, timer, process>>
      BY <1>4 DEF PollBegins, GetNothing, StillAlive
  <2>2. ResultOf(u)'
      BY <2>1, ReadKeepsResult
  <2> QED BY <1>0, <2>1, <2>2 DEF OneReport
<1>5. ASSUME NEW message, Get(message)
      PROVE  /\ queue[process] # <<>> /\ process \in Scans /\ Head(queue[process]) = message
             /\ queue' = [queue EXCEPT ![process] = Tail(queue[process])]
             /\ timer /\ UNCHANGED <<process, cancels, scans, child, succeeded>>
    BY <1>0, <1>5, GetTyped DEF Get
<1>6. CASE GetProgress \/ GetDone
  <2>1. PICK message : Get(message)
      BY <1>6 DEF GetProgress, GetDone
  <2>2. UNCHANGED reports /\ (timer' => timer)
      BY <1>6, <1>5, <2>1 DEF GetProgress, GetDone
  <2>3. ResultOf(u)'
      BY <1>0, <1>5, <2>1, <2>2, ReadKeepsResult DEF TypeOK
  <2> QED BY <1>0, <1>5, <2>1, <2>2, <2>3 DEF OneReport
<1>7. ASSUME NEW what \in Reports, NEW message, Get(message), Report(process, what), ~timer'
      PROVE  OneReport(u)'
  <2>1. /\ process \in Scans /\ timer /\ UNCHANGED <<process, cancels>>
        /\ reports' = [reports EXCEPT ![process] = Append(reports[process], what)]
      BY <1>5, <1>7 DEF Report
  <2>2. u = process /\ cancels = 0 => reports[u] = <<>> /\ Len(reports'[u]) = 1
      BY <1>0, <2>1 DEF OneReport, TypeOK
  <2> QED BY <1>0, <1>7, <2>1, <2>2 DEF OneReport, TypeOK
<1>8. CASE GetError
  <2>1. Get("ERROR") /\ Report(process, "error") /\ ~timer'
      BY <1>8 DEF GetError
  <2>2. reports' = [reports EXCEPT ![process] = Append(reports[process], "error")]
      BY <2>1 DEF Report
  <2>3. CASE u # process
    <3>1. ResultOf(u)'
        BY <1>0, <1>5, <2>1, <2>2, <2>3, ReadKeepsResult DEF TypeOK
    <3> QED BY <1>7, <2>1, <3>1 DEF Reports
  <2>4. CASE u = process
    <3>1. /\ reports'[u] = Append(reports[u], "error") /\ "error" \in Reports
          /\ queue'[u] = Tail(queue[u]) /\ queue[u] # <<>>
        BY <1>0, <1>5, <2>1, <2>2, <2>4 DEF Reports, TypeOK
    <3>2. /\ Has(reports'[u], "finished") <=> Has(reports[u], "finished")
          /\ HasOnce(reports'[u], "finished")
          /\ Has(queue'[u], "RESULT") => Has(queue[u], "RESULT")
          /\ HasOnce(queue'[u], "RESULT")
        BY <1>0, <3>1, HasAppend, HasTail DEF ResultOf
    <3>3. ResultOf(u)'
        BY <1>0, <1>5, <2>1, <2>2, <2>4, <3>2 DEF ResultOf
    <3> QED BY <1>7, <2>1, <3>3 DEF Reports
  <2> QED BY <2>3, <2>4
<1>9. CASE GetResult
  <2>1. Get("RESULT") /\ Report(process, "finished") /\ ~timer'
      BY <1>9 DEF GetResult
  <2>2. reports' = [reports EXCEPT ![process] = Append(reports[process], "finished")]
      BY <2>1 DEF Report
  <2>3. CASE u # process
    <3>1. ResultOf(u)'
        BY <1>0, <1>5, <2>1, <2>2, <2>3, ReadKeepsResult DEF TypeOK
    <3> QED BY <1>7, <2>1, <3>1 DEF Reports
  <2>4. CASE u = process
    <3>1. Has(queue[u], "RESULT") /\ HasOnce(queue[u], "RESULT")
        BY <1>0, <1>5, <2>1, <2>4 DEF Has, ResultOf
    <3>2. u \in succeeded /\ ~Has(reports[u], "finished")
        BY <1>0, <3>1 DEF ResultOf
    <3>3. HasOnce(reports'[u], "finished")
      <4>1. reports'[u] = Append(reports[u], "finished") /\ "finished" \in Reports
          BY <1>0, <1>5, <2>1, <2>2, <2>4 DEF Reports, TypeOK
      <4> QED BY <1>0, <3>2, <4>1, HasAppend DEF ResultOf
    <3>4. ~Has(queue'[u], "RESULT") /\ HasOnce(queue'[u], "RESULT")
        BY <1>0, <1>5, <2>1, <2>4, <3>1, HasTail DEF TypeOK
    <3>5. ResultOf(u)'
        BY <1>0, <1>5, <2>1, <2>4, <3>2, <3>3, <3>4 DEF ResultOf
    <3> QED BY <1>7, <2>1, <3>5 DEF Reports
  <2> QED BY <2>3, <2>4
<1>10. CASE DeadWithMessage
  <2>1. /\ UNCHANGED <<scans, child, reports, succeeded, cancels, timer, process>>
        /\ queue'[u] = queue[u] \/ (queue[u] # <<>> /\ queue'[u] = Tail(queue[u]))
      BY <1>0, <1>10 DEF DeadWithMessage, TypeOK
  <2>2. ResultOf(u)'
      BY <2>1, ReadKeepsResult
  <2> QED BY <1>0, <2>1, <2>2 DEF OneReport
<1>11. CASE DeadAndEmpty
  <2>1. /\ Stop /\ UNCHANGED <<scans, queue, succeeded, cancels>> /\ timer /\ ~timer'
        /\ Report(process, "error") /\ process \in Scans
      BY <1>0, <1>11 DEF DeadAndEmpty, TypeOK, Scans, Bookkeeping, Stop
  <2>2. ResultOf(u)'
      BY <1>0, <2>1, StopsStarted, OtherReport DEF Reports
  <2>3. reports' = [reports EXCEPT ![process] = Append(@, "error")]
      BY <2>1 DEF Report
  <2>4. u = process /\ cancels = 0 => reports[u] = <<>> /\ Len(reports'[u]) = 1
      BY <1>0, <2>1, <2>3 DEF OneReport, TypeOK, Reports
  <2> QED BY <1>0, <2>1, <2>2, <2>3, <2>4 DEF OneReport, TypeOK
<1> QED BY <1>1, <1>2, <1>3, <1>4, <1>6, <1>8, <1>9, <1>10, <1>11 DEF Poll

\* At first no scan was started and none was reported.
LEMMA ReportsInit == Init => ReportInv
<1> SUFFICES ASSUME Init PROVE ReportInv
    OBVIOUS
<1>1. ControllerInv
    BY ControllerInit
<1>2. ASSUME NEW s \in Scans PROVE ResultOf(s) /\ OneReport(s)
    BY DEF Init, ResultOf, OneReport, Has, HasOnce
<1> QED BY <1>1, <1>2 DEF ReportInv

\* The two together are inductive.
LEMMA ReportsStep == ReportInv /\ [Next]_vars => ReportInv'
<1> SUFFICES ASSUME ReportInv, [Next]_vars PROVE ReportInv'
    OBVIOUS
<1>1. ControllerInv'
    BY ControllerStep DEF ReportInv
<1>2. ASSUME NEW u \in Scans PROVE ResultOf(u)' /\ OneReport(u)'
  <2>1. CASE Next
      BY <2>1, ScanReports, GuiReports DEF Next
  <2>2. CASE UNCHANGED vars
      BY <2>2, ReadKeepsResult DEF vars, guiVars, ReportInv, OneReport
  <2> QED BY <2>1, <2>2
<1>3. Scans' = Scans
    BY DEF Scans
<1> QED BY <1>1, <1>2, <1>3 DEF ReportInv

\* What the window is told of a scan: that it finished only if its process put
\* a result, and then once; and, without cancels, one outcome in all.
LEMMA ReportsTold == ReportInv => FinishedIsTrue /\ ReportedOnce
BY DEF ReportInv, ResultOf, OneReport, Has, HasOnce, FinishedIsTrue, ReportedOnce

\* No message that is read late, no process that dies and no put-off stop makes
\* the window take a failed scan for a finished one or hear of it twice.
THEOREM ReportsTrueAlways == Spec => [](FinishedIsTrue /\ ReportedOnce)
BY ReportsInit, ReportsStep, ReportsTold, PTL DEF Spec

-----------------------------------------------------------------------------
(* The scan controller among the others.                                     *)

\* The controller that runs beside other components is the controller.
LEMMA ControllerAlone == ServicesSpec => Spec
<1>1. ServicesInit => Init
    BY DEF ServicesInit
<1>2. [ServicesNext]_servicesVars => [Next]_vars
    BY DEF ServicesNext, Of, servicesVars
<1> QED BY <1>1, <1>2, PTL DEF ServicesSpec, Spec

\* No message that is read late, no process that dies and no put-off stop makes
\* the window take a failed scan for a finished one or hear of it twice.
THEOREM ReportsTrue == ServicesSpec => []ReportsAreTrue
<1>1. ServicesSpec => [](FinishedIsTrue /\ ReportedOnce)
    BY ControllerAlone, ReportsTrueAlways, PTL
<1>2. FinishedIsTrue /\ ReportedOnce => ReportsAreTrue
    BY DEF ReportsAreTrue
<1> QED BY <1>1, <1>2, PTL
-----------------------------------------------------------------------------
(* The token bucket.                                                         *)

\* What flows in grows with time, tick by tick.
LEMMA InflowGrows ==
    ASSUME NEW a \in Nat, NEW b \in Nat, a <= b
    PROVE  /\ Rate * a \in Nat
           /\ Rate * a <= Rate * b
           /\ Rate * (a + 1) = Rate * a + Rate
BY BucketAssumption, Z3

\* Filling keeps the bucket within its capacity and takes nothing away.
LEMMA FilledBounds ==
    ASSUME NEW have \in 0..Capacity, NEW since \in Int
    PROVE  Filled(have, since) \in have..Capacity
<1>1. CASE since > 0
  <2>1. Rate * since \in Nat
      BY <1>1, InflowGrows
  <2> QED BY <1>1, <2>1, BucketAssumption DEF Filled, Lesser
<1>2. CASE ~(since > 0)
    BY <1>2, BucketAssumption DEF Filled
<1> QED BY <1>1, <1>2

\* Filling for a shorter time gives no more.
LEMMA FilledShorter ==
    ASSUME NEW have \in 0..Capacity, NEW s \in Int, NEW u \in Int, s <= u
    PROVE  Filled(have, s) <= Filled(have, u)
<1>1. CASE s > 0
  <2>1. Rate * s \in Nat /\ Rate * u \in Nat /\ Rate * s <= Rate * u
      BY <1>1, InflowGrows
  <2> QED BY <1>1, <2>1, BucketAssumption DEF Filled, Lesser
<1>2. CASE ~(s > 0)
  <2>1. Filled(have, s) = have /\ Filled(have, u) \in have..Capacity
      BY <1>2, FilledBounds DEF Filled
  <2> QED BY <2>1, BucketAssumption
<1> QED BY <1>1, <1>2

\* A tick more gives at most what flows in during a tick.
LEMMA FilledTick ==
    ASSUME NEW have \in 0..Capacity, NEW s \in Int
    PROVE  Filled(have, s + 1) <= Filled(have, s) + Rate
<1>1. CASE s > 0
  <2>1. Rate * s \in Nat /\ Rate * (s + 1) = Rate * s + Rate
      BY <1>1, InflowGrows
  <2> QED BY <1>1, <2>1, BucketAssumption DEF Filled, Lesser
<1>2. CASE s = 0
  <2>1. Rate * (0 + 1) = Rate
      BY BucketAssumption
  <2> QED BY <1>2, <2>1, BucketAssumption DEF Filled, Lesser
<1>3. CASE s < 0
    BY <1>3, BucketAssumption DEF Filled
<1> QED BY <1>1, <1>2, <1>3

\* The bucket starts full, in a window nothing was taken in.
LEMMA BucketInitially == BucketInit => BucketInv
BY BucketAssumption DEF BucketInit, BucketInv, BucketTypeOK, Held, Filled

\* No step lets a window have more than its share.
LEMMA BucketKeeps == BucketInv /\ [BucketNext]_bucketVars => BucketInv'
<1> SUFFICES ASSUME BucketInv, [BucketNext]_bucketVars PROVE BucketInv'
    OBVIOUS
<1> USE BucketAssumption
<1>1. /\ BucketTypeOK /\ granted + Held <= Capacity + Rate * elapsed
      /\ clock - last_refill \in Int /\ Held \in tokens..Capacity
      /\ FilledAt \in Nat /\ FilledAt >= clock
      /\ Rate * elapsed \in Nat /\ Rate * (elapsed + 1) = Rate * elapsed + Rate
    BY FilledBounds, InflowGrows DEF BucketInv, BucketTypeOK, Held, FilledAt
<1>2. ASSUME NEW n \in 1..Capacity, try_acquire(n) PROVE BucketInv'
  <2>1. Held' = tokens'
      BY <1>1, <1>2 DEF try_acquire, Held, Filled, BucketTypeOK
  <2> QED BY <1>1, <1>2, <2>1 DEF try_acquire, BucketInv, BucketTypeOK
<1>3. CASE get_tokens_available
  <2>1. Held' = tokens'
      BY <1>1, <1>3 DEF get_tokens_available, Held, Filled, BucketTypeOK
  <2> QED BY <1>1, <1>3, <2>1 DEF get_tokens_available, BucketInv, BucketTypeOK
<1>4. CASE reset
  <2>1. Held' = Capacity /\ Rate * 0 = 0
      BY <1>1, <1>4 DEF reset, Held, Filled, BucketTypeOK
  <2> QED BY <1>1, <1>4, <2>1 DEF reset, BucketInv, BucketTypeOK
<1>5. CASE Tick
  <2>1. Filled(tokens, (clock - last_refill) + 1) <= Held + Rate
        /\ Filled(tokens, (clock - last_refill) + 1) \in Int
      BY <1>1, FilledTick, FilledBounds DEF Held, BucketTypeOK
  <2>2. clock' - last_refill' = (clock - last_refill) + 1 /\ tokens' = tokens
      BY <1>1, <1>5 DEF Tick, BucketTypeOK
  <2>3. Held' = Filled(tokens, (clock - last_refill) + 1)
      BY <2>2 DEF Held, Filled
  <2>4. granted' + Held' <= Capacity + Rate * elapsed'
      BY <1>1, <1>5, <2>1, <2>3 DEF Tick, BucketTypeOK
  <2>5. BucketTypeOK'
      BY <1>1, <1>5 DEF Tick, BucketTypeOK
  <2> QED BY <2>4, <2>5 DEF BucketInv
<1>6. ASSUME NEW c \in 0..MaxClock, ClockSetBack(c) PROVE BucketInv'
  <2>1. /\ c - last_refill \in Int /\ c - last_refill <= clock - last_refill
        /\ tokens \in 0..Capacity
      BY <1>1, <1>6 DEF ClockSetBack, BucketTypeOK
  <2>2. /\ Filled(tokens, c - last_refill) <= Filled(tokens, clock - last_refill)
        /\ Filled(tokens, c - last_refill) \in Int
    <3>1. clock - last_refill \in Int
        BY <1>1
    <3>2. Filled(tokens, c - last_refill) <= Filled(tokens, clock - last_refill)
        BY <2>1, <3>1, FilledShorter
    <3>3. Filled(tokens, c - last_refill) \in tokens..Capacity
        BY <2>1, FilledBounds
    <3> QED BY <2>1, <3>2, <3>3
  <2>3. Held' = Filled(tokens, c - last_refill)
      BY <1>6 DEF ClockSetBack, Held, Filled
  <2>4. granted' + Held' <= Capacity + Rate * elapsed'
      BY <1>1, <1>6, <2>2, <2>3 DEF ClockSetBack, BucketTypeOK, Held
  <2>5. BucketTypeOK'
      BY <1>1, <1>6 DEF ClockSetBack, BucketTypeOK
  <2> QED BY <2>4, <2>5 DEF BucketInv
<1>7. CASE OpenWindow
  <2>1. Held' = Held /\ Rate * 0 = 0
      BY <1>7 DEF OpenWindow, Held, Filled
  <2> QED BY <1>1, <1>7, <2>1 DEF OpenWindow, BucketInv, BucketTypeOK
<1>8. CASE UNCHANGED bucketVars
    BY <1>1, <1>8 DEF bucketVars, BucketInv, BucketTypeOK, Held, Filled
<1> QED BY <1>2, <1>3, <1>4, <1>5, <1>6, <1>7, <1>8 DEF BucketNext

\* In any window without a reset the bucket hands out at most its capacity
\* and what flows in meanwhile, for every capacity and rate.
THEOREM WindowIsBounded == BucketSpec => []WindowBound
<1>1. BucketInit => BucketInv
    BY BucketInitially
<1>2. BucketInv /\ [BucketNext]_bucketVars => BucketInv'
    BY BucketKeeps
<1>3. BucketInv => WindowBound
  <2> SUFFICES ASSUME BucketInv PROVE WindowBound
      OBVIOUS
  <2>1. Held \in Nat /\ Rate * elapsed \in Nat
      BY FilledBounds, InflowGrows DEF BucketInv, BucketTypeOK, Held
  <2> QED BY <2>1, BucketAssumption DEF BucketInv, BucketTypeOK, WindowBound
<1> QED BY <1>1, <1>2, <1>3, PTL DEF BucketSpec
-----------------------------------------------------------------------------
(* The search store.                                                         *)

Rows == [type : Types, data : Data, expires : Nat]

\* The caches that were opened and may still make a database.
Opening == {u \in Users : phase[u] \in {"probing", "waiting", "opening"}}

StoreTypes ==
    /\ file \in [Store!Names -> Store!Bases \cup {None}] /\ made \in Nat
    /\ \A n \in Store!Names : file[n] # None => file[n] <= made
    /\ rows \in [Store!Bases -> [Keys -> Rows \cup {None}]]
    /\ phase \in [Users -> {"closed", "probing", "waiting", "opening", "open"}]
    /\ path \in [Users -> Store!Names] /\ conn \in [Users -> Store!Bases \cup {None}]
    /\ \A u \in Users : phase[u] = "open" <=> conn[u] # None
    /\ now \in 0..MaxTime /\ opened \in 0..MaxSteps /\ shared \in BOOLEAN

\* The other name is only taken, and the database only waited for, where it
\* could not be opened; a cache that is opened asks for its own name first.
PathsTrue ==
    \A u \in Users :
       /\ phase[u] = "waiting" \/ path[u] # Main => ~shared
       /\ phase[u] \in {"probing", "waiting"} => path[u] = Main

\* No more databases are made than caches were opened.
MadeByOpened == made + Cardinality(Opening) <= opened

StoreInv ==
    /\ StoreTypes /\ PathsTrue /\ MadeByOpened
    /\ Store!OneDatabase /\ Store!NoneLeftBehind

LEMMA StoreInit == Store!Init => StoreInv
<1> SUFFICES ASSUME Store!Init PROVE StoreInv
    OBVIOUS
<1> USE StoreAssumption
<1>1. Opening = {} /\ Cardinality({}) = 0
    BY FS_EmptySet DEF Store!Init, Opening
<1>2. StoreTypes
    BY DEF Store!Init, StoreTypes, Store!NoRows, Store!Names
<1>3. Store!NoneLeftBehind
    BY DEF Store!Init, Store!NoneLeftBehind, Store!Alternatives
<1> QED BY <1>1, <1>2, <1>3
        DEF Store!Init, StoreInv, PathsTrue, MadeByOpened, Store!OneDatabase

\* One cache begins or ends its opening.
LEMMA OpeningCount ==
    ASSUME StoreTypes, NEW u \in Users, NEW p, phase' = [phase EXCEPT ![u] = p]
    PROVE  /\ Cardinality(Opening) \in Nat /\ Cardinality(Opening') \in Nat
           /\ Cardinality(Opening') <= Cardinality(Opening) + 1
           /\ u \in Opening => Cardinality(Opening') <= Cardinality(Opening)
           /\ p \notin {"probing", "waiting", "opening"} =>
                /\ Cardinality(Opening') <= Cardinality(Opening)
                /\ u \in Opening => Cardinality(Opening') = Cardinality(Opening) - 1
<1> USE StoreAssumption
<1>1. IsFiniteSet(Opening) /\ IsFiniteSet(Opening \ {u}) /\ IsFiniteSet(Opening \cup {u})
    BY FS_Subset, FS_AddElement DEF Opening
<1>2. /\ Cardinality(Opening) \in Nat /\ Cardinality(Opening \ {u}) \in Nat
      /\ Cardinality(Opening \cup {u}) =
           IF u \in Opening THEN Cardinality(Opening) ELSE Cardinality(Opening) + 1
      /\ Cardinality(Opening \ {u}) =
           IF u \in Opening THEN Cardinality(Opening) - 1 ELSE Cardinality(Opening)
    BY <1>1, FS_CardinalityType, FS_AddElement, FS_RemoveElement
<1>3. CASE p \in {"probing", "waiting", "opening"}
  <2>1. Opening' = Opening \cup {u}
      BY <1>3 DEF Opening, StoreTypes
  <2> QED BY <1>2, <1>3, <2>1
<1>4. CASE p \notin {"probing", "waiting", "opening"}
  <2>1. Opening' = Opening \ {u}
      BY <1>4 DEF Opening, StoreTypes
  <2> QED BY <1>2, <1>4, <2>1
<1> QED BY <1>3, <1>4

\* Opening a cache: the clean-up leaves only what could not be deleted.
LEMMA OpenKeeps ==
    ASSUME StoreInv, NEW u \in Users, Store!Open(u)
    PROVE  StoreInv'
<1> USE StoreAssumption DEF StoreInv
<1>1. phase' = [phase EXCEPT ![u] = "probing"] /\ opened' = opened + 1 /\ UNCHANGED made
    BY DEF Store!Open, Store!To
<1>2. MadeByOpened'
  <2>1. /\ Cardinality(Opening) \in Nat /\ Cardinality(Opening') \in Nat
        /\ Cardinality(Opening') <= Cardinality(Opening) + 1
      BY <1>1, OpeningCount
  <2>2. made \in Nat /\ opened \in Nat
      BY DEF StoreTypes
  <2> QED BY <1>1, <2>1, <2>2 DEF MadeByOpened
<1>3. file'[Main] = file[Main] /\ file' \in [Store!Names -> Store!Bases \cup {None}]
    BY DEF Store!Open, StoreTypes, Store!Alternatives, Store!Names
<1>4. StoreTypes'
    BY <1>1, <1>3 DEF Store!Open, StoreTypes, Store!Names, Store!Bases
<1>5. PathsTrue'
    BY DEF Store!Open, PathsTrue, StoreTypes
<1>6. Store!OneDatabase'
    BY <1>3 DEF Store!Open, Store!OneDatabase, StoreTypes
<1>7. Store!NoneLeftBehind'
    BY DEF Store!Open, Store!NoneLeftBehind, Store!Alternatives, StoreTypes
<1> QED BY <1>2, <1>4, <1>5, <1>6, <1>7

\* The test connection, and what is done when it fails.
LEMMA ProbeKeeps ==
    ASSUME StoreInv, NEW u \in Users,
           Store!Probe(u) \/ Store!ProbeFails(u) \/ Store!Retry(u) \/ Store!TakeAlternative(u)
    PROVE  StoreInv'
<1> USE StoreAssumption DEF StoreInv
<1>1. PICK p \in {"waiting", "opening"} :
         /\ phase' = [phase EXCEPT ![u] = p] /\ phase[u] \in {"probing", "waiting"}
         /\ UNCHANGED <<rows, made, conn, now, opened, undeleted>>
    BY DEF Store!Probe, Store!ProbeFails, Store!Retry, Store!TakeAlternative, Store!To
<1>2. MadeByOpened'
  <2>1. u \in Opening
      BY <1>1 DEF Opening
  <2>2. /\ Cardinality(Opening) \in Nat /\ Cardinality(Opening') \in Nat
        /\ Cardinality(Opening') <= Cardinality(Opening)
      BY <1>1, <2>1, OpeningCount
  <2>3. made \in Nat /\ opened \in Nat
      BY DEF StoreTypes
  <2> QED BY <1>1, <2>2, <2>3 DEF MadeByOpened
<1>3. /\ file' \in [Store!Names -> Store!Bases \cup {None}]
      /\ \A n \in Store!Names : file'[n] = file[n] \/ (n = Main /\ file'[n] = None)
    BY DEF Store!Probe, Store!ProbeFails, Store!Retry, Store!TakeAlternative, StoreTypes,
           Store!Names
<1>4. /\ path' \in [Users -> Store!Names]
      /\ \A v \in Users \ {u} : path'[v] = path[v]
    BY DEF Store!Probe, Store!ProbeFails, Store!Retry, Store!TakeAlternative, StoreTypes,
           Store!Names
<1>5. shared' \in BOOLEAN /\ (shared' => shared)
  <2>1. shared' = FALSE \/ shared' = shared
      BY DEF Store!Probe, Store!ProbeFails, Store!Retry, Store!TakeAlternative
  <2>2. shared \in BOOLEAN
      BY DEF StoreTypes
  <2>3. CASE shared' = FALSE
      BY <2>3, Zenon
  <2>4. CASE shared' = shared
      BY <2>2, <2>4
  <2> QED BY <2>1, <2>3, <2>4
<1>6. StoreTypes'
    BY <1>1, <1>3, <1>4, <1>5 DEF StoreTypes, Store!Bases
<1>7. PathsTrue'
    BY <1>1, <1>3 DEF Store!Probe, Store!ProbeFails, Store!Retry, Store!TakeAlternative,
           Store!To, PathsTrue, StoreTypes
<1>8. Store!OneDatabase'
  <2>1. shared' => UNCHANGED file
      BY DEF Store!Probe, Store!ProbeFails, Store!Retry, Store!TakeAlternative, PathsTrue
  <2> QED BY <1>1, <1>5, <2>1 DEF Store!OneDatabase, StoreTypes
<1>9. Store!NoneLeftBehind'
  <2>1. Store!Alternatives' = Store!Alternatives
      BY <1>3 DEF Store!Alternatives, StoreTypes
  <2>2. path[u] = Main
      BY <1>1 DEF PathsTrue
  <2>3. Main \notin Store!Alternatives
      BY DEF Store!Alternatives
  <2> QED BY <1>1, <1>4, <2>1, <2>2, <2>3 DEF Store!NoneLeftBehind
<1> QED BY <1>2, <1>6, <1>7, <1>8, <1>9

\* Connecting makes at most the one database that the opening of the cache
\* accounts for.
LEMMA ConnectKeeps ==
    ASSUME StoreInv, NEW u \in Users, Store!Connect(u)
    PROVE  StoreInv'
<1> USE StoreAssumption DEF StoreInv
<1> DEFINE b == IF file[path[u]] = None THEN made + 1 ELSE file[path[u]]
<1>1. /\ phase[u] = "opening" /\ phase' = [phase EXCEPT ![u] = "open"]
      /\ file' = [file EXCEPT ![path[u]] = b] /\ conn' = [conn EXCEPT ![u] = b]
      /\ made' = IF b > made THEN b ELSE made
      /\ rows' = [rows EXCEPT ![b] = Store!Purged(rows[b])]
      /\ UNCHANGED <<path, now, opened, undeleted, shared>>
    BY DEF Store!Connect, Store!To
<1>2. /\ u \in Opening /\ Cardinality(Opening') = Cardinality(Opening) - 1
      /\ Cardinality(Opening) \in Nat /\ Cardinality(Opening') \in Nat
      /\ path[u] \in Store!Names
  <2>1. u \in Opening /\ path[u] \in Store!Names
      BY <1>1 DEF Opening, StoreTypes
  <2>2. "open" \notin {"probing", "waiting", "opening"}
      OBVIOUS
  <2> QED BY <1>1, <2>1, <2>2, OpeningCount
<1>3. b \in Store!Bases /\ b # None /\ made + 1 <= MaxSteps
    BY <1>2 DEF MadeByOpened, StoreTypes, Store!Bases
<1>4. StoreTypes'
  <2>1. rows' \in [Store!Bases -> [Keys -> Rows \cup {None}]]
    <3>1. ASSUME NEW t \in [Keys -> Rows \cup {None}]
          PROVE  Store!Purged(t) \in [Keys -> Rows \cup {None}]
        BY DEF Store!Purged
    <3> QED BY <1>1, <1>3, <3>1 DEF StoreTypes
  <2>2. made' \in Nat
      BY <1>1, <1>3 DEF Store!Bases, StoreTypes
  <2> HIDE DEF b
  <2> QED BY <1>1, <1>2, <1>3, <2>1, <2>2 DEF StoreTypes, Store!Names, Store!Bases
<1>5. Store!OneDatabase'
  <2>1. CASE path[u] = Main
      BY <1>1, <1>2, <1>3, <2>1 DEF Store!OneDatabase, StoreTypes
  <2>2. CASE path[u] # Main
      BY <1>1, <2>2 DEF PathsTrue, Store!OneDatabase
  <2> QED BY <2>1, <2>2
<1>6. Store!NoneLeftBehind'
    BY <1>1, <1>2, <1>3 DEF Store!NoneLeftBehind, Store!Alternatives, StoreTypes
<1>7. MadeByOpened'
  <2>1. CASE file[path[u]] = None
      BY <1>1, <1>2, <2>1 DEF MadeByOpened, StoreTypes
  <2>2. CASE file[path[u]] # None
      BY <1>1, <1>2, <2>2 DEF MadeByOpened, StoreTypes
  <2> QED BY <2>1, <2>2
<1>8. PathsTrue'
    BY <1>1 DEF PathsTrue, StoreTypes
<1> QED BY <1>4, <1>5, <1>6, <1>7, <1>8

\* An opening that fails, and the end of a cache.
LEMMA CloseKeeps ==
    ASSUME StoreInv, NEW u \in Users, Store!OpenFails(u) \/ Store!Close(u)
    PROVE  StoreInv'
<1> USE StoreAssumption DEF StoreInv
<1>1. /\ phase' = [phase EXCEPT ![u] = "closed"] /\ phase[u] # "closed"
      /\ conn' = [conn EXCEPT ![u] = None]
      /\ UNCHANGED <<file, rows, made, path, now, opened, undeleted, shared>>
    BY DEF Store!OpenFails, Store!Close, Store!To, StoreTypes
<1>2. MadeByOpened'
  <2>1. "closed" \notin {"probing", "waiting", "opening"}
      OBVIOUS
  <2>2. /\ Cardinality(Opening) \in Nat /\ Cardinality(Opening') \in Nat
        /\ Cardinality(Opening') <= Cardinality(Opening)
      BY <1>1, <2>1, OpeningCount
  <2>3. made \in Nat /\ opened \in Nat
      BY DEF StoreTypes
  <2> QED BY <1>1, <2>2, <2>3 DEF MadeByOpened
<1>3. StoreTypes'
    BY <1>1 DEF StoreTypes, Store!Names, Store!Bases
<1>4. PathsTrue' /\ Store!OneDatabase'
    BY <1>1 DEF PathsTrue, Store!OneDatabase, StoreTypes
<1>5. Store!NoneLeftBehind'
    BY <1>1 DEF Store!NoneLeftBehind, Store!Alternatives
<1> QED BY <1>2, <1>3, <1>4, <1>5

\* Using a cache changes the rows of its database, and nothing else.
LEMMA UsingKeeps ==
    ASSUME StoreInv, NEW u \in Users, phase[u] = "open", Store!Using(u)
    PROVE  StoreInv'
<1> USE StoreAssumption DEF StoreInv
<1> DEFINE Tables == [Keys -> Rows \cup {None}]
<1>1. conn[u] \in Store!Bases /\ Store!Table(u) \in Tables /\ now \in Nat
    BY DEF StoreTypes, Store!Table
<1>2. PICK t \in Tables : Store!Change(u, t)
  <2>1. ASSUME NEW k \in Keys, NEW type \in Types, Store!delete(u, k, type)
        PROVE  \E t \in Tables : Store!Change(u, t)
      BY <1>1, <2>1 DEF Store!delete
  <2>2. ASSUME NEW k \in Keys, NEW type \in Types, NEW d \in Data, NEW ttl \in Ttls,
               Store!set_cache(u, k, type, d, ttl)
        PROVE  \E t \in Tables : Store!Change(u, t)
    <3>1. [type |-> type, data |-> d, expires |-> now + ttl] \in Rows
      <4>1. ttl \in Nat
          BY <2>2
      <4>2. now + ttl \in Nat
          BY <1>1, <4>1, Z3
      <4> QED BY <2>2, <4>2 DEF Rows
    <3> QED BY <1>1, <2>2, <3>1 DEF Store!set_cache
  <2>3. ASSUME Store!purge_expired(u) \/ \E type \in Types \cup {None} : Store!clear(u, type)
        PROVE  \E t \in Tables : Store!Change(u, t)
      BY <1>1, <2>3 DEF Store!purge_expired, Store!clear, Store!Purged
  <2> QED BY <2>1, <2>2, <2>3 DEF Store!Using
<1>3. /\ rows' = [rows EXCEPT ![conn[u]] = t]
      /\ UNCHANGED <<file, made, phase, path, conn, now, opened, faults, undeleted, shared>>
    BY <1>2 DEF Store!Change
<1>4. StoreTypes'
    BY <1>1, <1>3 DEF StoreTypes, Store!Names, Store!Bases
<1>5. PathsTrue' /\ MadeByOpened' /\ Store!OneDatabase' /\ Store!NoneLeftBehind'
    BY <1>3 DEF PathsTrue, MadeByOpened, Opening, Store!OneDatabase, Store!NoneLeftBehind,
                Store!Alternatives
<1> QED BY <1>4, <1>5

LEMMA StoreStep == StoreInv /\ [Store!Next]_storeVars => StoreInv'
<1> SUFFICES ASSUME StoreInv, [Store!Next]_storeVars PROVE StoreInv'
    OBVIOUS
<1>1. CASE Store!Tick
    BY <1>1, StoreAssumption
       DEF Store!Tick, StoreInv, StoreTypes, PathsTrue, MadeByOpened, Opening,
           Store!OneDatabase, Store!NoneLeftBehind, Store!Alternatives, Store!Names, Store!Bases
<1>2. CASE UNCHANGED storeVars
    BY <1>2
       DEF storeVars, StoreInv, StoreTypes, PathsTrue, MadeByOpened, Opening,
           Store!OneDatabase, Store!NoneLeftBehind, Store!Alternatives, Store!Names, Store!Bases
<1> QED BY <1>1, <1>2, OpenKeeps, ProbeKeeps, ConnectKeeps, CloseKeeps, UsingKeeps
        DEF Store!Next, Store!Opening

\* What get_cache_info counts is what get finds, as every row has one type.
LEMMA StoreInvSound == StoreInv => StoreSound
<1> SUFFICES ASSUME StoreInv PROVE StoreSound
    OBVIOUS
<1> USE StoreAssumption
<1>1. Store!TypeOK
  <2>1. Cardinality(Opening) \in Nat
    <3>1. IsFiniteSet(Opening)
        BY FS_Subset DEF Opening
    <3> QED BY <3>1, FS_CardinalityType
  <2> QED BY <2>1 DEF StoreInv, StoreTypes, MadeByOpened, Store!TypeOK
<1>2. Store!InfoAgrees
  <2>1. SUFFICES ASSUME NEW u \in Users, phase[u] = "open"
                 PROVE  Store!ValidEntries(u)
                          = {k \in Keys : \E type \in Types : Store!get(u, k, type) # None}
      BY DEF Store!InfoAgrees
  <2>2. Store!Table(u) \in [Keys -> Rows \cup {None}] /\ now \in Nat
      BY <2>1 DEF StoreInv, StoreTypes, Store!Table
  <2>3. ASSUME NEW k \in Keys
        PROVE  k \in Store!ValidEntries(u) <=> \E type \in Types : Store!get(u, k, type) # None
    <3>1. CASE Store!Table(u)[k] = None
        BY <3>1 DEF Store!ValidEntries, Store!get
    <3>2. CASE Store!Table(u)[k] # None
      <4>1. Store!Table(u)[k] \in Rows
          BY <2>2, <3>2
      <4> QED BY <2>2, <3>2, <4>1 DEF Rows, Store!ValidEntries, Store!get
    <3> QED BY <3>1, <3>2
  <2> QED BY <2>3 DEF Store!ValidEntries
<1> QED BY <1>1, <1>2 DEF StoreInv, StoreSound, Store!StoreSound

\* However many caches open, close, fail and use one folder, they stay over one
\* database unless it could not be opened, no other database is left behind
\* but by a failed deletion, and get_cache_info counts what get finds.
THEOREM StoreSoundAlways == ServicesSpec => []StoreSound
<1>1. ServicesInit => StoreInv
    BY StoreInit DEF ServicesInit
<1>2. [ServicesNext]_servicesVars => [Store!Next]_storeVars
    BY DEF ServicesNext, Of, servicesVars
<1>3. StoreInv /\ [ServicesNext]_servicesVars => StoreInv'
    BY <1>2, StoreStep
<1> QED BY <1>1, <1>3, StoreInvSound, PTL DEF ServicesSpec

-----------------------------------------------------------------------------
(* The settings.                                                             *)

Good == {k \in ApiKeys : KeyLength[k] >= 20}

SettingsTypes ==
    /\ env_file \in ApiKeys \cup {Empty, None} /\ environ \in ApiKeys \cup {None}
    /\ files \in [1 .. 2 -> Configs \cup {None, Torn}]
    /\ instance \in Configs \cup {None} /\ settings \in Configs \cup {None}
    /\ dialog \in [at : {"closed", "env", "key", "folders", "reload", "saved"},
                   key : ApiKeys \cup {None}, folders : Folders \cup {None}]
    /\ behind \in BOOLEAN

(* How far a save has come: the key is in .env and in the environment, then  *)
(* in the clients' configuration and its file, which then have the folders.  *)
SaveUnderWay ==
    /\ dialog.at # "closed" => settings # None
    /\ dialog.at \in {"env", "key"} => dialog.key # None
    /\ dialog.at \notin {"closed", "env"} /\ dialog.key # None =>
         env_file = dialog.key /\ environ = dialog.key
    /\ dialog.at \in {"folders", "reload", "saved"} /\ dialog.key # None =>
         instance # None /\ instance.key = dialog.key /\ files[1] = instance
    /\ dialog.at \in {"reload", "saved"} =>
         instance # None /\ instance.folders = dialog.folders /\ files[1] = instance
    /\ dialog.at = "saved" => settings = instance /\ ~Set!LoadFails

\* Without a .env file the program started with a key of the environment.
EnvKept == env_file = None => environ \in Good \cup {None} /\ (settings # None => environ # None)

SettingsInv == SettingsTypes /\ SaveUnderWay /\ EnvKept /\ Set!CacheIsTrue

\* The configuration of the files is one, or torn.
LEMMA LoadedTyped ==
    ASSUME SettingsTypes
    PROVE  /\ Set!Loaded \in Configs \cup {Torn}
           /\ Set!EnvLoaded \in ApiKeys \cup {None}
           /\ files[1] # None => Set!Loaded = files[1]
<1> USE SettingsAssumption
<1>1. Set!Paths = 1 .. 2
    BY DEF SettingsTypes, Set!Paths
<1>2. \A q \in 1 .. 0 : FALSE
    OBVIOUS
<1>3. ASSUME files[1] # None PROVE Set!FirstFile = {1}
    BY <1>1, <1>2, <1>3 DEF Set!FirstFile, SettingsTypes
<1>4. ASSUME Set!FirstFile # {} PROVE Set!Loaded \in Configs \cup {Torn}
  <2>1. PICK p \in Set!FirstFile : Set!Loaded = files[p]
      BY <1>4 DEF Set!Loaded
  <2> QED BY <1>1, <2>1 DEF Set!FirstFile, SettingsTypes
<1>5. Set!FirstFile = {} => Set!Loaded \in Configs
    BY DEF Set!Loaded, Set!Defaults, Configs
<1>6. Set!EnvLoaded \in ApiKeys \cup {None}
    BY DEF Set!EnvLoaded, SettingsTypes
<1>7. files[1] # None => Set!Loaded = files[1]
    BY <1>3 DEF Set!Loaded
<1> QED BY <1>4, <1>5, <1>6, <1>7

LEMMA SettingsInit == Set!Init => SettingsInv
<1> USE SettingsAssumption
<1> SUFFICES ASSUME Set!Init PROVE SettingsInv
    OBVIOUS
<1>1. SettingsTypes
    BY DEF Set!Init, SettingsTypes, Set!Closed, Configs
<1>2. SaveUnderWay
    BY DEF Set!Init, SaveUnderWay, Set!Closed
<1>3. EnvKept
    BY DEF Set!Init, EnvKept, Good
<1> QED BY <1>1, <1>2, <1>3 DEF Set!Init, SettingsInv, Set!CacheIsTrue

\* The steps that change no file: starting, reading and stopping.
LEMMA ReadingKeeps ==
    ASSUME SettingsInv,
           Set!Start \/ Set!get_config \/ Set!Stop \/ Set!Reload \/ Set!Dismiss
             \/ Set!_load_organize_settings
    PROVE  SettingsInv'
<1> USE SettingsAssumption DEF SettingsInv
<1>1. /\ UNCHANGED <<env_file, files>>
      /\ environ' \in {environ, Set!EnvLoaded} /\ environ' \in ApiKeys \cup {None}
    BY LoadedTyped DEF Set!Start, Set!get_config, Set!Stop, Set!Reload, Set!Dismiss,
           Set!_load_organize_settings, SettingsTypes
<1>2. /\ Set!Loaded' = Set!Loaded /\ Set!Loaded \in Configs \cup {Torn}
      /\ Set!EnvLoaded' = Set!EnvLoaded
    BY <1>1, LoadedTyped DEF Set!Loaded, Set!FirstFile, Set!Paths, Set!EnvLoaded
<1>3. /\ Set!LoadFails' = Set!LoadFails /\ Set!EnvFails' = Set!EnvFails
    BY <1>2 DEF Set!LoadFails, Set!EnvFails
<1>4. EnvKept'
    BY <1>1, LoadedTyped DEF EnvKept, Set!EnvLoaded, Set!Start, Set!get_config, Set!Stop,
           Set!Reload, Set!Dismiss, Set!_load_organize_settings, Set!LoadFails, Set!EnvFails,
           SettingsTypes
<1>5. CASE Set!Start
  <2>1. dialog.at = "closed"
      BY <1>5 DEF Set!Start, SaveUnderWay, SettingsTypes
  <2> QED BY <1>1, <1>2, <1>3, <1>4, <1>5, <2>1
          DEF Set!Start, Set!LoadFails, SettingsTypes, SaveUnderWay, Set!CacheIsTrue
<1>6. CASE Set!get_config
    BY <1>1, <1>2, <1>3, <1>4, <1>6
       DEF Set!get_config, Set!LoadFails, Set!EnvLoaded, SettingsTypes, SaveUnderWay,
           Set!CacheIsTrue
<1>7. CASE Set!Stop
  <2>1. SettingsTypes' /\ SaveUnderWay'
      BY <1>1, <1>7 DEF Set!Stop, Set!Closed, SettingsTypes, SaveUnderWay
  <2> QED BY <1>4, <1>7, <2>1 DEF Set!Stop, Set!CacheIsTrue
<1>8. CASE Set!Reload
  <2>1. CASE Set!EnvFails \/ files[1] \in {None, Torn}
    <3>1. dialog' = [dialog EXCEPT !.at = "closed"] /\ UNCHANGED <<settings, instance, behind>>
        BY <1>8, <2>1 DEF Set!Reload, Set!At
    <3> QED BY <1>1, <1>2, <1>4, <3>1 DEF SettingsTypes, SaveUnderWay, Set!CacheIsTrue
  <2>2. CASE ~(Set!EnvFails \/ files[1] \in {None, Torn})
    <3>1. /\ dialog' = [dialog EXCEPT !.at = "saved"] /\ settings' = files[1]
          /\ dialog.at = "reload" /\ UNCHANGED <<instance, behind>> /\ environ' = Set!EnvLoaded
        BY <1>8, <2>2 DEF Set!Reload, Set!At
    <3>2. ~Set!LoadFails'
        BY <1>2, <1>3, <2>2, LoadedTyped DEF Set!LoadFails
    <3> QED BY <1>1, <1>2, <1>4, <2>2, <3>1, <3>2
            DEF SettingsTypes, SaveUnderWay, Set!CacheIsTrue, Set!EnvLoaded
  <2> QED BY <2>1, <2>2
<1>9. CASE Set!Dismiss
  <2>1. dialog' = Set!Closed /\ UNCHANGED <<environ, instance, settings, behind>>
      BY <1>9 DEF Set!Dismiss
  <2> QED BY <1>1, <1>2, <1>4, <2>1
          DEF Set!Closed, SettingsTypes, SaveUnderWay, Set!CacheIsTrue
<1>10. CASE Set!_load_organize_settings
    BY <1>1, <1>2, <1>3, <1>4, <1>10
       DEF Set!_load_organize_settings, SettingsTypes, SaveUnderWay, Set!CacheIsTrue,
           Set!EnvLoaded
<1> QED BY <1>5, <1>6, <1>7, <1>8, <1>9, <1>10

\* A save begins and writes its key, and somebody edits the file.
LEMMA EnvSaved ==
    ASSUME SettingsInv,
           \/ \E key \in ApiKeys \cup {None}, folders \in Folders : Set!Save(key, folders)
           \/ \E how \in {"done", "failed", "torn"} : Set!SaveEnv(how)
           \/ \E folders \in Folders \ BadFolders : Set!Edited(folders)
    PROVE  SettingsInv'
<1> USE SettingsAssumption DEF SettingsInv
<1>1. ASSUME NEW key \in ApiKeys \cup {None}, NEW folders \in Folders, Set!Save(key, folders)
      PROVE  SettingsInv'
  <2>1. /\ dialog' = [at |-> IF key = None THEN "folders" ELSE "env", key |-> key,
                      folders |-> folders]
        /\ settings # None
        /\ UNCHANGED <<env_file, environ, files, instance, settings, behind>>
      BY <1>1 DEF Set!Save
  <2>2. Set!Loaded' = Set!Loaded
      BY <2>1 DEF Set!Loaded, Set!FirstFile, Set!Paths
  <2> QED BY <2>1, <2>2 DEF SettingsTypes, SaveUnderWay, EnvKept, Set!CacheIsTrue
<1>2. ASSUME NEW how \in {"done", "failed", "torn"}, Set!SaveEnv(how)
      PROVE  SettingsInv'
  <2>1. Set!Loaded' = Set!Loaded
      BY <1>2 DEF Set!SaveEnv, Set!Loaded, Set!FirstFile, Set!Paths
  <2>2. CASE how = "done"
      BY <1>2, <2>1, <2>2
         DEF Set!SaveEnv, Set!At, SettingsTypes, SaveUnderWay, EnvKept, Set!CacheIsTrue
  <2>3. CASE how # "done"
      BY <1>2, <2>1, <2>3
         DEF Set!SaveEnv, Set!At, SettingsTypes, SaveUnderWay, EnvKept, Set!CacheIsTrue
  <2> QED BY <2>2, <2>3
<1>3. ASSUME NEW folders \in Folders \ BadFolders, Set!Edited(folders)
      PROVE  SettingsInv'
  <2>1. /\ files' = [files EXCEPT ![1].folders = folders] /\ files[1] \in Configs
        /\ behind' = (instance # None) /\ dialog.at = "closed"
        /\ UNCHANGED <<env_file, environ, instance, settings, dialog>>
      BY <1>3 DEF Set!Edited, SettingsTypes
  <2>2. files' = [files EXCEPT ![1] = [files[1] EXCEPT !.folders = folders]]
        /\ [files[1] EXCEPT !.folders = folders] \in Configs
      BY <2>1 DEF Configs
  <2>3. behind' \in BOOLEAN /\ (instance # None => behind')
      BY <2>1, Zenon
  <2>4. SettingsTypes'
      BY <2>1, <2>2, <2>3 DEF SettingsTypes
  <2> QED BY <2>1, <2>3, <2>4 DEF SaveUnderWay, EnvKept, Set!CacheIsTrue
<1> QED BY <1>1, <1>2, <1>3

\* A step of the save that changes the clients' configuration and its file.
LEMMA UpdateKeeps ==
    ASSUME SettingsInv, NEW how \in {"done", "failed", "torn"},
           Set!update_and_save_config(how)
    PROVE  SettingsInv'
<1> USE SettingsAssumption DEF SettingsInv
<1>1. /\ dialog.at \in {"key", "folders"} /\ UNCHANGED <<env_file, settings>>
      /\ environ' = IF instance = None THEN Set!EnvLoaded ELSE environ
    BY DEF Set!update_and_save_config
<1>2. environ' \in ApiKeys \cup {None} /\ EnvKept'
    BY <1>1, LoadedTyped DEF SettingsTypes, EnvKept, Set!EnvLoaded
<1>3. dialog.key # None => env_file = dialog.key /\ environ' = dialog.key
    BY <1>1 DEF SaveUnderWay, Set!EnvLoaded, SettingsTypes
<1>4. settings # None
    BY <1>1 DEF SaveUnderWay
<1>5. CASE Set!UpdateFails \/ how # "done"
  <2>1. dialog' = [dialog EXCEPT !.at = "closed"]
      BY <1>5 DEF Set!update_and_save_config, Set!At
  <2>2. CASE Set!UpdateFails \/ how = "failed"
    <3>1. UNCHANGED <<files, behind>>
        BY <2>2 DEF Set!update_and_save_config
    <3>2. Set!Loaded' = Set!Loaded
        BY <3>1 DEF Set!Loaded, Set!FirstFile, Set!Paths
    <3>3. instance' = IF instance # None THEN instance
                      ELSE IF Set!LoadFails THEN None ELSE Set!Loaded
        BY <2>2 DEF Set!update_and_save_config, Set!InForce, Set!Current
    <3>4. instance' \in Configs \cup {None}
        BY <3>3, LoadedTyped DEF Set!LoadFails, SettingsTypes
    <3>5. SettingsTypes'
        BY <1>1, <1>2, <2>1, <3>1, <3>4 DEF SettingsTypes
    <3>6. Set!CacheIsTrue'
        BY <3>1, <3>2, <3>3 DEF Set!CacheIsTrue
    <3> QED BY <1>2, <2>1, <3>5, <3>6 DEF SaveUnderWay, SettingsTypes
  <2>3. CASE ~Set!UpdateFails /\ how = "torn"
    <3>1. files' = [files EXCEPT ![1] = Torn] /\ behind' = TRUE
        BY <2>3 DEF Set!update_and_save_config
    <3>2. instance' = IF instance # None THEN instance
                      ELSE IF Set!LoadFails THEN None ELSE Set!Loaded
        BY <2>3 DEF Set!update_and_save_config, Set!InForce, Set!Current
    <3>3. instance' \in Configs \cup {None}
        BY <3>2, LoadedTyped DEF Set!LoadFails, SettingsTypes
    <3>4. behind' \in BOOLEAN /\ behind'
        BY <3>1, Zenon
    <3>5. SettingsTypes'
        BY <1>1, <1>2, <2>1, <3>1, <3>3, <3>4 DEF SettingsTypes
    <3> QED BY <1>2, <2>1, <3>4, <3>5 DEF SaveUnderWay, SettingsTypes, Set!CacheIsTrue
  <2> QED BY <1>5, <2>2, <2>3
<1>6. CASE ~Set!UpdateFails /\ how = "done"
  <2>1. Set!Current \in Configs /\ (instance # None => Set!Current = instance)
      BY <1>6, LoadedTyped DEF Set!UpdateFails, Set!LoadFails, Set!Current, SettingsTypes
  <2>2. /\ Set!Updated \in Configs
        /\ dialog.at = "key" => Set!Updated.key = dialog.key
        /\ dialog.at = "folders" => Set!Updated.folders = dialog.folders
                                    /\ Set!Updated.key = Set!Current.key
      BY <1>1, <2>1 DEF Set!Updated, SettingsTypes, Configs, SaveUnderWay
  <2>3. /\ files' = [files EXCEPT ![1] = Set!Updated] /\ instance' = Set!Updated
        /\ behind' = FALSE
        /\ dialog' = [dialog EXCEPT !.at = IF dialog.at = "key" THEN "folders" ELSE "reload"]
      BY <1>6 DEF Set!update_and_save_config, Set!At, Set!InForce, Set!UpdateFails
  <2>4. behind' \in BOOLEAN
      BY <2>3, Zenon
  <2>5. SettingsTypes'
      BY <1>1, <1>2, <2>2, <2>3, <2>4 DEF SettingsTypes
  <2>6. files'[1] = Set!Updated /\ instance' # None
      BY <2>2, <2>3 DEF SettingsTypes
  <2>7. SaveUnderWay'
    <3>1. CASE dialog.at = "key"
        BY <1>1, <1>3, <1>4, <2>2, <2>3, <2>6, <3>1 DEF SaveUnderWay, SettingsTypes
    <3>2. CASE dialog.at = "folders"
        BY <1>1, <1>3, <1>4, <2>1, <2>2, <2>3, <2>6, <3>2 DEF SaveUnderWay, SettingsTypes
    <3> QED BY <1>1, <3>1, <3>2
  <2>8. Set!Loaded' = files'[1]
    <3>1. (1 \in Set!Paths)' /\ \A q \in 1 .. 0 : FALSE
        BY <2>5 DEF SettingsTypes, Set!Paths
    <3>2. Set!FirstFile' = {1}
        BY <2>2, <2>5, <2>6, <3>1 DEF Set!FirstFile, Set!Paths, SettingsTypes
    <3> QED BY <3>2 DEF Set!Loaded
  <2> QED BY <1>2, <2>3, <2>5, <2>6, <2>7, <2>8 DEF Set!CacheIsTrue
<1> QED BY <1>5, <1>6

LEMMA SettingsStep == SettingsInv /\ [Set!Next]_settingsVars => SettingsInv'
<1> SUFFICES ASSUME SettingsInv, [Set!Next]_settingsVars PROVE SettingsInv'
    OBVIOUS
<1>1. CASE UNCHANGED settingsVars
    BY <1>1 DEF settingsVars, SettingsInv, SettingsTypes, SaveUnderWay, EnvKept,
                Set!CacheIsTrue, Set!LoadFails, Set!EnvFails, Set!EnvLoaded, Set!Loaded,
                Set!FirstFile, Set!Paths
<1> QED BY <1>1, ReadingKeeps, EnvSaved, UpdateKeeps DEF Set!Next, Set!Saving

\* What the invariant says is what the dialog, the clients and the next start
\* rely on.
LEMMA SettingsInvSound == SettingsInv => Set!SettingsAgree
<1> USE SettingsAssumption
<1> SUFFICES ASSUME SettingsInv PROVE Set!SettingsAgree
    OBVIOUS
<1>1. Set!TypeOK /\ Set!SavedIsInForce
    BY DEF SettingsInv, SettingsTypes, SaveUnderWay, Set!TypeOK, Set!SavedIsInForce
<1>2. Set!StartsAgain
  <2> SUFFICES ASSUME settings # None, Set!LoadFails, env_file # Empty,
                      ~(KeyLength[env_file] < 20)
               PROVE  Torn \in {files[p] : p \in Set!Paths}
      BY DEF Set!StartsAgain
  <2>1. Set!EnvLoaded \in Good
      BY DEF SettingsInv, SettingsTypes, EnvKept, Set!EnvLoaded, Good
  <2>2. ~Set!EnvFails
      BY <2>1 DEF Set!EnvFails, Good
  <2>3. Set!Loaded = Torn
      BY <2>2 DEF Set!LoadFails
  <2>4. Set!FirstFile # {}
      BY <2>3 DEF Set!Loaded, Set!Defaults, Configs
  <2> QED BY <2>3, <2>4 DEF Set!Loaded, Set!FirstFile
<1> QED BY <1>1, <1>2 DEF SettingsInv, Set!SettingsAgree

\* Whatever saves fail or are torn, and whoever reads in between, the TMDB
\* clients have what the files say, "all saved" is said of what is in force,
\* and a program that runs would start again.
THEOREM SettingsAgreeAlways == ServicesSpec => []SettingsAgree
<1> DEFINE Inv == part = "settings" => SettingsInv
<1>1. ServicesInit => Inv
    BY SettingsInit DEF ServicesInit
<1>2. Inv /\ [ServicesNext]_servicesVars => Inv'
  <2> SUFFICES ASSUME Inv, [ServicesNext]_servicesVars, (part = "settings")' PROVE SettingsInv'
      OBVIOUS
  <2>1. part = "settings" /\ [Set!Next]_settingsVars
      BY DEF ServicesNext, Of, servicesVars
  <2> QED BY <2>1, SettingsStep
<1>3. Inv => SettingsAgree
    BY SettingsInvSound DEF SettingsAgree
<1> QED BY <1>1, <1>2, <1>3, PTL DEF ServicesSpec

-----------------------------------------------------------------------------
(* A run: scan, match and organize.                                          *)

Statuses == {"skipped", "error", "success"}
Entries  == [step : {"scan", "match", "organize"}, status : Statuses]
Told     == outcome.steps

\* The steps that were not skipped, as far as the result tells.
Ran(told) == {told[i].step : i \in {j \in DOMAIN told : told[j].status # "skipped"}}

(* What the result has got so far; before its end a run has no errors.       *)
OutcomeInv ==
    /\ asked.skip \subseteq {"scan", "match", "organize"}
    /\ step \in {"scan", "match", "organize", "done"}
    /\ Told \in Seq(Entries) /\ Len(Told) <= 3
    /\ step # "done" =>
         /\ Len(Told) < 3 /\ step = Run!Step[Len(Told) + 1]
         /\ outcome.success = TRUE /\ outcome.exit_code = 0 /\ outcome.extra = <<>>
         /\ \A i \in 1 .. Len(Told) : Told[i].status # "error"
    /\ \A i \in 1 .. Len(Told) :
         /\ Told[i].step = Run!Step[i]
         /\ Told[i].status = "skipped" <=> Run!Step[i] \in asked.skip
         /\ Told[i].status = "error" => i = Len(Told)
    /\ timers = IF asked.benchmark THEN Ran(Told) ELSE {}
    /\ step = "done" =>
         /\ outcome.success <=> \A i \in 1 .. Len(Told) : Told[i].status # "error"
         /\ outcome.success <=> outcome.exit_code = 0
         /\ outcome.success => Len(Told) = 3
         /\ outcome.benchmark = IF asked.benchmark THEN Ran(Told) ELSE {}

\* A step that is told of keeps the result true.
LEMMA StepAppended ==
    ASSUME OutcomeInv, step # "done", NEW status \in Statuses, NEW extra,
           status = "skipped" <=> step \in asked.skip,
           status = "error" \/ step = "organize" \/ extra = <<>>,
           timers' = IF asked.benchmark /\ status # "skipped" THEN timers \cup {step} ELSE timers,
           Run!append_step(status, extra), UNCHANGED asked
    PROVE  /\ OutcomeInv' /\ outcome'.extra = extra /\ Len(Told') = Len(Told) + 1
           /\ step = "organize" => step' = "done"
           /\ step \in {"scan", "match"} => step' # "scan"
<1> DEFINE entry == [step |-> step, status |-> status]
           n     == Len(Told)
           last  == status = "error" \/ step = "organize"
<1>1. /\ Told' = Append(Told, entry) /\ outcome'.extra = extra
      /\ outcome'.exit_code = IF status = "error" THEN 1 ELSE 0
      /\ outcome'.benchmark = IF last THEN Run!collect_benchmark(Append(Told, entry), timers')
                              ELSE {}
      /\ step' = IF last THEN "done" ELSE Run!After(step)
    BY DEF OutcomeInv, Told, Run!append_step
<1>2. outcome'.success = (status # "error")
    BY DEF OutcomeInv, Run!append_step
<1>3. Told \in Seq(Entries) /\ n \in 0 .. 2 /\ entry \in Entries /\ step = Run!Step[n + 1]
  <2>1. Told \in Seq(Entries) /\ n < 3 /\ step = Run!Step[n + 1]
      BY DEF OutcomeInv
  <2>2. entry \in Entries
      BY DEF OutcomeInv, Entries
  <2>3. n \in Nat
      BY <2>1
  <2>4. n \in 0 .. 2
    <3>1. \A m \in Nat : m < 3 => m \in 0 .. 2
        OBVIOUS
    <3>2. n < 3
        BY <2>1
    <3> QED BY <2>3, <3>1, <3>2
  <2> QED BY <2>1, <2>2, <2>4
<1>4. /\ Told' \in Seq(Entries) /\ Len(Told') = n + 1
      /\ \A i \in 1 .. n : Told'[i] = Told[i]
      /\ Told'[n + 1] = entry
    BY <1>1, <1>3
<1>5. Ran(Told') = IF status = "skipped" THEN Ran(Told) ELSE Ran(Told) \cup {step}
  <2>1. DOMAIN Told = 1 .. n /\ DOMAIN Told' = 1 .. (n + 1)
      BY <1>3, <1>4
  <2> QED BY <1>3, <1>4, <2>1 DEF Ran
<1>6. timers' = IF asked'.benchmark THEN Ran(Told') ELSE {}
    BY <1>5 DEF OutcomeInv
<1>7. /\ ~last => n < 2 /\ step' # "done" /\ step' = Run!Step[n + 2]
      /\ last => step' = "done"
      /\ ~(status = "error") /\ last => n = 2
  <2>1. CASE n = 0
      BY <1>1, <1>3, <2>1 DEF Run!Step, Run!After
  <2>2. CASE n = 1
      BY <1>1, <1>3, <2>2 DEF Run!Step, Run!After
  <2>3. CASE n = 2
      BY <1>1, <1>3, <2>3 DEF Run!Step, Run!After
  <2> QED BY <1>3, <2>1, <2>2, <2>3
<1>8. \A i \in 1 .. (n + 1) :
         /\ Told'[i].step = Run!Step[i]
         /\ Told'[i].status = "skipped" <=> Run!Step[i] \in asked'.skip
         /\ Told'[i].status = "error" => i = n + 1
         /\ Told'[i].status = "error" <=> (i = n + 1 /\ status = "error")
    BY <1>3, <1>4 DEF OutcomeInv
<1>9. last => outcome'.benchmark = IF asked'.benchmark THEN Ran(Told') ELSE {}
  <2>1. Ran(Told') \subseteq {Told'[i].step : i \in DOMAIN Told'}
      BY DEF Ran
  <2>2. Run!collect_benchmark(Append(Told, entry), timers')
          = IF asked.benchmark THEN {Told'[i].step : i \in DOMAIN Told'} \cap timers' ELSE {}
      BY <1>1 DEF Run!collect_benchmark
  <2> QED BY <1>1, <1>6, <2>1, <2>2
<1>10. ~last =>
         /\ Len(Told') < 3 /\ step' = Run!Step[Len(Told') + 1]
         /\ outcome'.success = TRUE /\ outcome'.exit_code = 0 /\ outcome'.extra = <<>>
         /\ \A i \in 1 .. Len(Told') : Told'[i].status # "error"
  <2> SUFFICES ASSUME ~last
               PROVE  /\ Len(Told') < 3 /\ step' = Run!Step[Len(Told') + 1]
                      /\ outcome'.success = TRUE /\ outcome'.exit_code = 0
                      /\ outcome'.extra = <<>>
                      /\ \A i \in 1 .. Len(Told') : Told'[i].status # "error"
      OBVIOUS
  <2>1. Len(Told') < 3 /\ step' = Run!Step[Len(Told') + 1]
      BY <1>3, <1>4, <1>7
  <2>2. outcome'.success = TRUE
      BY <1>2
  <2>3. outcome'.exit_code = 0 /\ outcome'.extra = <<>>
      BY <1>1
  <2> QED BY <1>4, <1>8, <2>1, <2>2, <2>3
<1>11. last =>
         /\ outcome'.success <=> \A i \in 1 .. Len(Told') : Told'[i].status # "error"
         /\ outcome'.success <=> outcome'.exit_code = 0
         /\ outcome'.success => Len(Told') = 3
  <2>1. (\A i \in 1 .. Len(Told') : Told'[i].status # "error") <=> status # "error"
      BY <1>3, <1>4, <1>8
  <2>2. outcome'.exit_code = 0 <=> status # "error"
      BY <1>1
  <2>3. last /\ status # "error" => Len(Told') = 3
      BY <1>3, <1>4, <1>7
  <2>4. outcome'.success <=> status # "error"
      BY <1>2, Zenon
  <2> QED BY <2>1, <2>2, <2>3, <2>4
<1>12. step' \in {"scan", "match", "organize", "done"}
    BY <1>1 DEF Run!After
<1>13. \A i \in 1 .. Len(Told') :
         /\ Told'[i].step = Run!Step[i]
         /\ Told'[i].status = "skipped" <=> Run!Step[i] \in asked'.skip
         /\ Told'[i].status = "error" => i = Len(Told')
    BY <1>4, <1>8
<1>14. Len(Told') <= 3 /\ asked'.skip \subseteq {"scan", "match", "organize"}
    BY <1>3, <1>4 DEF OutcomeInv
<1>15. OutcomeInv'
  <2> HIDE DEF n, entry
  <2>1. CASE last
    <3>1. step' = "done"
        BY <1>7, <2>1
    <3> HIDE DEF last
    <3> QED BY <1>4, <1>6, <1>9, <1>11, <1>12, <1>13, <1>14, <2>1, <3>1 DEF OutcomeInv
  <2>2. CASE ~last
    <3>1. step' # "done"
        BY <1>7, <2>2
    <3> HIDE DEF last
    <3> QED BY <1>4, <1>6, <1>10, <1>12, <1>13, <1>14, <2>2, <3>1 DEF OutcomeInv
  <2> QED BY <2>1, <2>2
<1>16. step \in {"scan", "match"} => step' # "scan"
    BY <1>1 DEF Run!After
<1> QED BY <1>1, <1>4, <1>7, <1>15, <1>16

(* The lists: a plan is made of the last of them, in the organize step of a  *)
(* run that is to organize, and in a dry run nothing follows from it.        *)
ListsInv ==
    /\ present \subseteq Library
    /\ scanned \in Lists \cup {NoFiles} /\ matched \in Lists \cup {NoFiles}
    /\ plan \in Lists \cup {NoFiles}
    /\ step \in {"scan", "match"} => plan = NoFiles
    /\ plan = NoFiles => results = <<>>
    /\ plan # NoFiles =>
         /\ "organize" \notin asked.skip /\ DOMAIN results \subseteq DOMAIN plan
         /\ asked.dry_run => step # "organize" /\ results = <<>>
         /\ \A i \in 1 .. Len(Told) : Told[i].status = "error" => i = 3
         /\ Run!pick_organize_files # NoFiles =>
              \A f \in DOMAIN plan : /\ f \in DOMAIN Run!pick_organize_files
                                     /\ plan[f] = Run!pick_organize_files[f]

\* What the result says of the files moved is so at the end.
ExtraTold ==
    step = "done" /\ outcome.extra # <<>> =>
      /\ outcome.extra.moved = Cardinality(Run!Moved)
      /\ outcome.extra.moved <= outcome.extra.total
      /\ plan # NoFiles => outcome.extra.total = Cardinality(DOMAIN plan)

RunInv == OutcomeInv /\ ListsInv /\ ExtraTold

\* RunFlow counts as the theorems about finite sets do.
LEMMA RunCardinality == \A S : Run!Cardinality(S) = Cardinality(S)
BY DEF Run!Cardinality, Cardinality

\* A plan is made of some of the files of a list.
LEMMA PlanTyped ==
    ASSUME NEW list \in Lists, NEW p \in Run!PlanOf(list)
    PROVE  /\ p \in Lists /\ p # NoFiles
           /\ \A f \in DOMAIN p : f \in DOMAIN list /\ p[f] = list[f]
<1>1. PICK S \in SUBSET DOMAIN list : p = [f \in S |-> list[f]]
    BY DEF Run!PlanOf
<1>2. PICK T \in SUBSET Library : list \in [T -> {"parsed", "matched", "failed"}]
    BY DEF Lists
<1>3. p \in [S -> {"parsed", "matched", "failed"}] /\ S \in SUBSET Library
    BY <1>1, <1>2
<1>4. p \in Lists
    BY <1>3 DEF Lists
<1> QED BY <1>1, <1>2, <1>4, RunAssumption

\* Lists are of finitely many files.
LEMMA ListFinite ==
    ASSUME NEW list \in Lists
    PROVE  IsFiniteSet(DOMAIN list) /\ Cardinality(DOMAIN list) \in Nat
<1>1. DOMAIN list \subseteq Library
    BY DEF Lists
<1> QED BY <1>1, RunAssumption, FS_Subset, FS_CardinalityType

LEMMA StepNames == Run!ToSet(Run!Step) = {"scan", "match", "organize"}
<1>1. Run!ToSet(Run!Step) = {Run!Step[i] : i \in 1 .. 3}
    BY DEF Run!ToSet, Run!Step
<1>2. 1 .. 3 = {1, 2, 3}
    OBVIOUS
<1> QED BY <1>1, <1>2 DEF Run!Step

\* Before the organize step the two others were told of.
LEMMA OrganizeIsThird == OutcomeInv /\ step = "organize" => Len(Told) = 2
<1> SUFFICES ASSUME OutcomeInv, step = "organize" PROVE Len(Told) = 2
    OBVIOUS
<1>1. Told \in Seq(Entries) /\ Len(Told) < 3 /\ Run!Step[Len(Told) + 1] = "organize"
    BY DEF OutcomeInv
<1>2. Len(Told) \in Nat
    BY <1>1
<1>3. \A n \in Nat : n < 3 /\ n # 2 => n = 0 \/ n = 1
    OBVIOUS
<1>4. Len(Told) = 0 \/ Len(Told) = 1 \/ Len(Told) = 2
    BY <1>1, <1>2, <1>3
<1>5. Run!Step[0 + 1] # "organize" /\ Run!Step[1 + 1] # "organize"
    BY DEF Run!Step
<1> QED BY <1>1, <1>4, <1>5

LEMMA RunInitially == Run!RunInit => RunInv
<1> SUFFICES ASSUME Run!RunInit PROVE RunInv
    OBVIOUS
<1>1. /\ outcome.steps = <<>> /\ outcome.success = TRUE /\ outcome.exit_code = 0
      /\ outcome.extra = <<>> /\ Ran(<<>>) = {}
    BY DEF Run!RunInit, Run!NothingYet, Ran
<1>2. asked.skip \subseteq {"scan", "match", "organize"}
    BY StepNames DEF Run!RunInit
<1>3. Told = <<>> /\ Told \in Seq(Entries) /\ Len(Told) = 0 /\ "scan" = Run!Step[1]
    BY <1>1 DEF Told, Run!Step
<1>4. OutcomeInv
    BY <1>1, <1>2, <1>3 DEF Run!RunInit, OutcomeInv
<1>5. ListsInv
    BY DEF Run!RunInit, ListsInv
<1> QED BY <1>4, <1>5 DEF Run!RunInit, RunInv, ExtraTold

\* A skipped step, and one that raises.
LEMMA SkipKeeps ==
    ASSUME RunInv, Run!Skip \/ Run!StepRaises
    PROVE  RunInv'
<1> USE DEF RunInv
<1>1. PICK status \in {"skipped", "error"} :
         /\ Run!append_step(status, <<>>) /\ step \in {"scan", "match", "organize"}
         /\ status = "skipped" <=> step \in asked.skip
         /\ timers' = IF asked.benchmark /\ status # "skipped" THEN timers \cup {step} ELSE timers
         /\ UNCHANGED <<asked, present, scanned, matched, plan, results>>
    BY StepNames DEF Run!Skip, Run!StepRaises, Run!timing_end, OutcomeInv
<1>2. /\ OutcomeInv' /\ outcome'.extra = <<>> /\ Len(Told') = Len(Told) + 1
      /\ step = "organize" => step' = "done"
  <2>1. status \in Statuses
      BY <1>1 DEF Statuses
  <2> QED BY <1>1, <2>1, StepAppended
<1>3. ASSUME plan # NoFiles, NEW i \in 1 .. Len(Told'), Told'[i].status = "error" PROVE i = 3
  <2>1. step = "organize"
      BY <1>1, <1>3 DEF ListsInv
  <2>2. Len(Told) = 2
      BY <2>1, OrganizeIsThird
  <2> QED BY <1>2, <1>3, <2>2 DEF OutcomeInv
<1>4. ListsInv'
  <2>1. step' \in {"scan", "match"} => step \in {"scan", "match"}
      BY <1>1, <1>2
  <2>2. Run!pick_organize_files' = Run!pick_organize_files
      BY <1>1 DEF Run!pick_organize_files
  <2>3. step' = "organize" => plan = NoFiles
      BY <1>1, <1>2 DEF ListsInv
  <2> QED BY <1>1, <1>3, <2>1, <2>2, <2>3 DEF ListsInv
<1> QED BY <1>2, <1>4 DEF ExtraTold

\* The steps scan and match make a list, before there is a plan.
LEMMA ListingKeeps ==
    ASSUME RunInv, Run!run_scan_step \/ Run!run_match_step
    PROVE  RunInv'
<1> USE DEF RunInv
<1>1. /\ Run!append_step("success", <<>>) /\ step \in {"scan", "match"} /\ step \notin asked.skip
      /\ timers' = IF asked.benchmark THEN timers \cup {step} ELSE timers
      /\ plan = NoFiles /\ UNCHANGED <<asked, present, plan, results>>
    BY DEF Run!run_scan_step, Run!run_match_step, Run!timing_end, ListsInv
<1>2. OutcomeInv' /\ outcome'.extra = <<>>
    BY <1>1, StepAppended DEF Statuses
<1>3. scanned' \in Lists \cup {NoFiles} /\ matched' \in Lists \cup {NoFiles}
  <2>1. CASE Run!run_scan_step
    <3>1. PICK S \in SUBSET Run!Ended(asked.extensions) : scanned' = [f \in S |-> "parsed"]
        BY <2>1 DEF Run!run_scan_step
    <3>2. S \in SUBSET Library /\ scanned' \in [S -> {"parsed", "matched", "failed"}]
        BY <3>1 DEF Run!Ended, ListsInv
    <3>3. scanned' \in Lists
        BY <3>2 DEF Lists
    <3> QED BY <2>1, <3>3 DEF Run!run_scan_step, ListsInv
  <2>2. CASE Run!run_match_step
    <3>1. PICK S \in SUBSET Library : matched' \in [S -> {"parsed", "matched", "failed"}]
      <4>1. CASE scanned # NoFiles
        <5>1. DOMAIN scanned \in SUBSET Library
            BY <4>1 DEF ListsInv, Lists
        <5>2. matched' \in [DOMAIN scanned -> {"parsed", "matched"}]
            BY <2>2, <4>1 DEF Run!run_match_step
        <5>3. matched' \in [DOMAIN scanned -> {"parsed", "matched", "failed"}]
            BY <5>2
        <5> QED BY <5>1, <5>3
      <4>2. CASE scanned = NoFiles
        <5>1. Run!Ended(CLI_VIDEO_EXTENSIONS) \in SUBSET Library
            BY DEF Run!Ended, ListsInv
        <5> QED BY <2>2, <4>2, <5>1 DEF Run!run_match_step
      <4> QED BY <4>1, <4>2
    <3>2. matched' \in Lists
        BY <3>1 DEF Lists
    <3> QED BY <2>2, <3>2 DEF Run!run_match_step, ListsInv
  <2> QED BY <2>1, <2>2
<1>4. ListsInv'
    BY <1>1, <1>3 DEF ListsInv
<1> QED BY <1>2, <1>4 DEF ExtraTold

\* The plan, which a dry run ends with.
LEMMA PlanKeeps ==
    ASSUME RunInv, Run!build_organize_plan
    PROVE  RunInv'
<1> USE DEF RunInv
<1> DEFINE pick == Run!pick_organize_files
<1>1. /\ step = "organize" /\ "organize" \notin asked.skip /\ plan = NoFiles /\ results = <<>>
      /\ UNCHANGED <<asked, present, scanned, matched, results>>
    BY DEF Run!build_organize_plan, ListsInv
<1>2. pick' = pick /\ pick \in Lists \cup {NoFiles}
    BY <1>1 DEF Run!pick_organize_files, ListsInv
<1>3. Run!Moved = {} /\ Run!Moved' = {} /\ Cardinality({}) = 0
    BY <1>1, FS_EmptySet DEF Run!Moved
<1>4. PICK list \in Lists :
         /\ pick # NoFiles => list = pick
         /\ IF list = <<>>
            THEN /\ Run!timing_end /\ Run!append_step("success", [moved |-> 0, total |-> 0])
                 /\ UNCHANGED plan
            ELSE /\ plan' \in Run!PlanOf(list)
                 /\ IF asked.dry_run
                    THEN /\ Run!timing_end
                         /\ Run!append_step("success",
                                [moved |-> 0, total |-> Run!Cardinality(DOMAIN plan')])
                    ELSE UNCHANGED <<step, timers, outcome>>
  <2>1. ASSUME NEW S \in SUBSET Run!Ended(asked.extensions)
        PROVE  [f \in S |-> "parsed"] \in Lists
    <3>1. S \in SUBSET Library /\ [f \in S |-> "parsed"] \in [S -> {"parsed", "matched", "failed"}]
        BY DEF Run!Ended, ListsInv
    <3> QED BY <3>1 DEF Lists
  <2>2. PICK list \in IF pick # NoFiles THEN {pick}
                     ELSE {[f \in S |-> "parsed"] : S \in SUBSET Run!Ended(asked.extensions)} :
           IF list = <<>>
           THEN /\ Run!timing_end /\ Run!append_step("success", [moved |-> 0, total |-> 0])
                /\ UNCHANGED plan
           ELSE /\ plan' \in Run!PlanOf(list)
                /\ IF asked.dry_run
                   THEN /\ Run!timing_end
                        /\ Run!append_step("success",
                               [moved |-> 0, total |-> Run!Cardinality(DOMAIN plan')])
                   ELSE UNCHANGED <<step, timers, outcome>>
      BY Zenon DEF Run!build_organize_plan
  <2>3. list \in Lists /\ (pick # NoFiles => list = pick)
    <3>1. CASE pick # NoFiles
        BY <1>2, <2>2, <3>1
    <3>2. CASE pick = NoFiles
      <4>1. list \in {[f \in S |-> "parsed"] : S \in SUBSET Run!Ended(asked.extensions)}
          BY <2>2, <3>2
      <4> QED BY <2>1, <3>2, <4>1
    <3> QED BY <3>1, <3>2
  <2> QED BY <2>2, <2>3, Zenon
<1>5. ASSUME NEW extra, Run!append_step("success", extra), Run!timing_end
      PROVE  OutcomeInv' /\ outcome'.extra = extra /\ step' = "done" /\ Len(Told') = 3
  <2>1. /\ timers' = IF asked.benchmark THEN timers \cup {step} ELSE timers
        /\ "success" \in Statuses
      BY <1>5 DEF Run!timing_end, Statuses
  <2>2. Len(Told) = 2
      BY <1>1, OrganizeIsThird
  <2>3. OutcomeInv' /\ outcome'.extra = extra /\ Len(Told') = Len(Told) + 1 /\ step' = "done"
      BY <1>1, <1>5, <2>1, StepAppended
  <2> QED BY <2>2, <2>3
<1>6. CASE list = <<>>
  <2>1. UNCHANGED plan /\ OutcomeInv' /\ outcome'.extra = [moved |-> 0, total |-> 0]
        /\ step' = "done"
      BY <1>4, <1>5, <1>6
  <2>2. ListsInv'
      BY <1>1, <2>1 DEF ListsInv
  <2>3. ExtraTold'
      BY <1>1, <1>3, <2>1 DEF ExtraTold
  <2> QED BY <2>1, <2>2, <2>3
<1>7. CASE list # <<>>
  <2>1. /\ plan' \in Lists /\ plan' # NoFiles
        /\ pick' # NoFiles => \A f \in DOMAIN plan' : f \in DOMAIN pick' /\ plan'[f] = pick'[f]
        /\ Cardinality(DOMAIN plan') \in Nat
      BY <1>2, <1>4, <1>7, PlanTyped, ListFinite
  <2>2. CASE asked.dry_run
    <3>1. /\ OutcomeInv' /\ step' = "done" /\ Len(Told') = 3
          /\ outcome'.extra = [moved |-> 0, total |-> Run!Cardinality(DOMAIN plan')]
        BY <1>4, <1>5, <1>7, <2>2
    <3>2. ListsInv'
      <4>1. \A i \in 1 .. Len(Told') : Told'[i].status = "error" => i = 3
          BY <3>1 DEF OutcomeInv
      <4>2. DOMAIN results' \subseteq DOMAIN plan'
          BY <1>1
      <4> QED BY <1>1, <2>1, <3>1, <4>1, <4>2 DEF ListsInv
    <3>3. ExtraTold'
        BY <1>3, <2>1, <3>1, RunCardinality DEF ExtraTold
    <3> QED BY <3>1, <3>2, <3>3
  <2>3. CASE ~asked.dry_run
    <3>1. UNCHANGED <<step, timers, outcome>>
        BY <1>4, <1>7, <2>3
    <3>2. OutcomeInv' /\ Told' = Told
        BY <1>1, <3>1 DEF OutcomeInv, Told
    <3>3. ListsInv'
      <4>1. \A i \in 1 .. Len(Told') : Told'[i].status = "error" => i = 3
          BY <1>1, <3>2 DEF OutcomeInv
      <4>2. DOMAIN results' \subseteq DOMAIN plan'
          BY <1>1
      <4> QED BY <1>1, <2>1, <2>3, <3>1, <4>1, <4>2 DEF ListsInv
    <3> QED BY <1>1, <3>1, <3>2, <3>3 DEF ExtraTold
  <2> QED BY <2>2, <2>3
<1> QED BY <1>6, <1>7

\* An operation of the plan, the end of it, and a file that disappears.
LEMMA OperateKeeps ==
    ASSUME RunInv,
           Run!OrganizeEnds \/ \E f \in Library : Run!Operate(f) \/ Run!Vanish(f)
    PROVE  RunInv'
<1> USE DEF RunInv
<1>1. ASSUME NEW f \in Library, Run!Operate(f) PROVE RunInv'
  <2>1. /\ step = "organize" /\ plan # NoFiles /\ f \in DOMAIN plan
        /\ DOMAIN results' = DOMAIN results \cup {f} /\ present' \subseteq present
        /\ UNCHANGED <<asked, step, scanned, matched, plan, timers, outcome>>
      BY <1>1 DEF Run!Operate, Run!Executing
  <2>2. OutcomeInv' /\ Told' = Told
      BY <2>1 DEF OutcomeInv, Told
  <2>3. ListsInv'
      BY <2>1, <2>2 DEF ListsInv, Run!pick_organize_files
  <2> QED BY <2>1, <2>2, <2>3 DEF ExtraTold
<1>2. ASSUME NEW f \in Library, Run!Vanish(f) PROVE RunInv'
  <2>1. /\ present' \subseteq present
        /\ UNCHANGED <<asked, step, scanned, matched, plan, results, timers, outcome>>
      BY <1>2 DEF Run!Vanish
  <2> QED BY <2>1 DEF OutcomeInv, Told, ListsInv, Run!pick_organize_files, ExtraTold, Run!Moved
<1>3. CASE Run!OrganizeEnds
  <2> DEFINE extra == [moved |-> Run!Cardinality(Run!Moved), total |-> Run!Cardinality(DOMAIN plan)]
  <2>1. /\ step = "organize" /\ plan # NoFiles /\ "organize" \notin asked.skip
        /\ DOMAIN results = DOMAIN plan /\ Run!append_step("success", extra)
        /\ timers' = IF asked.benchmark THEN timers \cup {step} ELSE timers
        /\ UNCHANGED <<asked, present, scanned, matched, plan, results>>
    <3>1. /\ step = "organize" /\ plan # NoFiles /\ DOMAIN results = DOMAIN plan
          /\ timers' = IF asked.benchmark THEN timers \cup {step} ELSE timers
          /\ UNCHANGED <<asked, present, scanned, matched, plan, results>>
        BY <1>3 DEF Run!OrganizeEnds, Run!Executing, Run!timing_end
    <3>2. Run!append_step("success", extra)
        BY <1>3, Zenon DEF Run!OrganizeEnds
    <3> QED BY <3>1, <3>2 DEF ListsInv
  <2>2. OutcomeInv' /\ outcome'.extra = extra /\ step' = "done" /\ Len(Told') = 3
    <3>1. Len(Told) = 2 /\ "success" \in Statuses
        BY <2>1, OrganizeIsThird DEF Statuses
    <3> HIDE DEF extra
    <3>2. OutcomeInv' /\ outcome'.extra = extra /\ Len(Told') = Len(Told) + 1 /\ step' = "done"
        BY <2>1, <3>1, StepAppended
    <3> QED BY <3>1, <3>2
  <2>3. Cardinality(Run!Moved) <= Cardinality(DOMAIN plan) /\ Run!Moved' = Run!Moved
    <3>1. Run!Moved \subseteq DOMAIN plan /\ IsFiniteSet(DOMAIN plan)
        BY <2>1, ListFinite DEF Run!Moved, ListsInv
    <3> QED BY <2>1, <3>1, FS_Subset DEF Run!Moved
  <2>4. ListsInv'
    <3>1. \A i \in 1 .. Len(Told') : Told'[i].status = "error" => i = 3
        BY <2>2 DEF OutcomeInv
    <3> QED BY <2>1, <2>2, <3>1 DEF ListsInv, Run!pick_organize_files
  <2>5. ExtraTold'
      BY <2>1, <2>2, <2>3, RunCardinality DEF ExtraTold
  <2> QED BY <2>2, <2>4, <2>5
<1> QED BY <1>1, <1>2, <1>3

LEMMA RunStepKeeps == RunInv /\ [Run!RunNext]_runVars => RunInv'
<1> SUFFICES ASSUME RunInv, [Run!RunNext]_runVars PROVE RunInv'
    OBVIOUS
<1>1. CASE UNCHANGED runVars
    BY <1>1 DEF runVars, RunInv, OutcomeInv, Told, ListsInv, Run!pick_organize_files, ExtraTold,
                Run!Moved
<1> QED BY <1>1, SkipKeeps, ListingKeeps, PlanKeeps, OperateKeeps DEF Run!RunNext, Run!RunStep

\* The invariant says what the lists, the options and the result promise.
LEMMA RunInvSound == RunInv => Run!RunSound
<1> SUFFICES ASSUME RunInv PROVE Run!RunSound
    OBVIOUS
<1> USE DEF RunInv
<1>1. DOMAIN Told = 1 .. Len(Told) /\ Len(Told) \in Nat /\ Len(Told) <= 3
    BY DEF OutcomeInv
<1>2. ASSUME NEW f \in Run!Moved
      PROVE  plan # NoFiles /\ f \in DOMAIN plan /\ results # <<>>
    BY DEF Run!Moved, ListsInv
<1>3. Run!MovedAsListed
    BY <1>2 DEF Run!MovedAsListed, ListsInv, Run!pick_organize_files
<1>4. Run!MovedOnlyIfAsked
  <2>1. ASSUME Run!Moved # {}, NEW i \in DOMAIN Told, Told[i].status = "error"
        PROVE  Told[i].step = "organize"
    <3>1. i = 3 /\ i \in 1 .. Len(Told)
        BY <1>1, <1>2, <2>1 DEF ListsInv
    <3>2. Told[i].step = Run!Step[3]
        BY <3>1 DEF OutcomeInv
    <3> QED BY <3>2 DEF Run!Step
  <2>2. Run!Moved # {} => ~asked.dry_run /\ "organize" \notin asked.skip
      BY <1>2 DEF ListsInv
  <2> QED BY <2>1, <2>2 DEF Run!MovedOnlyIfAsked, Told
<1>5. Run!ToldTrue
  <2>1. {Told[i].step : i \in {j \in DOMAIN Told : Told[j].status # "skipped"}} = Ran(Told)
      BY DEF Ran
  <2>2. \A i \in DOMAIN Told :
           /\ Told[i].step = Run!Step[i]
           /\ Told[i].status = "skipped" <=> Run!Step[i] \in asked.skip
           /\ Told[i].status = "error" => i = Len(Told)
      BY <1>1, Zenon DEF OutcomeInv
  <2>3. step = "done" =>
           /\ outcome.success <=> \A i \in DOMAIN Told : Told[i].status # "error"
           /\ outcome.success <=> outcome.exit_code = 0
           /\ outcome.success => Len(Told) = 3
           /\ outcome.benchmark = IF asked.benchmark THEN Ran(Told) ELSE {}
      BY <1>1, Zenon DEF OutcomeInv
  <2>4. step = "done" /\ outcome.extra # <<>> =>
           /\ outcome.extra.moved = Run!Cardinality(Run!Moved)
           /\ outcome.extra.moved <= outcome.extra.total
           /\ plan # NoFiles => outcome.extra.total = Run!Cardinality(DOMAIN plan)
      BY RunCardinality DEF ExtraTold
  <2> QED BY <2>1, <2>2, <2>3, <2>4 DEF Run!ToldTrue, Told
<1> QED BY <1>3, <1>4, <1>5 DEF Run!RunSound

\* Whatever steps of a run are skipped or fail, and whatever files disappear
\* meanwhile: files are moved as the last list says and only in a run that is
\* to move any, and what the run says of its steps and files is so.
THEOREM RunSoundAlways == ServicesSpec => []RunSound
<1> DEFINE Inv == part = "run" => RunInv
<1>1. ServicesInit => Inv
    BY RunInitially DEF ServicesInit
<1>2. Inv /\ [ServicesNext]_servicesVars => Inv'
  <2> SUFFICES ASSUME Inv, [ServicesNext]_servicesVars, (part = "run")' PROVE RunInv'
      OBVIOUS
  <2>1. part = "run" /\ [Run!RunNext]_runVars
      BY DEF ServicesNext, Of, servicesVars
  <2> QED BY <2>1, RunStepKeeps
<1>3. Inv => RunSound
    BY RunInvSound DEF RunSound
<1> QED BY <1>1, <1>2, <1>3, PTL DEF ServicesSpec

-----------------------------------------------------------------------------
(* The commands of the command line.                                         *)

Outputs == {<<>>, <<"success">>, <<"error">>, <<"text">>, <<"error", "text">>, <<"text", "text">>}

\* Nothing is written, moved or verified before the end, and what is written
\* then is of one piece.
CommandOutInv ==
    /\ call \in Cli!Calls /\ moved \in BOOLEAN /\ answer \in {"none", "yes", "no"}
    /\ stage # "exited" => out = <<>> /\ exit = 0 /\ ~moved /\ verified = <<>>
    /\ exit \in {0, 1} /\ out \in Outputs
    /\ stage = "exited" /\ exit = 0 => out = IF Cli!is_json_output THEN <<"success">> ELSE <<>>
    /\ exit = 1 => out # <<"success">>
    /\ Cli!VerifiedTrue

\* Who comes to the last stages of organize was asked, or need not be.
ConsentInv ==
    /\ Cli!MovedWithConsent
    /\ stage \in {"confirm", "execute"} =>
         /\ call.command = "organize" /\ ~call.dry_run
         /\ stage = "confirm" => ~call.yes /\ ~Cli!is_json_output
         /\ stage = "execute" => call.yes \/ call.json_option \/ answer = "yes"

CommandInv == CommandOutInv /\ ConsentInv

LEMMA CommandInitially == Cli!CommandInit => CommandInv
<1> SUFFICES ASSUME Cli!CommandInit PROVE CommandInv
    OBVIOUS
<1>1. call \in Cli!Calls /\ stage = "callback" /\ out = <<>> /\ answer = "none" /\ moved = FALSE
      /\ verified = <<>> /\ exit = 0
    BY DEF Cli!CommandInit
<1>2. CommandOutInv
    BY <1>1 DEF CommandOutInv, Outputs, Cli!VerifiedTrue
<1>3. ConsentInv
    BY <1>1 DEF ConsentInv, Cli!MovedWithConsent
<1> QED BY <1>2, <1>3 DEF CommandInv

\* A command goes on.
LEMMA GoToKeeps ==
    ASSUME CommandInv, NEW s, Cli!GoTo(s), stage # "exited", s # "exited",
           s = "body" => Cli!Consistent,
           s \in {"confirm", "execute"} =>
             /\ call.command = "organize" /\ ~call.dry_run
             /\ s = IF call.yes \/ Cli!is_json_output THEN "execute" ELSE "confirm"
    PROVE  CommandInv'
<1>1. CommandOutInv'
    BY DEF CommandInv, CommandOutInv, Cli!GoTo, Cli!VerifiedTrue, Cli!verification_status,
           Cli!is_json_output, Cli!Handled
<1>2. Cli!MovedWithConsent'
    BY DEF CommandInv, ConsentInv, Cli!GoTo, Cli!MovedWithConsent, Cli!Handled,
           Cli!is_json_output, Cli!Consistent, Cli!ensure_json_mode_consistency
<1>3. ConsentInv'
    BY <1>2 DEF CommandInv, ConsentInv, Cli!GoTo, Cli!Handled, Cli!is_json_output
<1> QED BY <1>1, <1>3 DEF CommandInv

\* A command ends well, or with an error that is told as its options ask.
LEMMA ExitKeeps ==
    ASSUME CommandInv, stage # "exited", stage' = "exited", UNCHANGED call,
           \/ exit' = 0 /\ out' = IF Cli!is_json_output THEN <<"success">> ELSE <<>>
           \/ exit' = 1 /\ out' \in Outputs \ {<<"success">>},
           answer' \in {"none", "yes", "no"},
           answer' # answer => ~Cli!is_json_output /\ ~call.yes,
           moved' \in BOOLEAN,
           moved' =>
             /\ call.command \in {"organize", "run"} /\ ~call.dry_run
             /\ call.command = "organize" =>
                  stage = "execute" /\ (call.yes \/ call.json_option \/ answer = "yes")
                  /\ answer' = answer,
           Cli!VerifiedTrue'
    PROVE  CommandInv'
<1>1. CommandOutInv'
    BY DEF CommandInv, CommandOutInv, Outputs, Cli!is_json_output, Cli!Handled
<1>2. Cli!MovedWithConsent'
    BY DEF CommandInv, ConsentInv, Cli!MovedWithConsent, Cli!Handled, Cli!is_json_output
<1> QED BY <1>1, <1>2 DEF CommandInv, ConsentInv

\* What an error writes, as the first thing.
LEMMA ErrorOutputs ==
    /\ Cli!LogSays(<<>>) \in Outputs \ {<<"success">>}
    /\ \A doc \in {"error", "text"} : Cli!LogSays(Append(<<>>, doc)) \in Outputs \ {<<"success">>}
<1>1. \A o : Cli!LogSays(o) \in {o, Append(o, "text")}
    BY DEF Cli!LogSays
<1>2. /\ Append(<<>>, "text") = <<"text">> /\ Append(<<>>, "error") = <<"error">>
      /\ Append(<<"text">>, "text") = <<"text", "text">>
      /\ Append(<<"error">>, "text") = <<"error", "text">>
  <2>1. Append(<<>>, "text") = <<"text">>
      OBVIOUS
  <2>2. Append(<<>>, "error") = <<"error">>
      OBVIOUS
  <2>3. ASSUME NEW a \in {"error", "text"} PROVE Append(<<a>>, "text") = <<a, "text">>
    <3>1. <<a>> \in Seq({"error", "text"}) /\ Len(<<a>>) = 1 /\ <<a>>[1] = a
        OBVIOUS
    <3> DEFINE s == <<a>>
               r == Append(s, "text")
    <3>2. r \in Seq({"error", "text"}) /\ Len(r) = 2 /\ r[1] = a /\ r[2] = "text"
      <4> HIDE DEF s
      <4> QED BY <3>1 DEF s
    <3> HIDE DEF r
    <3>3. r = <<a, "text">>
        BY <3>2
    <3> QED BY <3>3 DEF r, s
  <2> QED BY <2>1, <2>2, <2>3
<1>3. /\ <<>> # <<"success">> /\ <<"error">> # <<"success">> /\ <<"text">> # <<"success">>
      /\ <<"error", "text">> # <<"success">> /\ <<"text", "text">> # <<"success">>
  <2>1. Len(<<>>) = 0 /\ Len(<<"success">>) = 1 /\ Len(<<"error", "text">>) = 2
        /\ Len(<<"text", "text">>) = 2
      OBVIOUS
  <2>2. <<"error">>[1] = "error" /\ <<"text">>[1] = "text" /\ <<"success">>[1] = "success"
      OBVIOUS
  <2> QED BY <2>1, <2>2
<1>4. Cli!LogSays(<<>>) \in {<<>>, <<"text">>}
    BY <1>1, <1>2
<1>5. Cli!LogSays(Append(<<>>, "error")) \in {<<"error">>, <<"error", "text">>}
    BY <1>1, <1>2
<1>6. Cli!LogSays(Append(<<>>, "text")) \in {<<"text">>, <<"text", "text">>}
    BY <1>1, <1>2
<1> QED BY <1>3, <1>4, <1>5, <1>6 DEF Outputs

\* A handler succeeds, and verifies or moves nothing.
LEMMA SucceedKeeps ==
    ASSUME CommandInv, Cli!Succeed, stage # "exited", UNCHANGED <<call, verified>>,
           answer' \in {"none", "yes", "no"},
           answer' # answer => ~Cli!is_json_output /\ ~call.yes,
           moved' \in BOOLEAN,
           moved' =>
             /\ call.command \in {"organize", "run"} /\ ~call.dry_run
             /\ call.command = "organize" =>
                  stage = "execute" /\ (call.yes \/ call.json_option \/ answer = "yes")
                  /\ answer' = answer
    PROVE  CommandInv'
<1>1. out = <<>> /\ verified = <<>>
    BY DEF CommandInv, CommandOutInv
<1>2. exit' = 0 /\ out' = IF Cli!is_json_output THEN <<"success">> ELSE <<>>
    BY <1>1 DEF Cli!Succeed, Cli!Emit
<1>3. Cli!VerifiedTrue'
    BY <1>1 DEF Cli!VerifiedTrue
<1> QED BY <1>2, <1>3, ExitKeeps DEF Cli!Succeed

\* Something fails, before or in a handler.
LEMMA FailKeeps ==
    ASSUME CommandInv, stage # "exited", stage' = "exited", exit' = 1,
           out' \in Outputs \ {<<"success">>}, UNCHANGED <<call, answer, verified>>,
           moved' \in BOOLEAN,
           moved' =>
             /\ call.command \in {"organize", "run"} /\ ~call.dry_run
             /\ call.command = "organize" =>
                  stage = "execute" /\ (call.yes \/ call.json_option \/ answer = "yes")
    PROVE  CommandInv'
<1>1. Cli!VerifiedTrue'
    BY DEF CommandInv, CommandOutInv, Cli!VerifiedTrue
<1> QED BY <1>1, ExitKeeps DEF CommandInv, CommandOutInv

\* The use of handle_cli_errors, and what is raised outside of it.
LEMMA ErrorKeeps ==
    ASSUME CommandInv, stage # "exited", UNCHANGED <<call, answer, moved, verified>>,
           Cli!handle_cli_errors \/ Cli!Exits(out)
    PROVE  CommandInv'
<1>1. out = <<>> /\ moved = FALSE
    BY DEF CommandInv, CommandOutInv
<1>2. stage' = "exited" /\ exit' = 1 /\ out' \in Outputs \ {<<"success">>}
    BY <1>1, ErrorOutputs DEF Cli!handle_cli_errors, Cli!Exits
<1> QED BY <1>1, <1>2, FailKeeps

\* The stages before the handler.
LEMMA PreparingKeeps ==
    ASSUME CommandInv, Cli!main \/ Cli!MakeOptions \/ Cli!setup_handler \/ Cli!NotInjected
    PROVE  CommandInv'
<1>1. CASE Cli!main
  <2>1. CASE Cli!GoTo("options")
      BY <1>1, <2>1, GoToKeeps DEF Cli!main
  <2>2. CASE ~Cli!GoTo("options")
    <3>1. out = <<>> /\ moved = FALSE
        BY <1>1 DEF Cli!main, CommandInv, CommandOutInv
    <3>2. stage' = "exited" /\ exit' = 1 /\ out' \in {<<"error">>, <<>>}
          /\ UNCHANGED <<call, answer, moved, verified>> /\ stage # "exited"
        BY <1>1, <2>2, <3>1 DEF Cli!main
    <3>3. out' \in Outputs \ {<<"success">>} /\ moved' = FALSE
        BY <3>1, <3>2 DEF Outputs
    <3> QED BY <3>2, <3>3, FailKeeps
  <2> QED BY <2>1, <2>2
<1>2. CASE Cli!MakeOptions
  <2>1. CASE Cli!GoTo("setup")
      BY <1>2, <2>1, GoToKeeps DEF Cli!MakeOptions
  <2> QED BY <1>2, <2>1, ErrorKeeps DEF Cli!MakeOptions
<1>3. CASE Cli!setup_handler
  <2>1. CASE Cli!Consistent /\ Cli!GoTo("body")
      BY <1>3, <2>1, GoToKeeps DEF Cli!setup_handler
  <2> QED BY <1>3, <2>1, ErrorKeeps DEF Cli!setup_handler
<1>4. CASE Cli!NotInjected
    BY <1>4, ErrorKeeps DEF Cli!NotInjected
<1> QED BY <1>1, <1>2, <1>3, <1>4

\* scan, match and organize.
LEMMA WorkingKeeps ==
    ASSUME CommandInv,
           \/ Cli!HandleScan \/ Cli!Enriched \/ Cli!Saved \/ Cli!HandleMatch \/ Cli!SplitFails
           \/ Cli!HandleOrganize \/ Cli!Confirm \/ Cli!Execute
    PROVE  CommandInv'
<1>0. answer \in {"none", "yes", "no"} /\ (stage # "exited" => moved = FALSE)
    BY DEF CommandInv, CommandOutInv
<1>1. CASE Cli!HandleScan
  <2>1. CASE Cli!GoTo("enrich")
      BY <1>1, <2>1, GoToKeeps DEF Cli!HandleScan, Cli!Body
  <2>2. CASE Cli!Succeed /\ UNCHANGED <<call, answer, moved, verified, fault>>
    <3>1. stage # "exited"
        BY <1>1 DEF Cli!HandleScan, Cli!Body
    <3> QED BY <1>0, <2>2, <3>1, SucceedKeeps
  <2> QED BY <1>1, <2>1, <2>2 DEF Cli!HandleScan
<1>2. CASE Cli!Enriched
  <2>1. CASE Cli!GoTo("save")
      BY <1>2, <2>1, GoToKeeps DEF Cli!Enriched
  <2> QED BY <1>0, <1>2, <2>1, SucceedKeeps DEF Cli!Enriched
<1>3. CASE Cli!Saved \/ Cli!HandleMatch
  <2>1. stage # "exited" /\ Cli!Succeed /\ UNCHANGED <<call, answer, moved, verified, fault>>
      BY <1>3 DEF Cli!Saved, Cli!HandleMatch, Cli!Body
  <2> QED BY <1>0, <2>1, SucceedKeeps
<1>4. CASE Cli!SplitFails
    BY <1>4, ErrorKeeps DEF Cli!SplitFails, Cli!Body
<1>5. CASE Cli!HandleOrganize
  <2>1. call.command = "organize" /\ stage = "body"
      BY <1>5 DEF Cli!HandleOrganize, Cli!Body
  <2>2. CASE Cli!Succeed /\ UNCHANGED <<call, answer, moved, verified, fault>>
      BY <1>0, <2>1, <2>2, SucceedKeeps
  <2>3. CASE ~call.dry_run /\ Cli!GoTo(IF call.yes \/ Cli!is_json_output THEN "execute" ELSE "confirm")
      BY <2>1, <2>3, GoToKeeps
  <2> QED BY <1>5, <2>2, <2>3 DEF Cli!HandleOrganize
<1>6. CASE Cli!Confirm
  <2>1. stage = "confirm" /\ ~call.yes /\ ~Cli!is_json_output /\ call.command = "organize"
        /\ ~call.dry_run /\ UNCHANGED <<call, moved, verified, fault>>
      BY <1>6 DEF Cli!Confirm, CommandInv, ConsentInv
  <2>2. CASE answer' = "no" /\ Cli!Succeed
      BY <1>0, <2>1, <2>2, SucceedKeeps
  <2>3. CASE answer' = "yes" /\ stage' = "execute" /\ UNCHANGED <<out, exit>>
    <3>1. CommandOutInv'
        BY <2>1, <2>3 DEF CommandInv, CommandOutInv, Cli!VerifiedTrue, Cli!verification_status,
                          Cli!is_json_output, Cli!Handled
    <3>2. ConsentInv'
        BY <1>0, <2>1, <2>3 DEF CommandInv, ConsentInv, Cli!MovedWithConsent, Cli!Handled,
                           Cli!is_json_output
    <3> QED BY <3>1, <3>2 DEF CommandInv
  <2> QED BY <1>6, <2>2, <2>3 DEF Cli!Confirm
<1>7. CASE Cli!Execute
  <2>1. stage = "execute" /\ call.command = "organize" /\ ~call.dry_run
        /\ (call.yes \/ call.json_option \/ answer = "yes")
      BY <1>7 DEF Cli!Execute, CommandInv, ConsentInv
  <2>2. moved' \in BOOLEAN /\ Cli!Succeed /\ UNCHANGED <<call, answer, verified, fault>>
      BY <1>7 DEF Cli!Execute
  <2> QED BY <1>0, <2>1, <2>2, SucceedKeeps
<1> QED BY <1>1, <1>2, <1>3, <1>4, <1>5, <1>6, <1>7

\* The status of all components is that of the worst.
LEMMA VerifyAllKeeps ==
    ASSUME NEW well \in [{"tmdb_api", "settings", "cache"} -> BOOLEAN],
           verified' = Cli!verify_all(well)
    PROVE  Cli!VerifiedTrue'
<1> DEFINE Components == {"tmdb_api", "settings", "cache"}
<1>1. /\ DOMAIN verified' = Components \cup {"all_components"}
      /\ \A c \in Components : verified'[c] = well[c]
      /\ verified'["all_components"] = \A d \in Components : well[d]
    BY DEF Cli!verify_all
<1>2. verified' # <<>>
    BY <1>1
<1>3. (\E c \in DOMAIN verified' : ~verified'[c]) <=> \E c \in Components : ~verified'[c]
    BY <1>1, Zenon
<1> QED BY <1>1, <1>2, <1>3 DEF Cli!VerifiedTrue, Cli!verification_status

\* run, verify and log, and a call that fails.
LEMMA OtherKeeps ==
    ASSUME CommandInv,
           Cli!HandleRun \/ Cli!HandleVerify \/ Cli!VerifyFails \/ Cli!HandleLog \/ Cli!CallFails
    PROVE  CommandInv'
<1>0. answer \in {"none", "yes", "no"} /\ call \in Cli!Calls
      /\ (stage # "exited" => out = <<>> /\ moved = FALSE)
    BY DEF CommandInv, CommandOutInv
<1>1. ASSUME stage # "exited", Cli!Emit("error")
      PROVE  out' \in Outputs \ {<<"success">>}
    BY <1>0, <1>1 DEF Cli!Emit, Outputs
<1>2. CASE Cli!HandleRun
  <2>1. stage = "body" /\ call.command = "run" /\ moved' \in BOOLEAN /\ (moved' => ~call.dry_run)
        /\ UNCHANGED <<call, answer, verified>>
      BY <1>2 DEF Cli!HandleRun, Cli!Body
  <2>2. CASE Cli!Succeed
      BY <1>0, <2>1, <2>2, SucceedKeeps
  <2> QED BY <1>1, <1>2, <2>1, <2>2, FailKeeps DEF Cli!HandleRun
<1>3. CASE Cli!HandleVerify
  <2>1. stage = "body" /\ Cli!Succeed /\ UNCHANGED <<call, answer, moved, fault>>
      BY <1>3 DEF Cli!HandleVerify, Cli!Body
  <2>2. exit' = 0 /\ stage' = "exited"
        /\ out' = IF Cli!is_json_output THEN <<"success">> ELSE <<>>
      BY <1>0, <2>1 DEF Cli!Succeed, Cli!Emit
  <2>3. CASE UNCHANGED verified
      BY <1>0, <2>1, <2>3, SucceedKeeps
  <2>4. CASE \E well \in [{"tmdb_api", "settings", "cache"} -> BOOLEAN] :
                verified' = Cli!verify_all(well)
      BY <1>0, <2>1, <2>2, <2>4, VerifyAllKeeps, ExitKeeps
  <2>5. CASE verified' = [c \in {"tmdb_api"} |-> TRUE]
    <3>1. Cli!VerifiedTrue'
        BY <2>5 DEF Cli!VerifiedTrue, Cli!verification_status
    <3> QED BY <1>0, <2>1, <2>2, <3>1, ExitKeeps
  <2> QED BY <1>3, <2>3, <2>4, <2>5 DEF Cli!HandleVerify
<1>4. CASE Cli!VerifyFails
    BY <1>0, <1>1, <1>4, FailKeeps DEF Cli!VerifyFails, Cli!Body
<1>5. CASE Cli!HandleLog
  <2>1. stage = "body" /\ UNCHANGED <<call, answer, moved, verified>>
      BY <1>5 DEF Cli!HandleLog, Cli!Body
  <2>2. CASE Cli!Succeed
      BY <1>0, <2>1, <2>2, SucceedKeeps
  <2>3. CASE Cli!Exits(out)
      BY <2>1, <2>3, ErrorKeeps
  <2>4. CASE Cli!Exits(IF Cli!is_json_output THEN Append(out, "error") ELSE out)
      BY <1>0, <2>1, <2>4, ErrorOutputs, FailKeeps DEF Cli!Exits
  <2> QED BY <1>5, <2>2, <2>3, <2>4 DEF Cli!HandleLog
<1>6. CASE Cli!CallFails
  <2>1. PICK stages \in {{"body"}, {"enrich", "save"}, {"execute"}} : Cli!Fails(stages)
      BY <1>6 DEF Cli!CallFails
  <2>2. stage \in {"body", "enrich", "save", "execute"} /\ Cli!handle_cli_errors
        /\ UNCHANGED <<call, answer, verified>>
      BY <2>1 DEF Cli!Fails
  <2>3. UNCHANGED moved \/ (stage = "execute" /\ moved' \in BOOLEAN)
      BY <1>6 DEF Cli!CallFails, Cli!Fails
  <2>4. stage = "execute" => call.command = "organize" /\ ~call.dry_run
                             /\ (call.yes \/ call.json_option \/ answer = "yes")
      BY DEF CommandInv, ConsentInv
  <2>5. stage' = "exited" /\ exit' = 1 /\ out' \in Outputs \ {<<"success">>}
      BY <1>0, <2>2, ErrorOutputs DEF Cli!handle_cli_errors, Cli!Exits
  <2>6. moved' \in BOOLEAN /\ (moved' => stage = "execute")
    <3>1. stage # "exited"
        BY <2>2
    <3>2. CASE UNCHANGED moved
      <4>1. moved' = FALSE
          BY <1>0, <3>1, <3>2, Zenon
      <4> QED BY <4>1
    <3> QED BY <2>3, <3>2
  <2> QED BY <2>2, <2>4, <2>5, <2>6, FailKeeps
<1> QED BY <1>2, <1>3, <1>4, <1>5, <1>6

LEMMA CommandStepKeeps == CommandInv /\ [Cli!CommandNext]_commandVars => CommandInv'
<1> SUFFICES ASSUME CommandInv, [Cli!CommandNext]_commandVars PROVE CommandInv'
    OBVIOUS
<1>1. CASE UNCHANGED commandVars
    BY <1>1 DEF commandVars, CommandInv, CommandOutInv, ConsentInv, Cli!VerifiedTrue,
                Cli!verification_status, Cli!MovedWithConsent, Cli!is_json_output, Cli!Handled
<1> QED BY <1>1, PreparingKeeps, WorkingKeeps, OtherKeeps DEF Cli!CommandNext

\* The invariant says what a caller of the program relies on.
LEMMA CommandInvSound == CommandInv => Cli!CommandsSound
<1> SUFFICES ASSUME CommandInv PROVE Cli!CommandsSound
    OBVIOUS
<1>1. Cli!MovedWithConsent /\ Cli!VerifiedTrue
    BY DEF CommandInv, CommandOutInv, ConsentInv
<1>2. \A i, j \in Cli!Documents : i = j
    BY DEF CommandInv, CommandOutInv, Outputs, Cli!Documents
<1>3. ASSUME stage = "exited", exit = 0 PROVE "error" \notin Cli!ToSet(out)
    BY <1>3 DEF CommandInv, CommandOutInv, Cli!ToSet
<1>4. ASSUME stage = "exited", exit = 1 PROVE "success" \notin Cli!ToSet(out)
    BY <1>4 DEF CommandInv, CommandOutInv, Outputs, Cli!ToSet
<1>5. ASSUME stage = "exited", exit = 0, Cli!is_json_output
      PROVE  \E i \in Cli!Documents : out[i] = "success"
  <2>1. out = <<"success">>
      BY <1>5 DEF CommandInv, CommandOutInv
  <2>2. 1 \in Cli!Documents /\ out[1] = "success"
      BY <2>1 DEF Cli!Documents
  <2> QED BY <2>2
<1> QED BY <1>1, <1>2, <1>3, <1>4, <1>5 DEF Cli!CommandsSound, Cli!OneDocument

\* Wherever a command fails: it writes one JSON document at most, one that
\* agrees with its exit code, it moves nothing the user did not agree to, and it
\* tells the worst of what it verified.
THEOREM CommandsSoundAlways == ServicesSpec => []CommandsSound
<1> DEFINE Inv == part = "commands" => CommandInv
<1>1. ServicesInit => Inv
    BY CommandInitially DEF ServicesInit
<1>2. Inv /\ [ServicesNext]_servicesVars => Inv'
  <2> SUFFICES ASSUME Inv, [ServicesNext]_servicesVars, (part = "commands")' PROVE CommandInv'
      OBVIOUS
  <2>1. part = "commands" /\ [Cli!CommandNext]_commandVars
      BY DEF ServicesNext, Of, servicesVars
  <2> QED BY <2>1, CommandStepKeeps
<1>3. Inv => CommandsSound
    BY CommandInvSound DEF CommandsSound
<1> QED BY <1>1, <1>2, <1>3, PTL DEF ServicesSpec

-----------------------------------------------------------------------------
(* The parallel scanners.                                                    *)

AllFiles == RootFiles \cup UNION {FilesOf[d] : d \in Dirs}

InQueue == Par!Range(put)

\* The directories whose files went to the queue.
Taken == {d \in Dirs : job[d] = "taken"}

ParallelTypes ==
    /\ kind \in {"parallel", "directory"}
    /\ at \in {"start", "put", "update", "increment_files", "increment_directories", "next",
               "await", "leave_pool", "sentinel", "done"}
    /\ dirs \subseteq Dirs
    /\ job \in [Dirs -> {"none", "pending", "running", "done", "taken", "cancelled"}]
    /\ found \in [Dirs -> SUBSET AllFiles] /\ \A d \in Dirs : found[d] \subseteq FilesOf[d]
    /\ batch \subseteq AllFiles
    /\ counts \in [files : Nat, dirs : {0, 1}] /\ stats \in [files : Nat, dirs : Nat]
    /\ put \in Seq(AllFiles \cup {SENTINEL})
    /\ stop \in BOOLEAN /\ broke \in BOOLEAN

\* A file is in the queue, in the batch or below a directory not dealt with.
PutOnce ==
    /\ Par!IsInjective(put)
    /\ SENTINEL \in InQueue => at = "done" /\ put[Len(put)] = SENTINEL
    /\ batch \cap InQueue = {}
    /\ at # "put" => batch = {}
    /\ at = "start" => InQueue = {} /\ \A d \in Dirs : job[d] = "none"
    /\ \A d \in Dirs \ Taken : FilesOf[d] \cap (InQueue \cup batch) = {}

\* What is put but not yet in the statistics.
UncountedFiles ==
    IF at \in {"put", "update", "increment_files"} THEN counts.files ELSE 0
UncountedDirs ==
    IF at \in {"put", "update", "increment_files", "increment_directories"} THEN counts.dirs ELSE 0

CountsTrue ==
    /\ IsFiniteSet(Par!Queued)
    /\ stats.files + UncountedFiles <= Cardinality(Par!Queued)
    /\ kind = "directory" => stats.files + UncountedFiles = Cardinality(Par!Queued)
    /\ stats.dirs + UncountedDirs <= Cardinality(Taken) + (IF at = "start" THEN 0 ELSE 1)

\* As long as nothing goes wrong, what can be read is queued or still to come.
NothingLeft ==
    /\ at # "start" /\ Par!Few => \A d \in Dirs : job[d] \in {"none", "taken"}
    /\ ~stop /\ lost = {} /\ ~broke /\ at # "start" =>
         /\ RootFiles \subseteq InQueue \cup batch
         /\ Dirs \ dirs \subseteq unread
         /\ \A d \in dirs :
              /\ job[d] # "cancelled"
              /\ job[d] = "done" /\ d \notin unread => found[d] = FilesOf[d]
              /\ job[d] = "taken" /\ d \notin unread => FilesOf[d] \subseteq InQueue \cup batch
              /\ at = "await" => job[d] # "none"
              /\ at \in {"leave_pool", "sentinel", "done"} => job[d] = "taken"

ParallelInv == ParallelTypes /\ PutOnce /\ CountsTrue /\ NothingLeft

\* ParallelScan counts as the theorems about finite sets do.
LEMMA ParallelCardinality == \A S : Par!Cardinality(S) = Cardinality(S)
BY DEF Par!Cardinality, Cardinality

\* What is put comes last and makes the queue longer by itself.
LEMMA PutAppended ==
    ASSUME NEW S, put \in Seq(S), NEW f \in S, put' = Append(put, f)
    PROVE  /\ put' \in Seq(S) /\ InQueue' = InQueue \cup {f}
           /\ put'[Len(put')] = f
           /\ Par!IsInjective(put) /\ f \notin InQueue => Par!IsInjective(put)'
<1>1. /\ Len(put) \in Nat /\ Len(put') = Len(put) + 1 /\ put' \in Seq(S)
      /\ DOMAIN put = 1 .. Len(put) /\ DOMAIN put' = 1 .. Len(put) + 1
      /\ \A i \in DOMAIN put : put'[i] = put[i]
      /\ put'[Len(put) + 1] = f
    OBVIOUS
<1>2. DOMAIN put' = DOMAIN put \cup {Len(put) + 1}
    BY <1>1
<1>3. InQueue' = InQueue \cup {f}
    BY <1>1, <1>2 DEF InQueue, Par!Range
<1>4. ASSUME Par!IsInjective(put), f \notin InQueue PROVE Par!IsInjective(put)'
  <2> SUFFICES ASSUME NEW i \in DOMAIN put', NEW j \in DOMAIN put', put'[i] = put'[j]
               PROVE  i = j
      BY DEF Par!IsInjective
  <2>1. \A k \in DOMAIN put : put[k] # f
      BY <1>4 DEF InQueue, Par!Range
  <2> QED BY <1>1, <1>2, <1>4, <2>1 DEF Par!IsInjective
<1> QED BY <1>1, <1>3, <1>4

LEMMA TakenFinite == IsFiniteSet(Taken) /\ Cardinality(Taken) \in 0 .. Cardinality(Dirs)
<1>1. Taken \subseteq Dirs
    BY DEF Taken
<1> QED BY <1>1, ParallelAssumption, FS_Subset, FS_CardinalityType

\* Dealing with a directory.
LEMMA JobTaken ==
    ASSUME ParallelTypes, NEW d \in Dirs, job[d] # "taken",
           job' = [job EXCEPT ![d] = "taken"]
    PROVE  Taken' = Taken \cup {d} /\ Cardinality(Taken') = Cardinality(Taken) + 1
<1>1. Taken' = Taken \cup {d} /\ d \notin Taken
    BY DEF ParallelTypes, Taken
<1>2. Cardinality(Taken \cup {d}) = Cardinality(Taken) + 1
    BY <1>1, TakenFinite, FS_AddElement
<1> QED BY <1>1, <1>2

LEMMA ParallelInitially == Par!ParallelInit => ParallelInv
<1> SUFFICES ASSUME Par!ParallelInit PROVE ParallelInv
    OBVIOUS
<1> USE DEF Par!ParallelInit
<1>1. ParallelTypes
  <2>1. counts \in [files : Nat, dirs : {0, 1}] /\ stats \in [files : Nat, dirs : Nat]
      OBVIOUS
  <2>2. put \in Seq(AllFiles \cup {SENTINEL})
      OBVIOUS
  <2> QED BY <2>1, <2>2 DEF ParallelTypes
<1>2. InQueue = {} /\ Par!Queued = {}
    BY DEF InQueue, Par!Range, Par!Queued
<1>3. PutOnce
    BY <1>2 DEF PutOnce, Par!IsInjective
<1>4. CountsTrue
  <2>1. Taken = {}
      BY DEF Taken
  <2> QED BY <1>2, <2>1, FS_EmptySet DEF CountsTrue, UncountedFiles, UncountedDirs
<1> QED BY <1>1, <1>3, <1>4 DEF ParallelInv, NothingLeft

LEMMA ListRootKeeps == ParallelInv /\ Par!ListRoot => ParallelInv'
<1> SUFFICES ASSUME ParallelInv, Par!ListRoot PROVE ParallelInv'
    OBVIOUS
<1> USE DEF ParallelInv, Par!ListRoot, Par!poolVars, Par!lockVars
<1>1. ParallelTypes'
  <2>1. CASE at' = "put"
    <3>1. counts' = [files |-> 0, dirs |-> 1] /\ dirs' \subseteq Dirs /\ batch' \subseteq AllFiles
          /\ broke' \in BOOLEAN
        BY <2>1 DEF AllFiles, Par!ListedDirs, Par!ListedFiles
    <3> QED BY <2>1, <3>1 DEF ParallelTypes
  <2>2. CASE at' = "sentinel"
      BY <2>2 DEF ParallelTypes
  <2> QED BY <2>1, <2>2
<1>2. InQueue' = InQueue /\ InQueue = {} /\ Par!Queued' = Par!Queued /\ Taken' = Taken
    BY DEF InQueue, Par!Queued, Par!Range, Taken, PutOnce
<1>3. PutOnce'
    BY <1>2, ParallelAssumption DEF PutOnce, Par!ListedFiles, Par!IsInjective
<1>4. CountsTrue'
    BY <1>2, TakenFinite DEF CountsTrue, UncountedFiles, UncountedDirs, ParallelTypes
<1>5. NothingLeft'
  <2>1. at = "start" /\ at' \in {"put", "sentinel"} /\ \A d \in Dirs : job'[d] = "none"
      BY DEF PutOnce
  <2>2. ~broke' => at' = "put" /\ batch' = RootFiles /\ unread' = Dirs \ dirs'
      OBVIOUS
  <2>3. dirs' \subseteq Dirs
      BY <1>1 DEF ParallelTypes
  <2>4. Dirs \ dirs' \subseteq unread' \/ broke'
      BY <2>2
  <2>5. at' = "put" \/ broke'
      BY <2>2
  <2> HIDE DEF Par!ListRoot
  <2> QED BY <2>1, <2>2, <2>3, <2>4, <2>5 DEF NothingLeft
<1> QED BY <1>1, <1>3, <1>4, <1>5

LEMMA PutFileKeeps == ParallelInv /\ Par!PutFile => ParallelInv'
<1> SUFFICES ASSUME ParallelInv, Par!PutFile PROVE ParallelInv'
    OBVIOUS
<1> USE DEF ParallelInv, Par!PutFile, Par!poolVars, Par!lockVars, Par!pastVars
<1>1. PICK f \in batch : put' = Append(put, f) /\ batch' = batch \ {f}
    OBVIOUS
<1>2. f \in AllFiles /\ f \notin InQueue /\ f # SENTINEL
    BY ParallelAssumption DEF PutOnce, ParallelTypes, AllFiles
<1>3. /\ put' \in Seq(AllFiles \cup {SENTINEL}) /\ InQueue' = InQueue \cup {f}
      /\ Par!IsInjective(put) => Par!IsInjective(put)'
    BY <1>1, <1>2, PutAppended DEF ParallelTypes
<1>4. Taken' = Taken
    BY DEF Taken
<1>5. ParallelTypes'
    BY <1>1, <1>3 DEF ParallelTypes
<1>6. PutOnce'
    BY <1>1, <1>2, <1>3, <1>4 DEF PutOnce
<1>7. CountsTrue'
  <2>1. Par!Queued' = Par!Queued \cup {f} /\ f \notin Par!Queued
      BY <1>2, <1>3 DEF InQueue, Par!Queued
  <2>2. /\ IsFiniteSet(Par!Queued') /\ Cardinality(Par!Queued) \in Nat
        /\ Cardinality(Par!Queued') = Cardinality(Par!Queued) + 1
      BY <2>1, FS_AddElement, FS_CardinalityType DEF CountsTrue
  <2>3. /\ UncountedFiles' = UncountedFiles + 1 /\ UncountedFiles \in Nat
        /\ UncountedDirs' = UncountedDirs /\ stats' = stats /\ stats.files \in Nat
      BY DEF UncountedFiles, UncountedDirs, ParallelTypes
  <2>4. at' = at /\ kind' = kind
      OBVIOUS
  <2> HIDE DEF Par!PutFile
  <2> QED BY <1>4, <2>2, <2>3, <2>4 DEF CountsTrue
<1>8. NothingLeft'
    BY <1>1, <1>3 DEF NothingLeft, Par!Few
<1> QED BY <1>5, <1>6, <1>7, <1>8

\* The end of a batch, timed out or not.
LEMMA PutEndsKeeps == ParallelInv /\ (Par!PutTimesOut \/ Par!PutEnds) => ParallelInv'
<1> SUFFICES ASSUME ParallelInv, Par!PutTimesOut \/ Par!PutEnds PROVE ParallelInv'
    OBVIOUS
<1> USE DEF ParallelInv, Par!PutTimesOut, Par!PutEnds, Par!Unwind, Par!poolVars,
            Par!lockVars, Par!pastVars
<1>1. ParallelTypes'
    BY DEF ParallelTypes
<1>2. InQueue' = InQueue /\ Par!Queued' = Par!Queued /\ Taken' = Taken /\ batch' \subseteq batch
    BY DEF InQueue, Par!Queued, Par!Range, Taken
<1>3. PutOnce'
    BY <1>2 DEF PutOnce, Par!IsInjective
<1>4. CountsTrue'
  <2>1. Cardinality(Par!Queued) \in Nat
      BY FS_CardinalityType DEF CountsTrue
  <2> QED BY <1>2, <2>1, TakenFinite DEF CountsTrue, UncountedFiles, UncountedDirs, ParallelTypes
<1>5. NothingLeft'
    BY <1>2 DEF NothingLeft, Par!Few, ParallelTypes
<1> QED BY <1>1, <1>3, <1>4, <1>5

LEMMA UpdateStatsKeeps ==
    ASSUME ParallelInv, Par!TakeLock \/ Par!increment_files \/ Par!increment_directories
    PROVE  ParallelInv'
<1> USE DEF ParallelInv, Par!TakeLock, Par!increment_files, Par!increment_directories,
            Par!poolVars, Par!pastVars
<1>1. ParallelTypes'
    BY DEF ParallelTypes
<1>2. InQueue' = InQueue /\ Par!Queued' = Par!Queued /\ Taken' = Taken
    BY DEF InQueue, Par!Queued, Par!Range, Taken
<1>3. PutOnce'
    BY <1>2 DEF PutOnce, Par!IsInjective
<1>4. CountsTrue'
  <2>1. Cardinality(Par!Queued) \in Nat
      BY FS_CardinalityType DEF CountsTrue
  <2> QED BY <1>2, <2>1, TakenFinite DEF CountsTrue, UncountedFiles, UncountedDirs, ParallelTypes
<1>5. NothingLeft'
    BY <1>2 DEF NothingLeft, Par!Few, ParallelTypes
<1> QED BY <1>1, <1>3, <1>4, <1>5

LEMMA ReadNextKeeps == ParallelInv /\ Par!ReadNext => ParallelInv'
<1> SUFFICES ASSUME ParallelInv, Par!ReadNext PROVE ParallelInv'
    OBVIOUS
<1> USE DEF ParallelInv, Par!ReadNext, Par!lockVars
<1>0. PICK d \in Par!Remaining : \E read \in SUBSET FilesOf[d] :
        /\ Par!Reads(d, read) /\ job' = [job EXCEPT ![d] = "taken"] /\ batch' = read
        /\ counts' = [files |-> 0, dirs |-> IF unread' = unread THEN 1 ELSE 0]
    OBVIOUS
<1>1. PICK read \in SUBSET FilesOf[d] :
        /\ Par!Reads(d, read) /\ job' = [job EXCEPT ![d] = "taken"] /\ batch' = read
        /\ counts' = [files |-> 0, dirs |-> IF unread' = unread THEN 1 ELSE 0]
    BY <1>0
<1>2. d \in Dirs /\ d \in dirs /\ job[d] = "none" /\ d \notin Taken
    BY <1>1 DEF Par!Remaining, ParallelTypes, Taken
<1>3. InQueue' = InQueue /\ Par!Queued' = Par!Queued /\ batch = {} /\ at = "next" /\ at' = "put"
    BY DEF InQueue, Par!Queued, Par!Range, PutOnce
<1>4. Taken' = Taken \cup {d} /\ Cardinality(Taken') = Cardinality(Taken) + 1
    BY <1>1, <1>2, JobTaken
<1>5. ParallelTypes'
    BY <1>1, <1>2 DEF ParallelTypes, AllFiles
<1>6. PutOnce'
  <2>1. FilesOf[d] \cap InQueue = {}
      BY <1>2 DEF PutOnce
  <2>2. \A e \in Dirs \ Taken' : FilesOf[e] \cap (InQueue' \cup batch') = {}
      BY <1>1, <1>2, <1>3, <1>4, ParallelAssumption DEF PutOnce
  <2> QED BY <1>1, <1>3, <2>1, <2>2 DEF PutOnce, Par!IsInjective
<1>7. CountsTrue'
    BY <1>1, <1>3, <1>4, TakenFinite DEF CountsTrue, UncountedFiles, UncountedDirs, ParallelTypes
<1>8. NothingLeft'
  <2>1. /\ \A e \in Dirs : e # d => job'[e] = job[e]
        /\ job'[d] = "taken" /\ found' = found /\ dirs' = dirs /\ unread \subseteq unread'
      BY <1>1, <1>2 DEF ParallelTypes, Par!Reads
  <2>2. d \notin unread' /\ ~stop => batch' = FilesOf[d]
      BY <1>1 DEF Par!Reads
  <2>3. (Par!Few)' => \A e \in Dirs : job'[e] \in {"none", "taken"}
      BY <1>3, <2>1 DEF NothingLeft, Par!Few
  <2> QED BY <1>3, <2>1, <2>2, <2>3 DEF NothingLeft, ParallelTypes
<1> QED BY <1>5, <1>6, <1>7, <1>8

\* Steps that change nothing but where the thread is and what the futures do.
LEMMA FuturesKeep ==
    ASSUME ParallelInv,
           \/ Par!Submit \/ Par!SubmitFails \/ Par!AllSubmitted
           \/ Par!AwaitStopped \/ Par!AllTaken \/ Par!LeavePool
    PROVE  ParallelInv'
<1> USE DEF ParallelInv, Par!Submit, Par!SubmitFails, Par!AllSubmitted, Par!AwaitStopped,
            Par!AllTaken, Par!LeavePool, Par!Unwind, Par!Remaining, Par!poolVars,
            Par!lockVars, Par!pastVars
<1>1. ParallelTypes'
    BY DEF ParallelTypes
<1>2. InQueue' = InQueue /\ Par!Queued' = Par!Queued /\ Taken' = Taken
    BY DEF InQueue, Par!Queued, Par!Range, Taken, ParallelTypes
<1>3. PutOnce'
    BY <1>2 DEF PutOnce, Par!IsInjective
<1>4. CountsTrue'
  <2>1. Cardinality(Par!Queued) \in Nat
      BY FS_CardinalityType DEF CountsTrue
  <2> QED BY <1>2, <2>1, TakenFinite DEF CountsTrue, UncountedFiles, UncountedDirs, ParallelTypes
<1>5. NothingLeft'
  <2>1. CASE Par!Submit
      BY <1>2, <2>1 DEF NothingLeft, Par!Few, ParallelTypes
  <2>2. CASE Par!SubmitFails
      BY <1>2, <2>2 DEF NothingLeft, Par!Few, ParallelTypes
  <2>3. CASE Par!AllSubmitted
      BY <1>2, <2>3 DEF NothingLeft, Par!Few, ParallelTypes
  <2>4. CASE Par!AwaitStopped
      BY <1>2, <2>4 DEF NothingLeft, Par!Few, ParallelTypes
  <2>5. CASE Par!AllTaken
      BY <1>2, <2>5 DEF NothingLeft, Par!Few, ParallelTypes
  <2>6. CASE Par!LeavePool
      BY <1>2, <2>6 DEF NothingLeft, Par!Few, ParallelTypes
  <2> QED BY <2>1, <2>2, <2>3, <2>4, <2>5, <2>6
<1> QED BY <1>1, <1>3, <1>4, <1>5

LEMMA PoolKeeps ==
    ASSUME ParallelInv, NEW d \in Dirs, Par!JobStarts(d) \/ Par!JobEnds(d)
    PROVE  ParallelInv'
<1> USE DEF ParallelInv, Par!JobStarts, Par!JobEnds, Par!lockVars, Par!pastVars
<1>1. ParallelTypes'
    BY DEF ParallelTypes, AllFiles
<1>2. InQueue' = InQueue /\ Par!Queued' = Par!Queued /\ Taken' = Taken
    BY DEF InQueue, Par!Queued, Par!Range, Taken, ParallelTypes
<1>3. PutOnce'
    BY <1>2 DEF PutOnce, Par!IsInjective, ParallelTypes
<1>4. CountsTrue'
    BY <1>2 DEF CountsTrue, UncountedFiles, UncountedDirs
<1>5. NothingLeft'
  <2>1. /\ \A e \in Dirs : e # d => job'[e] = job[e] /\ found'[e] = found[e]
        /\ job[d] \in {"pending", "running"} /\ job'[d] \in {"running", "done"}
        /\ at' = at /\ dirs' = dirs /\ batch' = batch /\ lost' = lost /\ broke' = broke
        /\ stop' = stop
      BY DEF ParallelTypes
  <2>2. /\ unread \subseteq unread'
        /\ job'[d] = "done" /\ d \notin unread' /\ ~stop => found'[d] = FilesOf[d]
      BY DEF Par!Reads, ParallelTypes
  <2>3. at # "start" /\ (Par!Few)' => FALSE
      BY <2>1 DEF NothingLeft, Par!Few
  <2> HIDE DEF Par!JobStarts, Par!JobEnds
  <2> QED BY <1>2, <2>1, <2>2, <2>3 DEF NothingLeft, ParallelTypes
<1> QED BY <1>1, <1>3, <1>4, <1>5

LEMMA TakeResultKeeps == ParallelInv /\ Par!TakeResult => ParallelInv'
<1> SUFFICES ASSUME ParallelInv, Par!TakeResult PROVE ParallelInv'
    OBVIOUS
<1> USE DEF ParallelInv, Par!TakeResult, Par!lockVars, Par!pastVars
<1>1. PICK d \in Dirs :
        /\ job[d] = "done" /\ job' = [job EXCEPT ![d] = "taken"] /\ batch' = found[d]
        /\ counts' = [files |-> 0, dirs |-> IF d \in unread THEN 0 ELSE 1]
    OBVIOUS
<1>2. d \notin Taken /\ found[d] \subseteq FilesOf[d]
    BY <1>1 DEF ParallelTypes, Taken
<1>3. InQueue' = InQueue /\ Par!Queued' = Par!Queued /\ batch = {} /\ at = "await" /\ at' = "put"
    BY DEF InQueue, Par!Queued, Par!Range, PutOnce
<1>4. Taken' = Taken \cup {d} /\ Cardinality(Taken') = Cardinality(Taken) + 1
    BY <1>1, JobTaken
<1>5. ParallelTypes'
    BY <1>1 DEF ParallelTypes
<1>6. PutOnce'
  <2>1. FilesOf[d] \cap InQueue = {}
      BY <1>2 DEF PutOnce
  <2>2. \A e \in Dirs \ Taken' : FilesOf[e] \cap (InQueue' \cup batch') = {}
      BY <1>1, <1>2, <1>3, <1>4, ParallelAssumption DEF PutOnce
  <2> QED BY <1>1, <1>2, <1>3, <2>1, <2>2 DEF PutOnce, Par!IsInjective
<1>7. CountsTrue'
    BY <1>1, <1>3, <1>4, TakenFinite DEF CountsTrue, UncountedFiles, UncountedDirs, ParallelTypes
<1>8. NothingLeft'
  <2>1. /\ \A e \in Dirs : e # d => job'[e] = job[e]
        /\ job'[d] = "taken" /\ found' = found /\ dirs' = dirs /\ unread' = unread
      BY <1>1 DEF ParallelTypes
  <2>2. (Par!Few)' => FALSE
      BY <1>1, <1>3 DEF NothingLeft, Par!Few
  <2> QED BY <1>1, <1>3, <2>1, <2>2 DEF NothingLeft, ParallelTypes
<1> QED BY <1>5, <1>6, <1>7, <1>8

LEMMA SentinelKeeps == ParallelInv /\ Par!PutSentinel => ParallelInv'
<1> SUFFICES ASSUME ParallelInv, Par!PutSentinel PROVE ParallelInv'
    OBVIOUS
<1> USE DEF ParallelInv, Par!PutSentinel, Par!poolVars, Par!lockVars, Par!pastVars
<1>1. /\ put' \in Seq(AllFiles \cup {SENTINEL}) /\ Par!IsInjective(put)'
      /\ \/ InQueue' = InQueue
         \/ InQueue' = InQueue \cup {SENTINEL} /\ put'[Len(put')] = SENTINEL
  <2>1. SENTINEL \notin InQueue
      BY DEF PutOnce
  <2>2. CASE put' = put
      BY <2>2 DEF PutOnce, ParallelTypes, InQueue, Par!Range, Par!IsInjective
  <2>3. CASE put' = Append(put, SENTINEL)
      BY <2>1, <2>3, PutAppended DEF PutOnce, ParallelTypes
  <2> QED BY <2>2, <2>3
<1>2. Par!Queued' = Par!Queued
    BY <1>1 DEF InQueue, Par!Queued
<1>3. Taken' = Taken
    BY DEF Taken
<1>4. ParallelTypes'
    BY <1>1 DEF ParallelTypes
<1>5. PutOnce'
  <2>1. SENTINEL \notin AllFiles
      BY ParallelAssumption DEF AllFiles
  <2>2. \A e \in Dirs : FilesOf[e] \subseteq AllFiles
      BY DEF AllFiles
  <2>3. SENTINEL \notin InQueue /\ batch = {}
      BY DEF PutOnce
  <2> QED BY <1>1, <1>3, <2>1, <2>2, <2>3 DEF PutOnce
<1>6. CountsTrue'
    BY <1>2, <1>3 DEF CountsTrue, UncountedFiles, UncountedDirs
<1>7. NothingLeft'
    BY <1>1 DEF NothingLeft, Par!Few
<1> QED BY <1>4, <1>5, <1>6, <1>7

LEMMA OthersKeep ==
    ASSUME ParallelInv, Par!Consume \/ Par!Stop \/ UNCHANGED parallelScanVars
    PROVE  ParallelInv'
<1> USE DEF ParallelInv, Par!Consume, Par!Stop, parallelScanVars, Par!poolVars, Par!lockVars,
            Par!pastVars
<1>1. ParallelTypes'
    BY DEF ParallelTypes
<1>2. InQueue' = InQueue /\ Par!Queued' = Par!Queued /\ Taken' = Taken
    BY DEF InQueue, Par!Queued, Par!Range, Taken
<1>3. PutOnce'
    BY <1>2 DEF PutOnce, Par!IsInjective
<1>4. CountsTrue'
    BY <1>2 DEF CountsTrue, UncountedFiles, UncountedDirs
<1>5. NothingLeft'
    BY <1>2 DEF NothingLeft, Par!Few
<1> QED BY <1>1, <1>3, <1>4, <1>5

LEMMA ParallelStep == ParallelInv /\ [Par!ParallelNext]_parallelScanVars => ParallelInv'
BY ListRootKeeps, PutFileKeeps, PutEndsKeeps, UpdateStatsKeeps, ReadNextKeeps, FuturesKeep,
   PoolKeeps, TakeResultKeeps, SentinelKeeps, OthersKeep
   DEF Par!ParallelNext, Par!ScannerThread, Par!PoolThread

LEMMA ParallelInvSound == ParallelInv => Par!ParallelSound
<1> SUFFICES ASSUME ParallelInv PROVE Par!ParallelSound
    OBVIOUS
<1> USE DEF ParallelInv
<1>1. Cardinality(Par!Queued) \in Nat /\ stats.files \in Nat /\ stats.dirs \in Nat
      /\ UncountedFiles \in Nat /\ UncountedDirs \in Nat
    BY FS_CardinalityType DEF CountsTrue, ParallelTypes, UncountedFiles, UncountedDirs
<1>2. /\ stats.files <= Cardinality(Par!Queued)
      /\ stats.dirs <= Cardinality(Dirs) + 1
      /\ at = "done" /\ kind = "directory" => stats.files = Cardinality(Par!Queued)
  <2>1. Cardinality(Dirs) \in Nat
      BY ParallelAssumption, FS_CardinalityType
  <2> QED BY <1>1, <2>1, TakenFinite DEF CountsTrue, UncountedFiles
<1>3. ASSUME at = "done", ~stop, lost = {}, ~broke PROVE Par!Readable \subseteq Par!Queued
  <2>1. batch = {}
      BY <1>3 DEF PutOnce
  <2>2. RootFiles \subseteq InQueue /\ \A d \in Dirs \ unread : FilesOf[d] \subseteq InQueue
      BY <1>3, <2>1 DEF NothingLeft
  <2>3. SENTINEL \notin Par!Readable
      BY ParallelAssumption DEF Par!Readable
  <2>4. Par!Readable \subseteq InQueue
      BY <2>2 DEF Par!Readable
  <2> QED BY <2>3, <2>4 DEF InQueue, Par!Queued
<1> QED BY <1>2, <1>3, ParallelCardinality DEF Par!ParallelSound, PutOnce, InQueue

\* Whichever thread of the pool comes first, whatever times out or cannot be
\* read and whenever the scan is stopped: no file reaches the parsers twice or
\* after the end mark, and the counts are those of the queue.
THEOREM ParallelSoundAlways == ServicesSpec => []ParallelSound
<1> DEFINE Inv == part = "parallel" => ParallelInv
<1>1. ServicesInit => Inv
    BY ParallelInitially DEF ServicesInit
<1>2. Inv /\ [ServicesNext]_servicesVars => Inv'
  <2> SUFFICES ASSUME Inv, [ServicesNext]_servicesVars, (part = "parallel")' PROVE ParallelInv'
      OBVIOUS
  <2>1. part = "parallel" /\ [Par!ParallelNext]_parallelScanVars
      BY DEF ServicesNext, Of, servicesVars
  <2> QED BY <2>1, ParallelStep
<1>3. Inv => ParallelSound
    BY ParallelInvSound DEF ParallelSound
<1> QED BY <1>1, <1>2, <1>3, PTL DEF ServicesSpec

-----------------------------------------------------------------------------
(* The searches at TMDB and the enricher.                                    *)

\* The folds of TmdbSearch and Enricher as those of FoldProofs.
ConvertedBy(p, ranked, raw) == Enr!Converted(ranked, raw)
Nothing(p) == <<>>
Conversions == INSTANCE FoldProofs WITH Op <- ConvertedBy, Base <- Nothing

CutBy(title, words, p) == Enr!Cut(words, p)
Uncut(title) == title
Cuts == INSTANCE FoldProofs WITH Op <- CutBy, Base <- Uncut

BetterFor(f, b, c) == Enr!Better(f, b, c)
Unmatched(f) == Enr!NoMatch
Ranking == INSTANCE FoldProofs WITH Op <- BetterFor, Base <- Unmatched

\* What TMDB knows of a query comes as a sequence.
LEMMA KnownTyped ==
    ASSUME NEW type \in {"tv", "movie"}, NEW query
    PROVE  Enr!KnownOf(type, query) \in Seq(Candidates)
<1>1. CASE query \notin DOMAIN Known[type]
    BY <1>1 DEF Enr!KnownOf
<1>2. CASE query \in DOMAIN Known[type]
  <2> DEFINE raw == Known[type][query]
             n == Len(raw)
  <2>1. raw \in Seq(Candidates) /\ n \in Nat
      BY <1>2, EnricherAssumption
  <2>2. Enr!KnownOf(type, query) = Conversions!Fold(0, raw)
      BY <1>2 DEF Enr!KnownOf, Conversions!Fold, Enr!FoldLeft, Enr!MapThenFoldSet, ConvertedBy, Nothing,
                  Enr!Max, Conversions!Greatest
  <2> HIDE DEF raw
  <2>3. PICK acc : /\ acc[0] = Nothing(0)
                   /\ \A k \in 1 .. n : acc[k] = ConvertedBy(0, acc[k - 1], raw[k])
                   /\ Conversions!Fold(0, raw) = acc[n]
      BY <2>1, Conversions!FoldUnfolds
  <2> DEFINE Bad == {k \in 0 .. n : acc[k] \notin Seq(Candidates)}
  <2>4. 0 \notin Bad
    <3>1. acc[0] = <<>>
        BY <2>3 DEF Nothing
    <3>2. acc[0] \in Seq(Candidates)
        BY <3>1
    <3> QED BY <3>2
  <2>5. \A k \in 1 .. n : k - 1 \notin Bad => k \notin Bad
    <3> SUFFICES ASSUME NEW k \in 1 .. n, k - 1 \notin Bad PROVE acc[k] \in Seq(Candidates)
        OBVIOUS
    <3>1. acc[k - 1] \in Seq(Candidates) /\ raw[k] \in Candidates
        BY <2>1
    <3>2. acc[k] = ConvertedBy(0, acc[k - 1], raw[k])
        BY <2>3
    <3> QED BY <3>1, <3>2 DEF ConvertedBy, Enr!Converted
  <2>6. n \notin Bad
      BY <2>1, <2>4, <2>5, Cuts!NoneFails
  <2> QED BY <2>1, <2>2, <2>3, <2>6
<1> QED BY <1>1, <1>2

\* The prefixes of a title are numbered from one.
LEMMA PrefixesTyped ==
    ASSUME NEW title \in Seq(DOMAIN Suffix)
    PROVE  /\ Len(Enr!TitlePrefixes(title)) \in Nat
           /\ DOMAIN Enr!TitlePrefixes(title) = 1 .. Len(Enr!TitlePrefixes(title))
<1> DEFINE patterns == [p \in 1 .. Patterns |-> p]
           base == Enr!BaseTitle(title)
<1>1. patterns \in Seq(1 .. Patterns) /\ Len(patterns) = Patterns /\ Patterns \in Nat
    BY EnricherAssumption
<1>2. base = Cuts!Fold(title, patterns)
    BY DEF Enr!BaseTitle, Cuts!Fold, Enr!FoldLeft, Enr!MapThenFoldSet, CutBy, Uncut, Enr!Max, Cuts!Greatest
<1> HIDE DEF patterns
<1>3. PICK acc : /\ acc[0] = Uncut(title)
                 /\ \A k \in 1 .. Len(patterns) :
                      acc[k] = CutBy(title, acc[k - 1], patterns[k])
                 /\ Cuts!Fold(title, patterns) = acc[Len(patterns)]
    BY <1>1, Cuts!FoldUnfolds
<1> DEFINE Bad == {k \in 0 .. Patterns : acc[k] \notin Seq(DOMAIN Suffix)}
<1>4. 0 \notin Bad
    BY <1>3 DEF Uncut
<1>5. \A k \in 1 .. Patterns : k - 1 \notin Bad => k \notin Bad
  <2> SUFFICES ASSUME NEW k \in 1 .. Patterns, k - 1 \notin Bad
               PROVE  acc[k] \in Seq(DOMAIN Suffix)
      OBVIOUS
  <2>1. acc[k - 1] \in Seq(DOMAIN Suffix)
      BY <1>1
  <2>2. acc[k] = CutBy(title, acc[k - 1], patterns[k])
      BY <1>1, <1>3
  <2> DEFINE words == acc[k - 1]
  <2>3. CASE Len(words) > 1
    <3>1. Enr!Front(words) = SubSeq(words, 1, Len(words) - 1)
        BY <2>1, <2>3 DEF Enr!Front
    <3>2. SubSeq(words, 1, Len(words) - 1) \in Seq(DOMAIN Suffix)
        BY <2>1, <2>3
    <3> QED BY <2>1, <2>2, <3>1, <3>2 DEF CutBy, Enr!Cut
  <2>4. CASE ~(Len(words) > 1)
      BY <2>1, <2>2, <2>4 DEF CutBy, Enr!Cut
  <2> QED BY <2>3, <2>4
<1>6. base \in Seq(DOMAIN Suffix)
  <2>1. Patterns \notin Bad
      BY <1>1, <1>4, <1>5, Cuts!NoneFails
  <2> QED BY <1>1, <1>2, <1>3, <2>1
<1> HIDE DEF base
<1>7. CASE Len(base) <= 1
  <2>1. Enr!TitlePrefixes(title) = <<>>
      BY <1>7 DEF Enr!TitlePrefixes, base
  <2> QED BY <2>1
<1>8. CASE ~(Len(base) <= 1)
  <2> DEFINE prefixes == [n \in 1 .. Len(base) |-> SubSeq(base, 1, n)]
  <2>1. Enr!TitlePrefixes(title) = prefixes
      BY <1>6, <1>8 DEF Enr!TitlePrefixes, base
  <2>2. Len(base) \in Nat
      BY <1>6
  <2>3. Len(prefixes) = Len(base) /\ DOMAIN prefixes = 1 .. Len(base)
      BY <2>2
  <2> QED BY <2>1, <2>2, <2>3
<1> QED BY <1>7, <1>8

\* The results of request n of a title, for a kind and for both.
OfKind(title, failed, n, type) ==
    IF <<n, type>> \in failed THEN <<>>
    ELSE Enr!KnownOf(type, IF n = 0 THEN title ELSE Enr!TitlePrefixes(title)[n])
OfBoth(title, failed, n) ==
    OfKind(title, failed, n, "tv") \o OfKind(title, failed, n, "movie")

LEMMA OfTyped ==
    ASSUME NEW title, NEW failed, NEW n
    PROVE  /\ OfKind(title, failed, n, "tv") \in Seq(Candidates)
           /\ OfKind(title, failed, n, "movie") \in Seq(Candidates)
           /\ OfBoth(title, failed, n) \in Seq(Candidates)
<1>1. \A type \in {"tv", "movie"} : OfKind(title, failed, n, type) \in Seq(Candidates)
    BY KnownTyped DEF OfKind
<1> QED BY <1>1 DEF OfBoth

\* Found in terms of them.
KnownPrefixes(title, failed) ==
    {n \in DOMAIN Enr!TitlePrefixes(title) : \A k \in 1 .. n : OfBoth(title, failed, k) # <<>>}
LEMMA FoundIs ==
    ASSUME NEW title, NEW failed
    PROVE  Enr!Found(title, failed) =
             IF OfBoth(title, failed, 0) # <<>> THEN OfBoth(title, failed, 0)
             ELSE IF KnownPrefixes(title, failed) = {} THEN <<>>
             ELSE OfBoth(title, failed, Enr!Max(KnownPrefixes(title, failed)))
BY DEF Enr!Found, OfKind, OfBoth, KnownPrefixes

\* The search ends at the last prefix before one that is not known.
LEMMA FoundAt ==
    ASSUME NEW title \in Seq(DOMAIN Suffix), NEW failed, OfBoth(title, failed, 0) = <<>>,
           NEW j \in 0 .. Len(Enr!TitlePrefixes(title)),
           \A k \in 1 .. j : OfBoth(title, failed, k) # <<>>,
           j = Len(Enr!TitlePrefixes(title)) \/ OfBoth(title, failed, j + 1) = <<>>
    PROVE  Enr!Found(title, failed) = IF j = 0 THEN <<>> ELSE OfBoth(title, failed, j)
<1> DEFINE L == Len(Enr!TitlePrefixes(title))
<1>1. L \in Nat /\ DOMAIN Enr!TitlePrefixes(title) = 1 .. L /\ j \in 0 .. L
    BY PrefixesTyped
<1>0. j = L \/ OfBoth(title, failed, j + 1) = <<>>
    OBVIOUS
<1> HIDE DEF L
<1>2. KnownPrefixes(title, failed) = 1 .. j
  <2>1. ASSUME NEW n \in 1 .. L PROVE n \in KnownPrefixes(title, failed) <=> n \in 1 .. j
    <3>1. CASE n <= j
      <4>1. \A k \in 1 .. n : k \in 1 .. j
          BY <1>1, <3>1
      <4>2. n \in KnownPrefixes(title, failed)
          BY <1>1, <4>1 DEF KnownPrefixes
      <4> QED BY <1>1, <3>1, <4>2
    <3>2. CASE n > j
      <4>1. j + 1 \in 1 .. n /\ OfBoth(title, failed, j + 1) = <<>>
          BY <1>0, <1>1, <3>2
      <4> QED BY <3>2, <4>1 DEF KnownPrefixes
    <3> QED BY <1>1, <3>1, <3>2
  <2>2. KnownPrefixes(title, failed) \subseteq 1 .. L /\ 1 .. j \subseteq 1 .. L
      BY <1>1 DEF KnownPrefixes
  <2> QED BY <2>1, <2>2
<1>3. CASE j = 0
  <2>1. KnownPrefixes(title, failed) = {}
      BY <1>2, <1>3
  <2> QED BY <1>3, <2>1, FoundIs
<1>4. CASE j > 0
  <2>1. j \in 1 .. j /\ j \in Nat
      BY <1>1, <1>4
  <2>2. Enr!Max(1 .. j) = j
    <3>1. \A y \in 1 .. j : j >= y
        OBVIOUS
    <3>2. \A x \in 1 .. j : (\A y \in 1 .. j : x >= y) => x = j
        BY <2>1
    <3> QED BY <2>1, <3>1, <3>2 DEF Enr!Max
  <2>3. KnownPrefixes(title, failed) # {}
      BY <1>2, <2>1
  <2> QED BY <1>2, <1>4, <2>2, <2>3, FoundIs
<1> QED BY <1>1, <1>3, <1>4

\* A search under way: so far each prefix was known and the title was not, and
\* only requests that it has made can have failed.
SearchOK(title, s, failed) ==
    /\ s \in [n : 0 .. Len(Enr!TitlePrefixes(title)), kind : {"tv", "movie"},
              got : Seq(Candidates), last : Seq(Candidates), over : BOOLEAN]
    /\ ~s.over
    /\ s.got = IF s.kind = "tv" THEN <<>> ELSE OfKind(title, failed, s.n, "tv")
    /\ s.n = 0 => s.last = <<>>
    /\ s.n > 0 => /\ OfBoth(title, failed, 0) = <<>>
                  /\ \A k \in 1 .. s.n - 1 : OfBoth(title, failed, k) # <<>>
                  /\ s.last = IF s.n = 1 THEN <<>> ELSE OfBoth(title, failed, s.n - 1)
    /\ \A type \in {"tv", "movie"} :
         /\ <<s.n, type>> \in failed => s.kind = "movie" /\ type = "tv"
         /\ \A n \in Nat : n > s.n => <<n, type>> \notin failed

LEMMA NewSearchOK ==
    ASSUME NEW title \in Seq(DOMAIN Suffix)
    PROVE  SearchOK(title, Enr!NewSearch, {})
BY PrefixesTyped DEF SearchOK, Enr!NewSearch

\* Whatever answer comes, the search goes on or has found what there is.
LEMMA AnsweredOK ==
    ASSUME NEW title \in Seq(DOMAIN Suffix), NEW s, NEW before, SearchOK(title, s, before),
           NEW failed \in BOOLEAN
    PROVE  LET r     == Enr!Answered(title, s, failed)
               after == IF failed THEN before \cup {<<s.n, s.kind>>} ELSE before
           IN  /\ r.over \in BOOLEAN
               /\ r.over => r.last = Enr!Found(title, after)
               /\ ~r.over => SearchOK(title, r, after)
<1> DEFINE after == IF failed THEN before \cup {<<s.n, s.kind>>} ELSE before
           L == Len(Enr!TitlePrefixes(title))
           got == Enr!Results(title, s, failed)
           r == Enr!Answered(title, s, failed)
<1>1. /\ L \in Nat /\ s.n \in 0 .. L /\ s.n \in Nat /\ s.kind \in {"tv", "movie"}
      /\ L = Len(Enr!TitlePrefixes(title))
    BY PrefixesTyped DEF SearchOK
<1> HIDE DEF L
<1>2. /\ s \in [n : 0 .. L, kind : {"tv", "movie"}, got : Seq(Candidates),
                last : Seq(Candidates), over : BOOLEAN]
      /\ ~s.over /\ s.got \in Seq(Candidates) /\ s.last \in Seq(Candidates)
    BY <1>1 DEF SearchOK
<1>f. /\ s.got = IF s.kind = "tv" THEN <<>> ELSE OfKind(title, before, s.n, "tv")
      /\ s.n = 0 => s.last = <<>>
      /\ s.n > 0 => /\ OfBoth(title, before, 0) = <<>>
                    /\ \A k \in 1 .. s.n - 1 : OfBoth(title, before, k) # <<>>
                    /\ s.last = IF s.n = 1 THEN <<>> ELSE OfBoth(title, before, s.n - 1)
    BY DEF SearchOK
<1>g. \A type \in {"tv", "movie"} :
        /\ <<s.n, type>> \in before => s.kind = "movie" /\ type = "tv"
        /\ \A n \in Nat : n > s.n => <<n, type>> \notin before
    BY DEF SearchOK
<1>3. ASSUME NEW n \in Nat, n < s.n
      PROVE  /\ OfKind(title, after, n, "tv") = OfKind(title, before, n, "tv")
             /\ OfKind(title, after, n, "movie") = OfKind(title, before, n, "movie")
             /\ OfBoth(title, after, n) = OfBoth(title, before, n)
  <2>1. \A type : <<n, type>> \in after <=> <<n, type>> \in before
      BY <1>1, <1>3
  <2> QED BY <2>1 DEF OfKind, OfBoth
<1>4. OfKind(title, after, s.n, s.kind) =
        IF failed THEN <<>> ELSE Enr!KnownOf(s.kind, Enr!Query(title, s))
  <2>1. <<s.n, s.kind>> \notin before
      BY <1>1, <1>g
  <2>2. <<s.n, s.kind>> \in after <=> failed
      BY <2>1
  <2> QED BY <2>2 DEF OfKind, Enr!Query
<1>5. CASE s.kind = "tv"
  <2>1. got = OfKind(title, after, s.n, "tv")
    <3>1. got = <<>> \o OfKind(title, after, s.n, "tv")
        BY <1>4, <1>5, <1>f DEF Enr!Results
    <3> QED BY <3>1, OfTyped
  <2>2. /\ r \in [n : 0 .. L, kind : {"tv", "movie"}, got : Seq(Candidates),
                  last : Seq(Candidates), over : BOOLEAN]
        /\ r.n = s.n /\ r.kind = "movie" /\ r.got = got /\ r.last = s.last /\ r.over = FALSE
    <3>1. r = [s EXCEPT !.kind = "movie", !.got = got]
        BY <1>5 DEF Enr!Answered
    <3>2. got \in Seq(Candidates)
        BY <2>1, OfTyped
    <3> DEFINE C == Seq(Candidates)
               N == 0 .. L
    <3>3. s \in [n : N, kind : {"tv", "movie"}, got : C, last : C, over : BOOLEAN] /\ got \in C
        BY <1>2, <3>2
    <3>4. ~s.over
        BY <1>2
    <3> HIDE DEF r, got, C, N
    <3>5. /\ r \in [n : N, kind : {"tv", "movie"}, got : C, last : C, over : BOOLEAN]
          /\ r.n = s.n /\ r.kind = "movie" /\ r.got = got /\ r.last = s.last /\ r.over = FALSE
        BY <3>1, <3>3, <3>4
    <3> QED BY <3>5 DEF C, N
  <2>3. \A type \in {"tv", "movie"} :
          /\ <<s.n, type>> \in after => type = "tv"
          /\ \A n \in Nat : n > s.n => <<n, type>> \notin after
    <3>1. \A x : x \in after => x \in before \/ x = <<s.n, s.kind>>
        OBVIOUS
    <3> HIDE DEF after
    <3> QED BY <1>1, <1>5, <1>g, <3>1
  <2>4. SearchOK(title, r, after)
    <3>1. s.n > 0 => /\ OfBoth(title, after, 0) = <<>>
                     /\ \A k \in 1 .. s.n - 1 : OfBoth(title, after, k) # <<>>
                     /\ s.last = IF s.n = 1 THEN <<>> ELSE OfBoth(title, after, s.n - 1)
      <4> SUFFICES ASSUME s.n > 0
                   PROVE  /\ OfBoth(title, after, 0) = <<>>
                          /\ \A k \in 1 .. s.n - 1 : OfBoth(title, after, k) # <<>>
                          /\ s.last = IF s.n = 1 THEN <<>> ELSE OfBoth(title, after, s.n - 1)
          OBVIOUS
      <4>1. \A k \in 0 .. s.n - 1 : OfBoth(title, after, k) = OfBoth(title, before, k)
        <5> HIDE DEF after
        <5> QED BY <1>1, <1>3
      <4> HIDE DEF after
      <4> QED BY <1>1, <1>f, <4>1
    <3>2. s.n = 0 => s.last = <<>>
        BY <1>f
    <3> HIDE DEF r, after, got
    <3> QED BY <1>1, <1>2, <2>1, <2>2, <2>3, <3>1, <3>2, OfTyped DEF SearchOK
  <2> HIDE DEF r, after
  <2>5. ~r.over /\ r.over \in BOOLEAN
      BY <2>2
  <2> QED BY <2>4, <2>5 DEF r, after
<1>6. CASE s.kind = "movie"
  <2>1. got = OfBoth(title, after, s.n) /\ got \in Seq(Candidates)
    <3>1. OfKind(title, after, s.n, "tv") = OfKind(title, before, s.n, "tv")
      <4>1. <<s.n, "tv">> \in after <=> <<s.n, "tv">> \in before
          BY <1>6
      <4> QED BY <4>1 DEF OfKind
    <3>2. got = OfKind(title, after, s.n, "tv") \o OfKind(title, after, s.n, "movie")
        BY <1>4, <1>6, <1>f, <3>1 DEF Enr!Results
    <3> QED BY <3>2, OfTyped DEF OfBoth
  <2>2. s.n > 0 => /\ OfBoth(title, after, 0) = <<>>
                   /\ \A k \in 1 .. s.n - 1 : OfBoth(title, after, k) # <<>>
                   /\ s.last = IF s.n = 1 THEN <<>> ELSE OfBoth(title, after, s.n - 1)
    <3> SUFFICES ASSUME s.n > 0
                 PROVE  /\ OfBoth(title, after, 0) = <<>>
                        /\ \A k \in 1 .. s.n - 1 : OfBoth(title, after, k) # <<>>
                        /\ s.last = IF s.n = 1 THEN <<>> ELSE OfBoth(title, after, s.n - 1)
        OBVIOUS
    <3>1. \A k \in 0 .. s.n - 1 : OfBoth(title, after, k) = OfBoth(title, before, k)
      <4> HIDE DEF after
      <4> QED BY <1>1, <1>3
    <3> HIDE DEF after
    <3> QED BY <1>1, <1>f, <3>1
  <2>3. \A type \in {"tv", "movie"}, n \in Nat : n > s.n => <<n, type>> \notin after
    <3>1. \A x : x \in after => x \in before \/ x = <<s.n, s.kind>>
        OBVIOUS
    <3> HIDE DEF after
    <3> QED BY <1>1, <1>g, <3>1
  <2>4. ASSUME r = Enr!Ended(s, Enr!Found(title, after))
        PROVE  r.over \in BOOLEAN /\ r.over /\ r.last = Enr!Found(title, after)
    <3> DEFINE C == Seq(Candidates)
               N == 0 .. L
               what == Enr!Found(title, after)
    <3>1. s \in [n : N, kind : {"tv", "movie"}, got : C, last : C, over : BOOLEAN]
        BY <1>2
    <3> HIDE DEF r, after, C, N, what
    <3>2. r = Enr!Ended(s, what)
        BY <2>4 DEF what
    <3>3. r.last = what /\ r.over = TRUE
        BY <3>1, <3>2 DEF Enr!Ended
    <3> QED BY <3>3 DEF what
  <2>5. CASE s.n = 0 /\ got # <<>>
    <3>1. Enr!Found(title, after) = got
        BY <2>1, <2>5, FoundIs
    <3>2. r = Enr!Ended(s, Enr!Found(title, after))
        BY <1>6, <2>5, <3>1 DEF Enr!Answered
    <3> QED BY <2>4, <3>2
  <2>6. CASE s.n > 0 /\ got = <<>>
    <3>1. Enr!Found(title, after) = s.last
      <4>1. s.n - 1 \in 0 .. L /\ (s.n - 1) + 1 = s.n
          BY <1>1, <2>6
      <4>2. Enr!Found(title, after) =
              IF s.n - 1 = 0 THEN <<>> ELSE OfBoth(title, after, s.n - 1)
        <5>1. /\ s.n - 1 \in 0 .. Len(Enr!TitlePrefixes(title))
              /\ OfBoth(title, after, (s.n - 1) + 1) = <<>>
              /\ \A k \in 1 .. s.n - 1 : OfBoth(title, after, k) # <<>>
              /\ OfBoth(title, after, 0) = <<>>
          <6> HIDE DEF after, got
          <6> QED BY <1>1, <2>1, <2>2, <2>6, <4>1
        <5> HIDE DEF after, got
        <5> QED BY <5>1, FoundAt
      <4> QED BY <1>1, <2>2, <2>6, <4>2
    <3>2. r = Enr!Ended(s, Enr!Found(title, after))
        BY <1>1, <1>6, <2>6, <3>1 DEF Enr!Answered
    <3> QED BY <2>4, <3>2
  <2>7. CASE ~(s.n = 0 /\ got # <<>>) /\ ~(s.n > 0 /\ got = <<>>)
    <3>1. r = Enr!NextPrefix(title, s, got)
        BY <1>1, <1>6, <2>7 DEF Enr!Answered
    <3>2. /\ OfBoth(title, after, 0) = <<>>
          /\ \A k \in 1 .. s.n : OfBoth(title, after, k) # <<>>
          /\ got = IF s.n = 0 THEN <<>> ELSE OfBoth(title, after, s.n)
      <4> HIDE DEF got, after
      <4>1. s.n = 0 \/ s.n > 0
          BY <1>1
      <4> QED BY <1>1, <2>1, <2>2, <2>7, <4>1
    <3>3. CASE s.n = L
      <4>1. Enr!Found(title, after) = got
        <5> HIDE DEF got, after
        <5> QED BY <1>1, <3>2, <3>3, FoundAt
      <4>2. r = Enr!Ended(s, Enr!Found(title, after))
        <5> HIDE DEF r, got, after
        <5> QED BY <1>1, <3>1, <3>3, <4>1 DEF Enr!NextPrefix
      <4> QED BY <2>4, <4>2
    <3>4. CASE s.n # L
      <4>1. r = [n |-> s.n + 1, kind |-> "tv", got |-> <<>>, last |-> got, over |-> FALSE]
        <5> HIDE DEF r, got
        <5> QED BY <1>1, <3>1, <3>4 DEF Enr!NextPrefix
      <4>2. s.n + 1 \in 1 .. L /\ (s.n + 1) - 1 = s.n
          BY <1>1, <3>4
      <4>3. SearchOK(title, r, after)
        <5> HIDE DEF r, after, got
        <5> QED BY <1>1, <2>1, <2>3, <3>2, <4>1, <4>2 DEF SearchOK
      <4> HIDE DEF r, after
      <4>4. ~r.over /\ r.over \in BOOLEAN
          BY <4>1
      <4> QED BY <4>3, <4>4 DEF r, after
    <3> QED BY <3>3, <3>4
  <2> QED BY <2>5, <2>6, <2>7
<1> QED BY <1>1, <1>5, <1>6

LEMMA TotalScoreTyped ==
    ASSUME NEW t \in Enr!Tasks, Batch[t].title # <<>>, NEW c \in Candidates, Enr!Scorable(c)
    PROVE  Enr!TotalScore(Batch[t], c) \in Nat
<1> DEFINE like == Likeness[Batch[t].title][c.name]
           similarity == Enr!Similarity(like)
           year == Enr!YearScore(Batch[t].year, c.year)
           type == Enr!KindScore(Batch[t], c)
<1>1. similarity \in Nat
  <2>1. like \in [how : {"same", "case", "part", "fuzzy"}, ratio : 0 .. 100]
      BY EnricherAssumption DEF Enr!Tasks, Enr!Scorable
  <2> HIDE DEF like
  <2>2. like.how \in {"same", "case", "part", "fuzzy"} /\ like.ratio \in Nat
    <3> DEFINE hows == {"same", "case", "part", "fuzzy"}
               ratios == 0 .. 100
    <3>1. like \in [how : hows, ratio : ratios]
        BY <2>1
    <3>2. ratios \subseteq Nat
        OBVIOUS
    <3> HIDE DEF hows, ratios
    <3>3. like.how \in hows /\ like.ratio \in ratios
        BY <3>1
    <3> QED BY <3>2, <3>3 DEF hows
  <2>3. CASE like.how = "same"
      BY <2>3 DEF similarity, Enr!Similarity
  <2>4. CASE like.how = "case"
      BY <2>4 DEF similarity, Enr!Similarity
  <2>5. CASE like.how = "part"
      BY <2>5 DEF similarity, Enr!Similarity
  <2>6. CASE like.how = "fuzzy"
      BY <2>2, <2>6 DEF similarity, Enr!Similarity
  <2> QED BY <2>2, <2>3, <2>4, <2>5, <2>6
<1>2. year \in Nat /\ type \in Nat
    BY DEF Enr!YearScore, Enr!KindScore
<1>3. Weight.title \in Nat /\ Weight.year \in Nat /\ Weight.kind \in Nat
    BY EnricherAssumption
<1>4. Enr!TotalScore(Batch[t], c) =
        Weight.title * similarity + Weight.year * year + Weight.kind * type
    BY DEF Enr!TotalScore
<1> HIDE DEF like, similarity, year, type
<1>5. \A a, b \in Nat : a * b \in Nat
    OBVIOUS
<1>6. Weight.title * similarity \in Nat /\ Weight.year * year \in Nat /\ Weight.kind * type \in Nat
    BY <1>1, <1>2, <1>3, <1>5
<1> QED BY <1>4, <1>6

LEMMA LeastTotal == MinConfidence * Enr!TotalWeight \in Nat /\ MinConfidence * Enr!TotalWeight > 0
<1>1. Enr!TotalWeight \in Nat /\ Enr!TotalWeight > 0
    BY EnricherAssumption DEF Enr!TotalWeight
<1>2. \A a, b \in Nat : a > 0 /\ b > 0 => a * b \in Nat /\ a * b > 0
    BY Z3
<1> QED BY <1>1, <1>2, EnricherAssumption

\* A candidate that is good enough, and none of the results is better.
Chosen(t, b, ranked) ==
    /\ b.c \in Enr!ToSet(ranked) /\ Enr!Scorable(b.c) /\ b.score \in Nat
    /\ b.score = Enr!TotalScore(Batch[t], b.c)
    /\ b.score >= MinConfidence * Enr!TotalWeight
    /\ Enr!IsBest(Batch[t], b.c, ranked)

\* The first of the highest of the first k results.
BestOf(t, b, ranked, k) ==
    /\ b.score \in Nat
    /\ b = Enr!NoMatch
         \/ /\ b.c \in {ranked[i] : i \in 1 .. k} /\ Enr!Scorable(b.c)
            /\ b.score = Enr!TotalScore(Batch[t], b.c)
    /\ \A i \in 1 .. k : Enr!Scorable(ranked[i]) =>
         b.score >= Enr!TotalScore(Batch[t], ranked[i])

\* What BestMatch looks for it finds.
LEMMA BestFound ==
    ASSUME NEW t \in Enr!Tasks, Batch[t].title # <<>>, NEW ranked \in Seq(Candidates)
    PROVE  LET b == Enr!BestMatch(Batch[t], ranked)
           IN  IF b.c = None
               THEN \A c \in Enr!ToSet(ranked) : Enr!Scorable(c) =>
                      ~(Enr!TotalScore(Batch[t], c) >= MinConfidence * Enr!TotalWeight)
               ELSE Chosen(t, b, ranked)
<1> DEFINE f == Batch[t]
           n == Len(ranked)
           b == Ranking!Fold(f, ranked)
           least == MinConfidence * Enr!TotalWeight
<1>1. Enr!BestMatch(f, ranked) = IF b.score >= least THEN b ELSE Enr!NoMatch
    BY DEF Enr!BestMatch, Ranking!Fold, Enr!FoldLeft, Enr!MapThenFoldSet, BetterFor, Unmatched, Enr!Max, Ranking!Greatest
<1>2. n \in Nat /\ DOMAIN ranked = 1 .. n /\ \A i \in 1 .. n : ranked[i] \in Candidates
    OBVIOUS
<1>3. PICK acc : /\ acc[0] = Unmatched(f)
                 /\ \A k \in 1 .. n : acc[k] = BetterFor(f, acc[k - 1], ranked[k])
                 /\ b = acc[n]
    BY Ranking!FoldUnfolds
<1> HIDE DEF n, b, least
<1>4. BestOf(t, b, ranked, n)
  <2> DEFINE Bad == {k \in 0 .. n : ~BestOf(t, acc[k], ranked, k)}
  <2>1. 0 \notin Bad
      BY <1>3 DEF BestOf, Unmatched, Enr!NoMatch
  <2>2. ASSUME NEW k \in 1 .. n, k - 1 \notin Bad PROVE k \notin Bad
    <3>1. /\ k \in Nat /\ k - 1 \in 0 .. n /\ k \in 0 .. n /\ ranked[k] \in Candidates
          /\ \A i \in 1 .. k : i \in 1 .. k - 1 \/ i = k
          /\ \A i \in 1 .. k - 1 : i \in 1 .. k
        BY <1>2
    <3>2. BestOf(t, acc[k - 1], ranked, k - 1)
        BY <2>2, <3>1
    <3>3. acc[k] = BetterFor(f, acc[k - 1], ranked[k])
        BY <1>3
    <3>4. CASE Enr!Scorable(ranked[k]) /\ Enr!TotalScore(f, ranked[k]) > acc[k - 1].score
      <4>1. acc[k] = [c |-> ranked[k], score |-> Enr!TotalScore(f, ranked[k])]
          BY <3>3, <3>4 DEF BetterFor, Enr!Better
      <4>2. Enr!TotalScore(f, ranked[k]) \in Nat
          BY <3>1, <3>4, TotalScoreTyped
      <4>3. \A i \in 1 .. k : Enr!Scorable(ranked[i]) =>
              /\ Enr!TotalScore(f, ranked[i]) \in Nat
              /\ Enr!TotalScore(f, ranked[k]) >= Enr!TotalScore(f, ranked[i])
        <5> SUFFICES ASSUME NEW i \in 1 .. k, Enr!Scorable(ranked[i])
                     PROVE  /\ Enr!TotalScore(f, ranked[i]) \in Nat
                            /\ Enr!TotalScore(f, ranked[k]) >= Enr!TotalScore(f, ranked[i])
            OBVIOUS
        <5>1. ranked[i] \in Candidates
            BY <1>2, <3>1
        <5>2. Enr!TotalScore(f, ranked[i]) \in Nat
            BY <5>1, TotalScoreTyped
        <5>3. i = k \/ acc[k - 1].score >= Enr!TotalScore(f, ranked[i])
            BY <3>1, <3>2 DEF BestOf
        <5> QED BY <3>2, <3>4, <4>2, <5>2, <5>3 DEF BestOf
      <4>4. ranked[k] \in {ranked[i] : i \in 1 .. k}
          BY <3>1
      <4>5. BestOf(t, acc[k], ranked, k)
          BY <3>4, <4>1, <4>2, <4>3, <4>4 DEF BestOf
      <4> QED BY <4>5
    <3>5. CASE ~(Enr!Scorable(ranked[k]) /\ Enr!TotalScore(f, ranked[k]) > acc[k - 1].score)
      <4>1. acc[k] = acc[k - 1]
          BY <3>3, <3>5 DEF BetterFor, Enr!Better
      <4>2. Enr!Scorable(ranked[k]) => acc[k - 1].score >= Enr!TotalScore(f, ranked[k])
        <5>1. Enr!Scorable(ranked[k]) => Enr!TotalScore(f, ranked[k]) \in Nat
            BY <3>1, TotalScoreTyped
        <5> QED BY <3>2, <3>5, <5>1 DEF BestOf
      <4>3. {ranked[i] : i \in 1 .. k - 1} \subseteq {ranked[i] : i \in 1 .. k}
          BY <3>1
      <4>4. BestOf(t, acc[k], ranked, k)
          BY <3>1, <3>2, <4>1, <4>2, <4>3 DEF BestOf
      <4> QED BY <4>4
    <3> QED BY <3>4, <3>5
  <2>3. n \notin Bad
    <3> HIDE DEF Bad
    <3>1. Bad \in SUBSET (0 .. n)
        BY DEF Bad
    <3> QED BY <1>2, <2>1, <2>2, <3>1, Cuts!NoneFails
  <2>4. n \in 0 .. n
      BY <1>2
  <2> QED BY <1>3, <2>3, <2>4
<1>5. least \in Nat /\ least > 0
    BY LeastTotal DEF least
<1>6. Enr!ToSet(ranked) = {ranked[i] : i \in 1 .. n}
    BY <1>2 DEF Enr!ToSet
<1>7. \A c \in Enr!ToSet(ranked) : Enr!Scorable(c) =>
        Enr!TotalScore(f, c) \in Nat /\ b.score >= Enr!TotalScore(f, c)
    BY <1>2, <1>4, <1>6, TotalScoreTyped DEF BestOf
<1>8. CASE b.score >= least
  <2>1. b # Enr!NoMatch
      BY <1>5, <1>8 DEF Enr!NoMatch
  <2>2. b.c \in Candidates /\ b.c # None
      BY <1>2, <1>4, <2>1, EnricherAssumption DEF BestOf
  <2>3. Chosen(t, b, ranked)
      BY <1>4, <1>6, <1>7, <1>8, <2>1 DEF Chosen, BestOf, Enr!IsBest, least
  <2> QED BY <1>1, <1>8, <2>2, <2>3
<1>9. CASE ~(b.score >= least)
  <2>1. \A c \in Enr!ToSet(ranked) : Enr!Scorable(c) => ~(Enr!TotalScore(f, c) >= least)
      BY <1>4, <1>5, <1>7, <1>9 DEF BestOf
  <2> QED BY <1>1, <1>9, <2>1 DEF Enr!NoMatch, least
<1> QED BY <1>8, <1>9

\* What a task has to show when it is done: ItemTrue of these values.
ItemIs(t, b, item, failed) ==
    LET ranked == Enr!Found(Batch[t].title, failed)
        good == {c \in Enr!ToSet(ranked) :
                   /\ Enr!Scorable(c)
                   /\ Enr!TotalScore(Batch[t], c) >= MinConfidence * Enr!TotalWeight}
    IN  CASE item.status = "skipped" -> Batch[t].title = <<>>
          [] item.status = "failed"  -> good = {} \/ Enr!EvidenceFails(ranked)
          [] item.status = "success" ->
               /\ b.c \in good /\ Enr!IsBest(Batch[t], b.c, ranked)
               /\ Enr!Details \notin failed /\ b.c.id \in DOMAIN Fetchable =>
                    item.details = b.c.id

LEMMA ItemIsTrue ==
    ASSUME NEW t PROVE Enr!ItemTrue(t) = ItemIs(t, best[t], enriched[t], missed[t])
BY DEF Enr!ItemTrue, ItemIs, Enr!FileMetadata

\* A task at a place, with its search, best match, item and failed requests.
TaskOK(t, place, s, b, item, failed) ==
    /\ place \in {"waiting", "searching", "fetching", "done"}
    /\ item \in Items \cup {None} /\ (place = "done" <=> item # None)
    /\ place = "waiting" => s = Enr!NewSearch /\ failed = {}
    /\ place = "searching" =>
         /\ Batch[t].title # <<>> /\ SearchOK(Batch[t].title, s, failed)
         /\ Enr!Details \notin failed
    /\ place = "fetching" =>
         /\ Batch[t].title # <<>> /\ Chosen(t, b, Enr!Found(Batch[t].title, failed))
         /\ Enr!Details \notin failed
    /\ place = "done" => ItemIs(t, b, item, failed)

Busy == {t \in Enr!Tasks : pc[t] \in {"searching", "fetching"}}

EnricherTypes ==
    /\ pc \in [Enr!Tasks -> {"waiting", "searching", "fetching", "done"}]
    /\ DOMAIN search = Enr!Tasks /\ DOMAIN best = Enr!Tasks
    /\ DOMAIN enriched = Enr!Tasks /\ DOMAIN missed = Enr!Tasks
    /\ permits \in Nat

PermitsKept == permits + Cardinality(Busy) = Concurrency

TasksOK ==
    \A t \in Enr!Tasks : TaskOK(t, pc[t], search[t], best[t], enriched[t], missed[t])

EnricherInv == EnricherTypes /\ PermitsKept /\ TasksOK

LEMMA EnricherCardinality == \A S : Enr!Cardinality(S) = Cardinality(S)
BY DEF Enr!Cardinality, Cardinality

LEMMA BusyFinite == IsFiniteSet(Busy) /\ Cardinality(Busy) \in Nat
<1>1. Busy \subseteq Enr!Tasks
    BY DEF Busy
<1> QED BY <1>1, EnricherAssumption, FS_Subset, FS_CardinalityType DEF Enr!Tasks

\* A task that is let in keeps a permit until it is done.
LEMMA PermitsMove ==
    ASSUME EnricherTypes, PermitsKept, NEW t \in Enr!Tasks, NEW place,
           pc' = [pc EXCEPT ![t] = place],
           permits' = permits + (IF t \in Busy THEN 1 ELSE 0)
                              - (IF place \in {"searching", "fetching"} THEN 1 ELSE 0)
    PROVE  PermitsKept'
<1> DEFINE goes == place \in {"searching", "fetching"}
<1>1. \A u \in Enr!Tasks : u \in Busy' <=> IF u = t THEN goes ELSE u \in Busy
    BY DEF EnricherTypes, Busy
<1>2. Busy \subseteq Enr!Tasks /\ Busy' \subseteq Enr!Tasks
    BY DEF Busy
<1>3. permits \in Nat /\ Concurrency \in Nat /\ Cardinality(Busy) \in Nat
    BY BusyFinite, EnricherAssumption DEF EnricherTypes
<1>4. CASE t \in Busy /\ goes
  <2>1. Busy' = Busy
      BY <1>1, <1>2, <1>4
  <2>2. permits' = permits
      BY <1>3, <1>4
  <2> QED BY <2>1, <2>2 DEF PermitsKept
<1>5. CASE t \in Busy /\ ~goes
  <2>1. Busy' = Busy \ {t}
      BY <1>1, <1>2, <1>5
  <2>2. Cardinality(Busy') = Cardinality(Busy) - 1
      BY <1>5, <2>1, BusyFinite, FS_RemoveElement
  <2>3. permits' = permits + 1
      BY <1>3, <1>5
  <2> QED BY <1>3, <2>2, <2>3 DEF PermitsKept
<1>6. CASE t \notin Busy /\ goes
  <2>1. Busy' = Busy \cup {t}
      BY <1>1, <1>2, <1>6
  <2>2. Cardinality(Busy') = Cardinality(Busy) + 1
      BY <1>6, <2>1, BusyFinite, FS_AddElement
  <2>3. permits' = permits - 1
      BY <1>3, <1>6
  <2> QED BY <1>3, <2>2, <2>3 DEF PermitsKept
<1>7. CASE t \notin Busy /\ ~goes
  <2>1. Busy' = Busy
      BY <1>1, <1>2, <1>7
  <2>2. permits' = permits
      BY <1>3, <1>7
  <2> QED BY <2>1, <2>2 DEF PermitsKept
<1> QED BY <1>4, <1>5, <1>6, <1>7

LEMMA EnricherInitially == Enr!Init => EnricherInv
<1> SUFFICES ASSUME Enr!Init PROVE EnricherInv
    OBVIOUS
<1>1. EnricherTypes
    BY EnricherAssumption DEF Enr!Init, EnricherTypes
<1>2. PermitsKept
  <2>1. Busy = {}
      BY DEF Enr!Init, Busy
  <2> QED BY <2>1, FS_EmptySet, EnricherAssumption DEF Enr!Init, PermitsKept
<1>3. TasksOK
    BY EnricherAssumption DEF Enr!Init, TasksOK, TaskOK
<1> QED BY <1>1, <1>2, <1>3 DEF EnricherInv

LEMMA BeginKeeps ==
    ASSUME EnricherInv, NEW t \in Enr!Tasks, Enr!Begin(t)
    PROVE  EnricherInv'
<1>1. pc[t] = "waiting" /\ permits > 0 /\ UNCHANGED <<search, best, missed>>
    BY DEF Enr!Begin
<1>2. EnricherTypes /\ PermitsKept /\ t \notin Busy /\ permits \in Nat
    BY <1>1 DEF EnricherInv, EnricherTypes, Busy
<1>3. TaskOK(t, pc[t], search[t], best[t], enriched[t], missed[t])
    BY DEF EnricherInv, TasksOK
<1>4. CASE Batch[t].title = <<>>
  <2> DEFINE item == [status |-> "skipped", score |-> 0, details |-> None]
  <2>1. /\ pc' = [pc EXCEPT ![t] = "done"] /\ permits' = permits
        /\ enriched' = [enriched EXCEPT ![t] = item]
      BY <1>4 DEF Enr!Begin, Enr!FailedItem
  <2>2. item \in Items /\ item # None /\ item.status = "skipped"
      BY EnricherAssumption DEF Items
  <2>3. ItemIs(t, best[t], item, missed[t])
      BY <1>4, <2>2 DEF ItemIs
  <2> HIDE DEF item
  <2>4. TaskOK(t, "done", search[t], best[t], item, missed[t])
      BY <2>2, <2>3 DEF TaskOK
  <2>5. TasksOK'
      BY <1>1, <1>2, <2>1, <2>4 DEF EnricherInv, EnricherTypes, TasksOK
  <2>6. permits' = permits + (IF t \in Busy THEN 1 ELSE 0)
                           - (IF "done" \in {"searching", "fetching"} THEN 1 ELSE 0)
      BY <1>2, <2>1
  <2>7. PermitsKept'
      BY <1>2, <2>1, <2>6, PermitsMove
  <2> QED BY <1>1, <1>2, <2>1, <2>5, <2>7 DEF EnricherInv, EnricherTypes
<1>5. CASE Batch[t].title # <<>>
  <2>1. /\ pc' = [pc EXCEPT ![t] = "searching"] /\ permits' = permits - 1
        /\ UNCHANGED enriched
      BY <1>5 DEF Enr!Begin
  <2>2. SearchOK(Batch[t].title, search[t], missed[t]) /\ Enr!Details \notin missed[t]
      BY <1>1, <1>3, NewSearchOK, EnricherAssumption DEF TaskOK, Enr!Tasks
  <2>3. TaskOK(t, "searching", search[t], best[t], enriched[t], missed[t])
      BY <1>1, <1>3, <1>5, <2>2 DEF TaskOK
  <2>4. TasksOK'
      BY <1>1, <1>2, <2>1, <2>3 DEF EnricherInv, EnricherTypes, TasksOK
  <2>5. permits' = permits + (IF t \in Busy THEN 1 ELSE 0)
                           - (IF "searching" \in {"searching", "fetching"} THEN 1 ELSE 0)
      BY <1>2, <2>1
  <2>6. PermitsKept'
      BY <1>2, <2>1, <2>5, PermitsMove
  <2> QED BY <1>1, <1>2, <2>1, <2>4, <2>6 DEF EnricherInv, EnricherTypes
<1> QED BY <1>4, <1>5

\* The request for the details is no search request.
LEMMA DetailsApart ==
    ASSUME NEW title, NEW failed
    PROVE  Enr!Found(title, failed \cup {Enr!Details}) = Enr!Found(title, failed)
<1> DEFINE more == failed \cup {Enr!Details}
<1>1. ASSUME NEW n
      PROVE  /\ OfKind(title, more, n, "tv") = OfKind(title, failed, n, "tv")
             /\ OfKind(title, more, n, "movie") = OfKind(title, failed, n, "movie")
  <2>1. <<n, "tv">> # Enr!Details /\ <<n, "movie">> # Enr!Details
      BY DEF Enr!Details
  <2>2. /\ <<n, "tv">> \in more <=> <<n, "tv">> \in failed
        /\ <<n, "movie">> \in more <=> <<n, "movie">> \in failed
      BY <2>1
  <2> HIDE DEF more
  <2> QED BY <2>2 DEF OfKind
<1> HIDE DEF more
<1>2. \A n : OfBoth(title, more, n) = OfBoth(title, failed, n)
    BY <1>1 DEF OfBoth
<1>3. KnownPrefixes(title, more) = KnownPrefixes(title, failed)
    BY <1>2 DEF KnownPrefixes
<1>4. Enr!Found(title, more) = Enr!Found(title, failed)
    BY <1>2, <1>3, FoundIs
<1> QED BY <1>4 DEF more

LEMMA SearchAnsweredKeeps ==
    ASSUME EnricherInv, NEW t \in Enr!Tasks, NEW failed \in BOOLEAN,
           Enr!SearchAnswered(t, failed)
    PROVE  EnricherInv'
<1> DEFINE title == Batch[t].title
           before == missed[t]
           after == IF failed THEN before \cup {<<search[t].n, search[t].kind>>} ELSE before
           r == Enr!Answered(title, search[t], failed)
           b == Enr!BestMatch(Batch[t], r.last)
           good == {c \in Enr!ToSet(r.last) :
                      /\ Enr!Scorable(c)
                      /\ Enr!TotalScore(Batch[t], c) >= MinConfidence * Enr!TotalWeight}
<1>1. /\ pc[t] = "searching" /\ search' = [search EXCEPT ![t] = r]
      /\ missed' = [missed EXCEPT ![t] = after]
    BY DEF Enr!SearchAnswered, Enr!Miss
<1>2. EnricherTypes /\ PermitsKept /\ t \in Busy /\ permits \in Nat
    BY <1>1 DEF EnricherInv, EnricherTypes, Busy
<1>3. TaskOK(t, pc[t], search[t], best[t], enriched[t], missed[t])
    BY DEF EnricherInv, TasksOK
<1>4. /\ title # <<>> /\ title \in Seq(DOMAIN Suffix) /\ SearchOK(title, search[t], before)
      /\ Enr!Details \notin before /\ enriched[t] = None
    BY <1>1, <1>3, EnricherAssumption DEF TaskOK, Enr!Tasks
<1>5. /\ r.over \in BOOLEAN
      /\ r.over => r.last = Enr!Found(title, after)
      /\ ~r.over => SearchOK(title, r, after)
    BY <1>4, AnsweredOK
<1>6. Enr!Details \notin after
  <2>1. search[t].kind \in {"tv", "movie"}
      BY <1>4 DEF SearchOK
  <2> QED BY <1>4, <2>1 DEF Enr!Details
<1>7. /\ ~r.over => UNCHANGED <<pc, permits, enriched, best>>
      /\ r.over /\ (Enr!EvidenceFails(r.last) \/ b.c = None) =>
           Enr!Finish(t, Enr!FailedItem) /\ UNCHANGED best
      /\ r.over /\ ~(Enr!EvidenceFails(r.last) \/ b.c = None) =>
           /\ pc' = [pc EXCEPT ![t] = "fetching"] /\ best' = [best EXCEPT ![t] = b]
           /\ UNCHANGED <<permits, enriched>>
    BY DEF Enr!SearchAnswered
<1>8. r.over => IF b.c = None THEN good = {} ELSE Chosen(t, b, r.last)
  <2> SUFFICES ASSUME r.over PROVE IF b.c = None THEN good = {} ELSE Chosen(t, b, r.last)
      OBVIOUS
  <2>1. r.last \in Seq(Candidates)
    <3>1. Enr!Found(title, after) \in Seq(Candidates)
      <4> HIDE DEF after, title
      <4> QED BY FoundIs, OfTyped
    <3> QED BY <1>5, <3>1
  <2> HIDE DEF r
  <2> QED BY <1>4, <2>1, BestFound
<1> HIDE DEF r, b, after, before, good
<1>9. CASE ~r.over
  <2>1. TaskOK(t, "searching", r, best[t], enriched[t], after)
      BY <1>1, <1>3, <1>4, <1>5, <1>6, <1>9 DEF TaskOK
  <2>2. TasksOK'
      BY <1>1, <1>2, <1>7, <1>9, <2>1 DEF EnricherInv, EnricherTypes, TasksOK
  <2>3. PermitsKept'
      BY <1>2, <1>7, <1>9 DEF PermitsKept, Busy
  <2> QED BY <1>1, <1>2, <1>7, <1>9, <2>2, <2>3 DEF EnricherInv, EnricherTypes
<1>10. CASE r.over /\ (Enr!EvidenceFails(r.last) \/ b.c = None)
  <2> DEFINE item == Enr!FailedItem
  <2>1. /\ pc' = [pc EXCEPT ![t] = "done"] /\ permits' = permits + 1
        /\ enriched' = [enriched EXCEPT ![t] = item] /\ UNCHANGED best
      BY <1>7, <1>10 DEF Enr!Finish
  <2>2. item \in Items /\ item # None /\ item.status = "failed"
      BY EnricherAssumption DEF Items, Enr!FailedItem
  <2> HIDE DEF item
  <2>3. good = {} \/ Enr!EvidenceFails(r.last)
      BY <1>8, <1>10
  <2>4. ItemIs(t, best[t], item, after)
      BY <1>5, <1>10, <2>2, <2>3 DEF ItemIs, good
  <2>5. TaskOK(t, "done", r, best[t], item, after)
      BY <2>2, <2>4 DEF TaskOK
  <2>6. TasksOK'
      BY <1>1, <1>2, <2>1, <2>5 DEF EnricherInv, EnricherTypes, TasksOK
  <2>7. permits' = permits + (IF t \in Busy THEN 1 ELSE 0)
                           - (IF "done" \in {"searching", "fetching"} THEN 1 ELSE 0)
      BY <1>2, <2>1
  <2>8. PermitsKept'
      BY <1>2, <2>1, <2>7, PermitsMove
  <2> QED BY <1>1, <1>2, <2>1, <2>6, <2>8 DEF EnricherInv, EnricherTypes
<1>11. CASE r.over /\ ~(Enr!EvidenceFails(r.last) \/ b.c = None)
  <2>1. /\ pc' = [pc EXCEPT ![t] = "fetching"] /\ best' = [best EXCEPT ![t] = b]
        /\ UNCHANGED <<permits, enriched>>
      BY <1>7, <1>11
  <2>2. Chosen(t, b, Enr!Found(title, after))
      BY <1>5, <1>8, <1>11
  <2>3. TaskOK(t, "fetching", r, b, enriched[t], after)
      BY <1>3, <1>4, <1>6, <2>2 DEF TaskOK
  <2>4. TasksOK'
      BY <1>1, <1>2, <2>1, <2>3 DEF EnricherInv, EnricherTypes, TasksOK
  <2>5. permits' = permits + (IF t \in Busy THEN 1 ELSE 0)
                           - (IF "fetching" \in {"searching", "fetching"} THEN 1 ELSE 0)
      BY <1>2, <2>1
  <2>6. PermitsKept'
      BY <1>2, <2>1, <2>5, PermitsMove
  <2> QED BY <1>1, <1>2, <2>1, <2>4, <2>6 DEF EnricherInv, EnricherTypes
<1> QED BY <1>5, <1>9, <1>10, <1>11

LEMMA DetailsAnsweredKeeps ==
    ASSUME EnricherInv, NEW t \in Enr!Tasks, NEW failed \in BOOLEAN,
           Enr!DetailsAnswered(t, failed)
    PROVE  EnricherInv'
<1> DEFINE before == missed[t]
           after == IF failed THEN before \cup {Enr!Details} ELSE before
           b == best[t]
           details == IF failed \/ b.c.id \notin DOMAIN Fetchable THEN None ELSE b.c.id
           item == [status |-> "success", score |-> b.score, details |-> details]
           ranked == Enr!Found(Batch[t].title, before)
<1>1. /\ pc[t] = "fetching" /\ missed' = [missed EXCEPT ![t] = after]
      /\ pc' = [pc EXCEPT ![t] = "done"] /\ permits' = permits + 1
      /\ enriched' = [enriched EXCEPT ![t] = item] /\ UNCHANGED <<search, best>>
    BY DEF Enr!DetailsAnswered, Enr!Miss, Enr!Finish
<1>2. EnricherTypes /\ PermitsKept /\ t \in Busy /\ permits \in Nat
    BY <1>1 DEF EnricherInv, EnricherTypes, Busy
<1>3. TaskOK(t, pc[t], search[t], best[t], enriched[t], missed[t])
    BY DEF EnricherInv, TasksOK
<1>4. Chosen(t, b, ranked)
    BY <1>1, <1>3 DEF TaskOK
<1>5. Enr!Found(Batch[t].title, after) = ranked
    BY DetailsApart
<1>6. /\ item \in Items /\ item # None /\ item.status = "success"
      /\ Enr!Details \notin after /\ b.c.id \in DOMAIN Fetchable => item.details = b.c.id
  <2>1. details \in DOMAIN Fetchable \cup {None}
      OBVIOUS
  <2>2. Enr!Details \notin after => ~failed
      OBVIOUS
  <2>3. b.score \in Nat
      BY <1>4 DEF Chosen
  <2>4. ~failed /\ b.c.id \in DOMAIN Fetchable => details = b.c.id
      OBVIOUS
  <2> HIDE DEF details, after, b
  <2>5. item \in Items
      BY <2>1, <2>3 DEF Items
  <2> QED BY <2>2, <2>4, <2>5, EnricherAssumption
<1> HIDE DEF b, after, before, ranked, item
<1>7. ItemIs(t, b, item, after)
    BY <1>4, <1>5, <1>6 DEF ItemIs, Chosen
<1>8. TaskOK(t, "done", search[t], b, item, after)
    BY <1>6, <1>7 DEF TaskOK
<1>9. TasksOK'
    BY <1>1, <1>2, <1>8 DEF EnricherInv, EnricherTypes, TasksOK, b
<1>10. permits' = permits + (IF t \in Busy THEN 1 ELSE 0)
                          - (IF "done" \in {"searching", "fetching"} THEN 1 ELSE 0)
    BY <1>1, <1>2
<1>11. PermitsKept'
    BY <1>1, <1>2, <1>10, PermitsMove
<1> QED BY <1>1, <1>2, <1>9, <1>11 DEF EnricherInv, EnricherTypes

LEMMA EnricherStep == EnricherInv /\ [Enr!Next]_enricherVars => EnricherInv'
<1> SUFFICES ASSUME EnricherInv, [Enr!Next]_enricherVars PROVE EnricherInv'
    OBVIOUS
<1>1. CASE Enr!Next
    BY <1>1, BeginKeeps, SearchAnsweredKeeps, DetailsAnsweredKeeps DEF Enr!Next, Enr!Request
<1>2. CASE UNCHANGED enricherVars
    BY <1>2 DEF enricherVars, EnricherInv, EnricherTypes, PermitsKept, TasksOK, Busy
<1> QED BY <1>1, <1>2

LEMMA EnricherInvTrue == EnricherInv => Enr!EnrichedTrue
<1> SUFFICES ASSUME EnricherInv PROVE Enr!EnrichedTrue
    OBVIOUS
<1>1. /\ permits \in Nat /\ Cardinality(Busy) \in Nat /\ Concurrency \in Nat /\ Concurrency > 0
      /\ permits + Cardinality(Busy) = Concurrency
    BY BusyFinite, EnricherAssumption DEF EnricherInv, EnricherTypes, PermitsKept
<1>2. \A t \in Enr!Tasks : TaskOK(t, pc[t], search[t], best[t], enriched[t], missed[t])
    BY DEF EnricherInv, TasksOK
<1>3. Enr!TypeOK
  <2>1. pc \in [Enr!Tasks -> {"waiting", "searching", "fetching", "done"}]
      BY DEF EnricherInv, EnricherTypes
  <2>2. \A t \in Enr!Tasks : pc[t] = "done" <=> enriched[t] # None
      BY <1>2 DEF TaskOK
  <2> QED BY <1>1, <2>1, <2>2 DEF Enr!TypeOK
<1>4. Enr!PermitsAddUp
    BY <1>1, EnricherCardinality DEF Enr!PermitsAddUp, Busy
<1>5. Enr!GoesOn
  <2>1. CASE Busy = {}
    <3>1. permits > 0
        BY <1>1, <2>1, FS_EmptySet
    <3>2. \A t \in Enr!Tasks : pc[t] \in {"waiting", "done"}
        BY <1>2, <2>1 DEF TaskOK, Busy
    <3> QED BY <3>1, <3>2 DEF Enr!GoesOn, Enr!Over
  <2>2. CASE Busy # {}
      BY <2>2 DEF Enr!GoesOn, Busy
  <2> QED BY <2>1, <2>2
<1>6. \A t \in Enr!Tasks : pc[t] = "done" => Enr!ItemTrue(t)
    BY <1>2, ItemIsTrue DEF TaskOK
<1> QED BY <1>3, <1>4, <1>5, <1>6 DEF Enr!EnrichedTrue

\* However the searches of a batch interleave and whichever of their requests
\* fail: every permit comes back, and each name gets the best of what its own
\* searches found, or says that there is none.
THEOREM EnrichedTrueAlways == ServicesSpec => []EnrichedTrue
<1>1. ServicesInit => EnricherInv
    BY EnricherInitially DEF ServicesInit
<1>2. EnricherInv /\ [ServicesNext]_servicesVars => EnricherInv'
  <2> SUFFICES ASSUME EnricherInv, [ServicesNext]_servicesVars PROVE EnricherInv'
      OBVIOUS
  <2>1. [Enr!Next]_enricherVars
      BY DEF ServicesNext, Of, servicesVars
  <2> QED BY <2>1, EnricherStep
<1>3. EnricherInv => EnrichedTrue
    BY EnricherInvTrue DEF EnrichedTrue
<1> QED BY <1>1, <1>2, <1>3, PTL DEF ServicesSpec

-----------------------------------------------------------------------------
(* Subtitles: sequences.                                                     *)

\* Kept, as the recursion of FoldProofs: p is <<s, S>>.
KeepNext(p, kept, n) == IF p[1][n] \in p[2] THEN Append(kept, p[1][n]) ELSE kept
NoneYet(p) == <<>>
Keeping == INSTANCE FoldProofs WITH Op <- KeepNext, Base <- NoneYet

LEMMA KeptUnfolds ==
    ASSUME NEW X, NEW s \in Seq(X), NEW S
    PROVE  \E upto :
             /\ upto[0] = <<>>
             /\ \A n \in 1 .. Len(s) :
                  upto[n] = IF s[n] \in S THEN Append(upto[n - 1], s[n]) ELSE upto[n - 1]
             /\ Kept(s, S) = upto[Len(s)]
<1> DEFINE f == Keeping!Recursion(<<s, S>>, Len(s))
<1>1. Len(s) \in Nat
    OBVIOUS
<1>2. /\ f[0] = NoneYet(<<s, S>>)
      /\ \A n \in 1 .. Len(s) : f[n] = KeepNext(<<s, S>>, f[n - 1], n)
    BY <1>1, Keeping!RecursionUnfolds
<1>3. Kept(s, S) = f[Len(s)]
    BY DEF Kept, Keeping!Recursion, Keeping!IsRecursion, KeepNext, NoneYet
<1>4. \A a, n : KeepNext(<<s, S>>, a, n) = IF s[n] \in S THEN Append(a, s[n]) ELSE a
    BY DEF KeepNext
<1> HIDE DEF f
<1> QED BY <1>2, <1>3, <1>4 DEF NoneYet

LEMMA KeptFacts ==
    ASSUME NEW X, NEW s \in Seq(X), NEW S
    PROVE  /\ Kept(s, S) \in Seq(X)
           /\ \E place : Keeping!Keeps(Kept(s, S), s, S, Len(s), place)
<1>1. PICK upto :
             /\ upto[0] = <<>>
             /\ \A n \in 1 .. Len(s) :
                  upto[n] = IF s[n] \in S THEN Append(upto[n - 1], s[n]) ELSE upto[n - 1]
             /\ Kept(s, S) = upto[Len(s)]
    BY KeptUnfolds, Zenon
<1>2. /\ upto[Len(s)] \in Seq(X)
      /\ \E place : Keeping!Keeps(upto[Len(s)], s, S, Len(s), place)
    BY <1>1, Keeping!KeptFrom DEF Keeping!KeptUpTo
<1> QED BY <1>1, <1>2

LEMMA SeqFacts ==
    ASSUME NEW R, NEW s \in Seq(R)
    PROVE  /\ DOMAIN s = 1 .. Len(s) /\ Len(s) \in Nat
           /\ \A i \in DOMAIN s : s[i] \in R
OBVIOUS

\* What is selected are elements of the sequence, and once if they were.
LEMMA KeptSet ==
    ASSUME NEW X, NEW s \in Seq(X), NEW S
    PROVE  /\ Kept(s, S) \in Seq(X \cap S)
           /\ ToSet(Kept(s, S)) = ToSet(s) \cap S
           /\ IsInjective(s) => IsInjective(Kept(s, S))
<1> DEFINE k == Kept(s, S)
<1>1. k \in Seq(X) /\ \E place : Keeping!Keeps(k, s, S, Len(s), place)
    BY KeptFacts
<1>2. PICK place : Keeping!Keeps(k, s, S, Len(s), place)
    BY <1>1
<1>3. /\ DOMAIN s = 1 .. Len(s) /\ Len(s) \in Nat /\ \A i \in DOMAIN s : s[i] \in X
      /\ DOMAIN k = 1 .. Len(k) /\ Len(k) \in Nat
  <2> HIDE DEF k
  <2> QED BY <1>1, SeqFacts
<1> HIDE DEF k
<1>4. /\ \A i \in DOMAIN k : place[i] \in DOMAIN s /\ k[i] = s[place[i]] /\ k[i] \in S
      /\ \A i, j \in DOMAIN k : i < j => place[i] < place[j]
      /\ \A m \in DOMAIN s : s[m] \in S => \E i \in DOMAIN k : place[i] = m
    BY <1>2, <1>3 DEF Keeping!Keeps
<1>5. k \in Seq(X \cap S)
  <2>1. \A i \in 1 .. Len(k) : k[i] \in X \cap S
      BY <1>3, <1>4
  <2>2. k = [i \in 1 .. Len(k) |-> k[i]]
      BY <1>1
  <2>3. k \in [1 .. Len(k) -> X \cap S]
      BY <2>1, <2>2
  <2> QED BY <1>3, <2>3
<1>6. ToSet(k) = ToSet(s) \cap S
    BY <1>4 DEF ToSet
<1>7. ASSUME IsInjective(s) PROVE IsInjective(k)
  <2> SUFFICES ASSUME NEW i \in DOMAIN k, NEW j \in DOMAIN k, k[i] = k[j] PROVE i = j
      BY DEF IsInjective
  <2>1. place[i] = place[j]
      BY <1>4, <1>7 DEF IsInjective
  <2>2. place[i] \in Nat /\ place[j] \in Nat /\ i \in Nat /\ j \in Nat
      BY <1>3, <1>4
  <2>3. ~(i < j) /\ ~(j < i)
      BY <1>4, <2>1, <2>2
  <2> QED BY <2>2, <2>3
<1> QED BY <1>5, <1>6, <1>7 DEF k


-----------------------------------------------------------------------------
(* Names.                                                                    *)

Symbols == DOMAIN Rank
Names == Seq(Symbols)

LEMMA WithoutTyped ==
    ASSUME NEW X, NEW marks, NEW s \in Seq(marks \cup X)
    PROVE  Without(s, marks) \in Seq(X)
<1> DEFINE S == {x \in ToSet(s) : x \notin marks}
<1>1. Kept(s, S) \in Seq((marks \cup X) \cap S)
    BY KeptSet
<1>2. (marks \cup X) \cap S \subseteq X
    OBVIOUS
<1>3. Kept(s, S) \in Seq(X)
  <2> HIDE DEF S
  <2> QED BY <1>1, <1>2, SeqMonotonic
<1>4. Without(s, marks) = Kept(s, S)
    BY DEF Without, Selected
<1> QED BY <1>3, <1>4

\* A set of numbers up to n that is not empty has a least and a greatest.
LEMMA Ends ==
    ASSUME NEW n \in Nat, NEW I \in SUBSET (1 .. n), I # {}
    PROVE  /\ \E i \in I : \A j \in I : i <= j
           /\ \E i \in I : \A j \in I : i >= j
<1>1. I \in SUBSET Nat
    OBVIOUS
<1>2. \E i \in I : \A j \in I : i <= j
    BY <1>1, Keeping!LeastNumber
<1>3. \E i \in I : \A j \in I : i >= j
  <2> DEFINE J == {m \in Nat : n - m \in I}
  <2>1. PICK i \in I : TRUE
      OBVIOUS
  <2>2. n - i \in J
      BY <1>1, <2>1
  <2>3. PICK m \in J : \A k \in J : m <= k
    <3>1. J \in SUBSET Nat /\ J # {}
        BY <2>2
    <3> HIDE DEF J
    <3> QED BY <3>1, Keeping!LeastNumber
  <2>4. n - m \in I
      BY <2>3
  <2>5. ASSUME NEW j \in I PROVE n - m >= j
    <3>1. n - j \in Nat /\ n - (n - j) = j
        BY <2>5
    <3>2. n - j \in J
        BY <3>1
    <3>3. m <= n - j /\ m \in Nat /\ j \in Nat
        BY <1>1, <2>3, <3>2
    <3> HIDE DEF J
    <3> QED BY <3>3
  <2> QED BY <2>4, <2>5
<1> QED BY <1>2, <1>3

LEMMA StrippedTyped ==
    ASSUME NEW X, NEW s \in Seq(X)
    PROVE  Stripped(s) \in Seq(X)
<1> DEFINE solid == {i \in DOMAIN s : s[i] # Space}
           a == CHOOSE i \in solid : \A j \in solid : i <= j
           b == CHOOSE i \in solid : \A j \in solid : i >= j
<1>1. DOMAIN s = 1 .. Len(s) /\ Len(s) \in Nat /\ \A i \in DOMAIN s : s[i] \in X
    BY SeqFacts
<1>2. CASE solid = {}
  <2>1. Stripped(s) = <<>>
      BY <1>2 DEF Stripped
  <2> QED BY <2>1
<1>3. CASE solid # {}
  <2>1. solid \in SUBSET (1 .. Len(s))
      BY <1>1
  <2>2. /\ \E i \in solid : \A j \in solid : i <= j
        /\ \E i \in solid : \A j \in solid : i >= j
    <3> HIDE DEF solid
    <3> QED BY <1>1, <1>3, <2>1, Ends
  <2>3. a \in solid /\ b \in solid
    <3> HIDE DEF solid
    <3> QED BY <2>2
  <2>4. Stripped(s) = SubSeq(s, a, b)
      BY <1>3 DEF Stripped
  <2> HIDE DEF solid, a, b
  <2>5. a \in Int /\ b \in Int /\ \A i \in a .. b : s[i] \in X
      BY <1>1, <2>1, <2>3
  <2>6. SubSeq(s, a, b) \in Seq(X)
      BY <2>5, SubSeqProperties
  <2> QED BY <2>4, <2>6
<1> QED BY <1>2, <1>3

CollapseNext(p, t, s) == IF s = Space /\ t # <<>> /\ Last(t) = Space THEN t ELSE Append(t, s)
NoElements(p) == <<>>
Collapsing == INSTANCE FoldProofs WITH Op <- CollapseNext, Base <- NoElements

LEMMA CollapsedTyped ==
    ASSUME NEW X, NEW s \in Seq(X)
    PROVE  Collapsed(s) \in Seq(X)
<1>1. Collapsed(s) = Collapsing!Fold(0, s)
    BY DEF Collapsed, Collapsing!Fold, FoldLeft, MapThenFoldSet, Collapsing!Greatest, Max,
           CollapseNext, NoElements
<1>2. PICK acc : /\ acc[0] = <<>>
                 /\ \A k \in 1 .. Len(s) : acc[k] = CollapseNext(0, acc[k - 1], s[k])
                 /\ Collapsing!Fold(0, s) = acc[Len(s)]
    BY Collapsing!FoldUnfolds, Zenon DEF NoElements
<1>3. DOMAIN s = 1 .. Len(s) /\ Len(s) \in Nat /\ \A i \in DOMAIN s : s[i] \in X
    BY SeqFacts
<1> DEFINE Bad == {k \in 0 .. Len(s) : acc[k] \notin Seq(X)}
<1>4. 0 \notin Bad
  <2>1. acc[0] \in Seq(X)
      BY <1>2, EmptySeq
  <2> QED BY <2>1
<1>5. ASSUME NEW k \in 1 .. Len(s), k - 1 \notin Bad PROVE k \notin Bad
  <2>1. acc[k - 1] \in Seq(X) /\ s[k] \in X
      BY <1>3, <1>5
  <2>2. Append(acc[k - 1], s[k]) \in Seq(X)
      BY <2>1
  <2>3. acc[k] = acc[k - 1] \/ acc[k] = Append(acc[k - 1], s[k])
      BY <1>2 DEF CollapseNext
  <2> QED BY <2>1, <2>2, <2>3
<1>6. Bad \in SUBSET (0 .. Len(s))
    OBVIOUS
<1>7. Len(s) \notin Bad
  <2> HIDE DEF Bad
  <2>1. \A k \in 0 .. Len(s) : k \notin Bad
      BY <1>3, <1>4, <1>5, <1>6, Collapsing!NoneFails
  <2> QED BY <1>3, <2>1
<1> QED BY <1>1, <1>2, <1>3, <1>7

LEMMA LoweredTyped ==
    ASSUME NEW s \in Names
    PROVE  Lowered(s) \in Names
<1>1. DOMAIN s = 1 .. Len(s) /\ Len(s) \in Nat /\ \A i \in DOMAIN s : s[i] \in Symbols
    BY SeqFacts DEF Names
<1>2. \A i \in 1 .. Len(s) :
        (IF s[i] \in DOMAIN Lower THEN Lower[s[i]] ELSE s[i]) \in Symbols
    BY <1>1, SubtitlesAssumption DEF Symbols
<1>3. Lowered(s) \in [1 .. Len(s) -> Symbols]
    BY <1>1, <1>2 DEF Lowered
<1> QED BY <1>1, <1>3 DEF Names

\* The name that a file is indexed by, and the one that a video is looked up by.
LEMMA NormalizedTyped ==
    ASSUME NEW s \in Seq(SubtitleMarks \cup Brackets \cup Symbols)
    PROVE  normalize_subtitle_name(s) \in Names
<1>1. Without(s, SubtitleMarks \cup Brackets) \in Names
    BY WithoutTyped DEF Names
<1>2. Lowered(Without(s, SubtitleMarks \cup Brackets)) \in Names
    BY <1>1, LoweredTyped
<1>3. Collapsed(Lowered(Without(s, SubtitleMarks \cup Brackets))) \in Names
    BY <1>2, CollapsedTyped DEF Names
<1>4. Stripped(Collapsed(Lowered(Without(s, SubtitleMarks \cup Brackets)))) \in Names
    BY <1>3, StrippedTyped DEF Names
<1> QED BY <1>4 DEF normalize_subtitle_name

NameOf(f) == normalize_subtitle_name(Stem[f])
LookedUp(v) == normalize_subtitle_name(clean_video_name(v))

LEMMA NamesTyped ==
    /\ \A f \in Subs : NameOf(f) \in Names
    /\ \A v \in Videos : LookedUp(v) \in Names
<1>1. ASSUME NEW f \in Subs PROVE NameOf(f) \in Names
  <2>1. Stem[f] \in Seq(SubtitleMarks \cup Brackets \cup Symbols)
      BY SubtitlesAssumption DEF Symbols
  <2> QED BY <2>1, NormalizedTyped DEF NameOf
<1>2. ASSUME NEW v \in Videos PROVE LookedUp(v) \in Names
  <2> DEFINE X == SubtitleMarks \cup Brackets \cup Symbols
  <2>1. v \in Seq(VideoMarks \cup X)
    <3>1. v \in Seq(VideoMarks \cup SubtitleMarks \cup Brackets \cup Symbols)
        BY SubtitlesAssumption DEF Symbols
    <3>2. VideoMarks \cup SubtitleMarks \cup Brackets \cup Symbols = VideoMarks \cup X
        OBVIOUS
    <3> QED BY <3>1, <3>2
  <2> HIDE DEF X
  <2>2. Without(v, VideoMarks) \in Seq(X)
      BY <2>1, WithoutTyped
  <2>3. clean_video_name(v) \in Seq(X)
      BY <2>2, StrippedTyped DEF clean_video_name
  <2> USE DEF X
  <2> QED BY <2>3, NormalizedTyped DEF LookedUp
<1> QED BY <1>1, <1>2

-----------------------------------------------------------------------------
(* The order of the names: that of the first place where they differ, and    *)
(* beyond its end a name has a 0.                                            *)

Val(s, i) == IF i <= Len(s) THEN Rank[s[i]] + 1 ELSE 0
Places == Nat \ {0}
DifferAt(s, t, i) ==
    (\A j \in 1 .. i - 1 : Val(s, j) = Val(t, j)) /\ Val(s, i) < Val(t, i)

LEMMA ValFacts ==
    ASSUME NEW s \in Names, NEW t \in Names
    PROVE  /\ Len(s) \in Nat /\ DOMAIN s = 1 .. Len(s)
           /\ \A i \in Places : /\ Val(s, i) \in Nat
                                /\ (Val(s, i) = 0 <=> ~(i <= Len(s)))
                                /\ i <= Len(s) <=> i \in DOMAIN s
           /\ \A i \in DOMAIN s : /\ i \in Places /\ i <= Len(s)
                                  /\ Val(s, i) = Rank[s[i]] + 1 /\ Rank[s[i]] \in Nat
           /\ \A i \in DOMAIN s \cap DOMAIN t : Val(s, i) = Val(t, i) <=> s[i] = t[i]
<1>1. /\ DOMAIN s = 1 .. Len(s) /\ Len(s) \in Nat /\ \A i \in DOMAIN s : s[i] \in Symbols
      /\ DOMAIN t = 1 .. Len(t) /\ Len(t) \in Nat /\ \A i \in DOMAIN t : t[i] \in Symbols
    BY SeqFacts DEF Names
<1>2. /\ \A a \in Symbols : Rank[a] \in Nat
      /\ \A a, b \in Symbols : Rank[a] = Rank[b] => a = b
    BY SubtitlesAssumption DEF Symbols
<1>3. \A i \in Places : i \in Nat /\ i > 0
    BY DEF Places
<1>4. ASSUME NEW i \in Places
      PROVE  /\ Val(s, i) \in Nat /\ (Val(s, i) = 0 <=> ~(i <= Len(s)))
             /\ i <= Len(s) <=> i \in DOMAIN s
    BY <1>1, <1>2, <1>3 DEF Val
<1>5. ASSUME NEW i \in DOMAIN s
      PROVE  /\ i \in Places /\ i <= Len(s)
             /\ Val(s, i) = Rank[s[i]] + 1 /\ Rank[s[i]] \in Nat
    BY <1>1, <1>2 DEF Val, Places
<1>6. ASSUME NEW i \in DOMAIN s \cap DOMAIN t PROVE Val(s, i) = Val(t, i) <=> s[i] = t[i]
  <2>1. i <= Len(s) /\ i <= Len(t) /\ s[i] \in Symbols /\ t[i] \in Symbols
      BY <1>1
  <2>2. Val(s, i) = Rank[s[i]] + 1 /\ Val(t, i) = Rank[t[i]] + 1
      BY <2>1 DEF Val
  <2>3. Rank[s[i]] \in Nat /\ Rank[t[i]] \in Nat
      BY <1>2, <2>1
  <2> QED BY <1>2, <2>1, <2>2, <2>3
<1> QED BY <1>1, <1>4, <1>5, <1>6

LEMMA PrefixElements ==
    ASSUME NEW s \in Names, NEW t \in Names
    PROVE  IsPrefix(s, t) <=> Len(s) <= Len(t) /\ \A i \in 1 .. Len(s) : s[i] = t[i]
<1>1. /\ DOMAIN s = 1 .. Len(s) /\ Len(s) \in Nat /\ \A i \in DOMAIN s : s[i] \in Symbols
      /\ DOMAIN t = 1 .. Len(t) /\ Len(t) \in Nat /\ \A i \in DOMAIN t : t[i] \in Symbols
    BY SeqFacts DEF Names
<1>2. SubSeq(s, 1, Len(s)) = s
    BY SubSeqFull DEF Names
<1>3. ASSUME Len(s) <= Len(t)
      PROVE  /\ SubSeq(t, 1, Len(s)) \in Names /\ Len(SubSeq(t, 1, Len(s))) = Len(s)
             /\ \A i \in 1 .. Len(s) : SubSeq(t, 1, Len(s))[i] = t[i]
  <2>1. \A i \in 1 .. Len(s) : t[i] \in Symbols
      BY <1>1, <1>3
  <2>2. 1 \in Int /\ Len(s) \in Int
      BY <1>1
  <2>3. /\ SubSeq(t, 1, Len(s)) \in Seq(Symbols)
        /\ Len(SubSeq(t, 1, Len(s))) = IF 1 <= Len(s) THEN Len(s) - 1 + 1 ELSE 0
        /\ \A i \in 1 .. Len(s) - 1 + 1 : SubSeq(t, 1, Len(s))[i] = t[1 + i - 1]
      BY <2>1, <2>2, SubSeqProperties
  <2> QED BY <1>1, <2>3 DEF Names
<1>4. ASSUME IsPrefix(s, t) PROVE Len(s) <= Len(t) /\ \A i \in 1 .. Len(s) : s[i] = t[i]
  <2>1. Len(s) <= Len(t) /\ s = SubSeq(t, 1, Len(s))
      BY <1>2, <1>4 DEF IsPrefix
  <2> QED BY <1>3, <2>1
<1>5. ASSUME Len(s) <= Len(t), \A i \in 1 .. Len(s) : s[i] = t[i] PROVE IsPrefix(s, t)
  <2>1. s = SubSeq(t, 1, Len(s))
      BY <1>3, <1>5, SeqEqual DEF Names
  <2> QED BY <1>2, <1>5, <2>1 DEF IsPrefix
<1> QED BY <1>4, <1>5

LEMMA PrefixIs ==
    ASSUME NEW s \in Names, NEW t \in Names
    PROVE  IsPrefix(s, t) <=> \A i \in 1 .. Len(s) : Val(s, i) = Val(t, i)
<1>1. /\ Len(s) \in Nat /\ DOMAIN s = 1 .. Len(s)
      /\ \A i \in Places : /\ Val(s, i) \in Nat /\ (Val(s, i) = 0 <=> ~(i <= Len(s)))
                           /\ i <= Len(s) <=> i \in DOMAIN s
      /\ \A i \in DOMAIN s \cap DOMAIN t : Val(s, i) = Val(t, i) <=> s[i] = t[i]
    BY ValFacts
<1>2. /\ Len(t) \in Nat /\ DOMAIN t = 1 .. Len(t)
      /\ \A i \in Places : /\ Val(t, i) \in Nat /\ (Val(t, i) = 0 <=> ~(i <= Len(t)))
                           /\ i <= Len(t) <=> i \in DOMAIN t
    BY ValFacts
<1>3. \A i \in 1 .. Len(s) : i \in Places
    BY <1>1 DEF Places
<1>4. ASSUME IsPrefix(s, t), NEW i \in 1 .. Len(s) PROVE Val(s, i) = Val(t, i)
  <2>1. Len(s) <= Len(t) /\ s[i] = t[i]
      BY <1>4, PrefixElements
  <2>2. i \in DOMAIN s \cap DOMAIN t
      BY <1>1, <1>2, <2>1
  <2> QED BY <1>1, <2>1, <2>2
<1>5. ASSUME \A i \in 1 .. Len(s) : Val(s, i) = Val(t, i) PROVE IsPrefix(s, t)
  <2>1. ASSUME NEW i \in 1 .. Len(s) PROVE i \in DOMAIN t /\ s[i] = t[i]
    <3>1. i <= Len(s) /\ i \in Places /\ Val(s, i) = Val(t, i)
        BY <1>1, <1>3, <1>5
    <3>2. i \in DOMAIN t /\ i \in DOMAIN s
        BY <1>1, <1>2, <3>1
    <3> QED BY <1>1, <3>1, <3>2
  <2>2. Len(s) <= Len(t)
    <3>1. CASE Len(s) = 0
        BY <1>2, <3>1
    <3>2. CASE Len(s) # 0
      <4>1. Len(s) \in 1 .. Len(s)
          BY <1>1, <3>2
      <4>2. Len(s) \in DOMAIN t
          BY <2>1, <4>1
      <4> QED BY <1>1, <1>2, <4>2
    <3> QED BY <3>1, <3>2
  <2> QED BY <2>1, <2>2, PrefixElements
<1> QED BY <1>4, <1>5

LEMMA PrecedesIs ==
    ASSUME NEW s \in Names, NEW t \in Names
    PROVE  Precedes(s, t) <=> \E i \in Places : DifferAt(s, t, i)
<1>1. /\ Len(s) \in Nat /\ DOMAIN s = 1 .. Len(s)
      /\ \A i \in Places : /\ Val(s, i) \in Nat /\ (Val(s, i) = 0 <=> ~(i <= Len(s)))
                           /\ i <= Len(s) <=> i \in DOMAIN s
      /\ \A i \in DOMAIN s : /\ i \in Places /\ i <= Len(s)
                             /\ Val(s, i) = Rank[s[i]] + 1 /\ Rank[s[i]] \in Nat
      /\ \A i \in DOMAIN s \cap DOMAIN t : Val(s, i) = Val(t, i) <=> s[i] = t[i]
    BY ValFacts
<1>2. /\ Len(t) \in Nat /\ DOMAIN t = 1 .. Len(t)
      /\ \A i \in Places : /\ Val(t, i) \in Nat /\ (Val(t, i) = 0 <=> ~(i <= Len(t)))
                           /\ i <= Len(t) <=> i \in DOMAIN t
      /\ \A i \in DOMAIN t : /\ i \in Places /\ i <= Len(t)
                             /\ Val(t, i) = Rank[t[i]] + 1 /\ Rank[t[i]] \in Nat
    BY ValFacts
<1>3. ASSUME IsStrictPrefix(s, t) PROVE \E i \in Places : DifferAt(s, t, i)
  <2>1. IsPrefix(s, t) /\ s # t
      BY <1>3 DEF IsStrictPrefix
  <2>2. \A i \in 1 .. Len(s) : Val(s, i) = Val(t, i)
      BY <2>1, PrefixIs
  <2>3. Len(s) <= Len(t) /\ \A i \in 1 .. Len(s) : s[i] = t[i]
      BY <2>1, PrefixElements
  <2>4. Len(s) # Len(t)
      BY <2>1, <2>3, SeqEqual DEF Names
  <2> DEFINE i == Len(s) + 1
  <2>5. i \in Places /\ ~(i <= Len(s)) /\ i <= Len(t) /\ i - 1 = Len(s)
    <3>1. Len(s) \in Nat /\ Len(t) \in Nat
        BY <1>1, <1>2
    <3>2. Len(s) <= Len(t)
        BY <2>3
    <3> QED BY <2>4, <3>1, <3>2 DEF Places
  <2> HIDE DEF i
  <2>6. Val(s, i) = 0 /\ Val(t, i) # 0 /\ Val(t, i) \in Nat
      BY <1>1, <1>2, <2>5
  <2>7. DifferAt(s, t, i)
      BY <2>2, <2>5, <2>6 DEF DifferAt
  <2> QED BY <2>5, <2>7
<1>4. ASSUME NEW i \in DOMAIN s \cap DOMAIN t, \A j \in 1 .. i - 1 : s[j] = t[j],
             Rank[s[i]] < Rank[t[i]]
      PROVE  \E k \in Places : DifferAt(s, t, k)
  <2>1. i \in Places /\ Val(s, i) < Val(t, i)
      BY <1>1, <1>2, <1>4
  <2>2. ASSUME NEW j \in 1 .. i - 1 PROVE Val(s, j) = Val(t, j)
    <3>1. j \in DOMAIN s \cap DOMAIN t
        BY <1>1, <1>2
    <3> QED BY <1>1, <1>4, <3>1
  <2>3. DifferAt(s, t, i)
      BY <2>1, <2>2 DEF DifferAt
  <2> QED BY <2>1, <2>3
<1>5. ASSUME NEW i \in Places, DifferAt(s, t, i) PROVE Precedes(s, t)
  <2>1. Val(s, i) < Val(t, i) /\ \A j \in 1 .. i - 1 : Val(s, j) = Val(t, j)
      BY <1>5 DEF DifferAt
  <2>2. Val(t, i) # 0 /\ i <= Len(t) /\ i \in DOMAIN t /\ i \in Nat
      BY <1>1, <1>2, <2>1 DEF Places
  <2>3. CASE i <= Len(s)
    <3>1. i \in DOMAIN s \cap DOMAIN t
        BY <1>1, <2>2, <2>3
    <3>2. Rank[s[i]] < Rank[t[i]]
      <4>1. Val(s, i) = Rank[s[i]] + 1 /\ Rank[s[i]] \in Nat
          BY <1>1, <3>1
      <4>2. Val(t, i) = Rank[t[i]] + 1 /\ Rank[t[i]] \in Nat
          BY <1>2, <3>1
      <4> QED BY <2>1, <4>1, <4>2
    <3>3. ASSUME NEW j \in 1 .. i - 1 PROVE s[j] = t[j]
      <4>1. j \in DOMAIN s \cap DOMAIN t
          BY <1>1, <1>2, <2>2, <2>3
      <4> QED BY <1>1, <2>1, <4>1
    <3> QED BY <3>1, <3>2, <3>3 DEF Precedes
  <2>4. CASE ~(i <= Len(s))
    <3>1. \A j \in 1 .. Len(s) : j \in 1 .. i - 1
        BY <1>1, <2>2, <2>4
    <3>2. IsPrefix(s, t)
        BY <2>1, <3>1, PrefixIs
    <3>3. s # t
        BY <2>2, <2>4
    <3> QED BY <3>2, <3>3 DEF Precedes, IsStrictPrefix
  <2> QED BY <2>3, <2>4
<1> QED BY <1>3, <1>4, <1>5 DEF Precedes

LEMMA PrecedesOrders ==
    ASSUME NEW s \in Names, NEW t \in Names
    PROVE  /\ ~Precedes(s, s)
           /\ Precedes(s, t) => ~Precedes(t, s)
           /\ s # t => Precedes(s, t) \/ Precedes(t, s)
<1>1. /\ Len(s) \in Nat /\ DOMAIN s = 1 .. Len(s)
      /\ \A i \in Places : Val(s, i) \in Nat
    BY ValFacts
<1>2. /\ Len(t) \in Nat /\ DOMAIN t = 1 .. Len(t)
      /\ \A i \in Places : Val(t, i) \in Nat
    BY ValFacts
<1>3. ~Precedes(s, s)
  <2>1. \A i \in Places : ~(Val(s, i) < Val(s, i))
      BY <1>1
  <2> QED BY <2>1, PrecedesIs DEF DifferAt
<1>4. ASSUME Precedes(s, t), Precedes(t, s) PROVE FALSE
  <2>1. PICK i \in Places : DifferAt(s, t, i)
      BY <1>4, PrecedesIs
  <2>2. PICK j \in Places : DifferAt(t, s, j)
      BY <1>4, PrecedesIs
  <2>3. /\ Val(s, i) \in Nat /\ Val(t, i) \in Nat /\ Val(s, j) \in Nat /\ Val(t, j) \in Nat
        /\ i \in Nat \ {0} /\ j \in Nat \ {0}
      BY <1>1, <1>2 DEF Places
  <2>4. /\ Val(s, i) < Val(t, i) /\ Val(t, j) < Val(s, j)
        /\ i < j => i \in 1 .. j - 1
        /\ j < i => j \in 1 .. i - 1
      BY <2>1, <2>2, <2>3 DEF DifferAt
  <2>5. ~(i < j) /\ ~(j < i)
      BY <2>1, <2>2, <2>3, <2>4 DEF DifferAt
  <2>6. i = j
      BY <2>3, <2>5
  <2> QED BY <2>3, <2>4, <2>6
<1>5. ASSUME s # t PROVE Precedes(s, t) \/ Precedes(t, s)
  <2> DEFINE D == {i \in Places : Val(s, i) # Val(t, i)}
  <2>1. D # {}
    <3> SUFFICES ASSUME D = {} PROVE FALSE
        OBVIOUS
    <3>1. \A i \in Places : Val(s, i) = Val(t, i)
        OBVIOUS
    <3>2. (\A i \in 1 .. Len(s) : i \in Places) /\ (\A i \in 1 .. Len(t) : i \in Places)
        BY <1>1, <1>2 DEF Places
    <3>3. IsPrefix(s, t) /\ IsPrefix(t, s)
        BY <3>1, <3>2, PrefixIs
    <3>4. /\ Len(s) <= Len(t) /\ Len(t) <= Len(s)
          /\ \A i \in 1 .. Len(s) : s[i] = t[i]
        BY <3>3, PrefixElements
    <3>5. Len(s) = Len(t)
      <4>1. Len(s) \in Nat /\ Len(t) \in Nat
          BY <1>1, <1>2
      <4>2. Len(s) <= Len(t) /\ Len(t) <= Len(s)
          BY <3>4
      <4> HIDE DEF D
      <4> QED BY <4>1, <4>2
    <3> QED BY <1>5, <3>4, <3>5, SeqEqual DEF Names
  <2>2. D \in SUBSET Nat
      BY DEF Places
  <2>3. PICK m \in D : \A i \in D : m <= i
    <3> HIDE DEF D
    <3> QED BY <2>1, <2>2, Keeping!LeastNumber
  <2>4. m \in Places /\ Val(s, m) # Val(t, m)
      BY <2>3
  <2>5. ASSUME NEW j \in 1 .. m - 1 PROVE Val(s, j) = Val(t, j)
    <3>1. j \in Places /\ ~(m <= j)
        BY <2>4 DEF Places
    <3> QED BY <2>3, <3>1
  <2>6. Val(s, m) \in Nat /\ Val(t, m) \in Nat
      BY <1>1, <1>2, <2>4
  <2>7. DifferAt(s, t, m) \/ DifferAt(t, s, m)
    <3> HIDE DEF D
    <3> QED BY <2>4, <2>5, <2>6 DEF DifferAt
  <2> QED BY <2>4, <2>7, PrecedesIs
<1> QED BY <1>3, <1>4, <1>5

LEMMA PrecedesTransitive ==
    ASSUME NEW s \in Names, NEW t \in Names, NEW u \in Names, Precedes(s, t), Precedes(t, u)
    PROVE  Precedes(s, u)
<1>1. PICK i \in Places : DifferAt(s, t, i)
    BY PrecedesIs
<1>2. PICK j \in Places : DifferAt(t, u, j)
    BY PrecedesIs
<1>3. /\ \A k \in Places : Val(s, k) \in Nat
      /\ \A k \in Places : Val(t, k) \in Nat
      /\ \A k \in Places : Val(u, k) \in Nat
    BY ValFacts
<1>4. i \in Nat /\ j \in Nat /\ i > 0 /\ j > 0
    BY DEF Places
<1> DEFINE k == IF i < j THEN i ELSE j
<1>5. k \in Places /\ Val(s, k) < Val(u, k)
  <2>1. CASE i < j
    <3>1. i \in 1 .. j - 1
        BY <1>4, <2>1
    <3>2. Val(s, i) < Val(t, i) /\ Val(t, i) = Val(u, i)
        BY <1>1, <1>2, <3>1 DEF DifferAt
    <3> QED BY <2>1, <3>2
  <2>2. CASE j < i
    <3>1. j \in 1 .. i - 1
        BY <1>4, <2>2
    <3>2. Val(s, j) = Val(t, j) /\ Val(t, j) < Val(u, j) /\ ~(i < j)
        BY <1>1, <1>2, <1>4, <2>2, <3>1 DEF DifferAt
    <3> QED BY <3>2
  <2>3. CASE i = j
    <3>1. Val(s, i) < Val(t, i) /\ Val(t, i) < Val(u, i) /\ ~(i < j)
        BY <1>1, <1>2, <1>4, <2>3 DEF DifferAt
    <3>2. Val(s, i) < Val(u, i)
        BY <1>3, <3>1
    <3> QED BY <2>3, <3>1, <3>2
  <2> QED BY <1>4, <2>1, <2>2, <2>3
<1>6. ASSUME NEW m \in 1 .. k - 1 PROVE Val(s, m) = Val(u, m)
  <2>1. m \in 1 .. i - 1 /\ m \in 1 .. j - 1
      BY <1>4
  <2> HIDE DEF k
  <2> QED BY <1>1, <1>2, <2>1 DEF DifferAt
<1>7. DifferAt(s, u, k)
  <2> HIDE DEF k
  <2> QED BY <1>5, <1>6 DEF DifferAt
<1> HIDE DEF k
<1> QED BY <1>5, <1>7, PrecedesIs

\* The names that start with p follow each other, and none of them is before p.
LEMMA PrefixRuns ==
    ASSUME NEW p \in Names, NEW s \in Names, NEW t \in Names
    PROVE  /\ IsPrefix(p, s) => ~Precedes(s, p)
           /\ IsPrefix(p, t) /\ ~Precedes(s, p) /\ Precedes(s, t) => IsPrefix(p, s)
<1>1. /\ Len(p) \in Nat
      /\ \A i \in Places : Val(p, i) \in Nat /\ (Val(p, i) = 0 <=> ~(i <= Len(p)))
    BY ValFacts
<1>2. \A i \in Places : Val(s, i) \in Nat
    BY ValFacts
<1>3. ASSUME IsPrefix(p, s), Precedes(s, p) PROVE FALSE
  <2>1. PICK i \in Places : DifferAt(s, p, i)
      BY <1>3, PrecedesIs
  <2>2. Val(s, i) < Val(p, i)
      BY <2>1 DEF DifferAt
  <2>3. i \in 1 .. Len(p)
      BY <1>1, <1>2, <2>2 DEF Places
  <2>4. Val(p, i) = Val(s, i)
      BY <1>3, <2>3, PrefixIs
  <2> QED BY <1>2, <2>2, <2>4
<1>4. ASSUME IsPrefix(p, t), ~Precedes(s, p), Precedes(s, t) PROVE IsPrefix(p, s)
  <2>1. PICK i \in Places : DifferAt(s, t, i)
      BY <1>4, PrecedesIs
  <2>2. \A j \in 1 .. Len(p) : Val(p, j) = Val(t, j)
      BY <1>4, PrefixIs
  <2>3. i \in Nat /\ i > 0
      BY DEF Places
  <2>4. ~(i <= Len(p))
    <3> SUFFICES ASSUME i <= Len(p) PROVE FALSE
        OBVIOUS
    <3>1. i \in 1 .. Len(p) /\ \A j \in 1 .. i - 1 : j \in 1 .. Len(p)
        BY <1>1, <2>3
    <3>2. DifferAt(s, p, i)
        BY <2>1, <2>2, <3>1 DEF DifferAt
    <3> QED BY <1>4, <3>2, PrecedesIs
  <2>5. \A j \in 1 .. Len(p) : j \in 1 .. i - 1
      BY <1>1, <2>3, <2>4
  <2>6. \A j \in 1 .. Len(p) : Val(p, j) = Val(s, j)
      BY <2>1, <2>2, <2>5 DEF DifferAt
  <2> QED BY <2>6, PrefixIs
<1> QED BY <1>3, <1>4

-----------------------------------------------------------------------------
(* The sorted keys.                                                          *)

KeysOK(ks) ==
    /\ ks \in Seq(Names)
    /\ \A i, j \in DOMAIN ks : i < j => Precedes(ks[i], ks[j])

LEMMA KeysFacts ==
    ASSUME NEW ks, KeysOK(ks)
    PROVE  /\ ks \in Seq(Names) /\ DOMAIN ks = 1 .. Len(ks) /\ Len(ks) \in Nat
           /\ \A i \in DOMAIN ks : ks[i] \in Names
           /\ \A i, j \in DOMAIN ks : i < j => Precedes(ks[i], ks[j])
           /\ IsInjective(ks)
<1>1. ks \in Seq(Names) /\ \A i, j \in DOMAIN ks : i < j => Precedes(ks[i], ks[j])
    BY DEF KeysOK
<1>2. DOMAIN ks = 1 .. Len(ks) /\ Len(ks) \in Nat /\ \A i \in DOMAIN ks : ks[i] \in Names
    BY <1>1, SeqFacts
<1>3. ASSUME NEW i \in DOMAIN ks, NEW j \in DOMAIN ks, ks[i] = ks[j] PROVE i = j
  <2>1. ~Precedes(ks[i], ks[i])
      BY <1>2, PrecedesOrders
  <2>2. ~(i < j) /\ ~(j < i)
      BY <1>1, <1>3, <2>1
  <2> QED BY <1>2, <2>2
<1> QED BY <1>1, <1>2, <1>3 DEF IsInjective

\* A set of numbers that has all below any of its own counts from 1.
LEMMA FromOne ==
    ASSUME NEW n \in Nat, NEW I \in SUBSET (1 .. n), \A i \in I : \A j \in 1 .. i : j \in I
    PROVE  Cardinality(I) \in 0 .. n /\ I = 1 .. Cardinality(I)
<1>1. CASE I = {}
  <2>1. Cardinality(I) = 0
      BY <1>1, FS_EmptySet
  <2> QED BY <1>1, <2>1
<1>2. CASE I # {}
  <2>1. PICK m \in I : \A j \in I : m >= j
      BY <1>2, Ends
  <2>2. m \in 1 .. n /\ \A j \in I : j \in 1 .. m
      BY <2>1
  <2>3. I = 1 .. m
      BY <2>1, <2>2
  <2>4. Cardinality(1 .. m) = IF 1 > m THEN 0 ELSE m - 1 + 1
      BY <2>2, FS_Interval
  <2>5. Cardinality(I) = m
      BY <2>2, <2>3, <2>4
  <2> QED BY <2>2, <2>3, <2>5
<1> QED BY <1>1, <1>2

LEMMA BisectIs ==
    ASSUME NEW ks, KeysOK(ks), NEW p \in Names
    PROVE  /\ bisect_left(ks, p) \in 0 .. Len(ks)
           /\ \A i \in DOMAIN ks : Precedes(ks[i], p) <=> i <= bisect_left(ks, p)
<1> DEFINE I == {i \in DOMAIN ks : Precedes(ks[i], p)}
<1>1. /\ DOMAIN ks = 1 .. Len(ks) /\ Len(ks) \in Nat /\ \A i \in DOMAIN ks : ks[i] \in Names
      /\ \A i, j \in DOMAIN ks : i < j => Precedes(ks[i], ks[j])
    BY KeysFacts
<1>2. ASSUME NEW i \in I, NEW j \in 1 .. i PROVE j \in I
  <2>1. i \in DOMAIN ks /\ j \in DOMAIN ks /\ Precedes(ks[i], p)
      BY <1>1
  <2>2. j < i \/ j = i
      BY <1>1
  <2>3. Precedes(ks[j], p)
    <3>1. CASE j = i
        BY <2>1, <3>1
    <3>2. CASE j < i
      <4>1. Precedes(ks[j], ks[i])
          BY <1>1, <2>1, <3>2
      <4> QED BY <1>1, <2>1, <4>1, PrecedesTransitive
    <3> QED BY <2>2, <3>1, <3>2
  <2> QED BY <2>1, <2>3
<1>3. I \in SUBSET (1 .. Len(ks))
    BY <1>1
<1>4. Cardinality(I) \in 0 .. Len(ks) /\ I = 1 .. Cardinality(I)
  <2> HIDE DEF I
  <2> QED BY <1>1, <1>2, <1>3, FromOne
<1>5. bisect_left(ks, p) = Cardinality(I)
    BY DEF bisect_left
<1>6. ASSUME NEW i \in DOMAIN ks PROVE Precedes(ks[i], p) <=> i <= Cardinality(I)
  <2>1. Precedes(ks[i], p) <=> i \in I
      OBVIOUS
  <2> HIDE DEF I
  <2>2. i \in 1 .. Len(ks)
      BY <1>1
  <2>3. i \in I <=> i <= Cardinality(I)
      BY <1>1, <1>4, <2>2
  <2> QED BY <2>1, <2>3
<1> HIDE DEF I
<1> QED BY <1>4, <1>5, <1>6

LEMMA InsertAtIs ==
    ASSUME NEW X, NEW s \in Seq(X), NEW c \in 0 .. Len(s), NEW e \in X
    PROVE  /\ InsertAt(s, c + 1, e) \in Seq(X) /\ Len(InsertAt(s, c + 1, e)) = Len(s) + 1
           /\ \A i \in 1 .. Len(s) + 1 :
                InsertAt(s, c + 1, e)[i] =
                  IF i <= c THEN s[i] ELSE IF i = c + 1 THEN e ELSE s[i - 1]
<1> DEFINE n == Len(s)
           a == SubSeq(s, 1, c)
           b == SubSeq(s, c + 1, n)
           ae == a \o <<e>>
           q == ae \o b
<1>1. n \in Nat /\ DOMAIN s = 1 .. n /\ \A i \in 1 .. n : s[i] \in X
    BY SeqFacts
<1>2. c \in Nat /\ c <= n
    BY <1>1
<1>3. a \in Seq(X) /\ Len(a) = c /\ \A i \in 1 .. c : a[i] = s[i]
  <2>1. 1 \in Int /\ c \in Int /\ \A i \in 1 .. c : s[i] \in X
      BY <1>1, <1>2
  <2>2. /\ a \in Seq(X) /\ Len(a) = IF 1 <= c THEN c - 1 + 1 ELSE 0
        /\ \A i \in 1 .. c - 1 + 1 : a[i] = s[1 + i - 1]
      BY <2>1, SubSeqProperties
  <2> HIDE DEF a
  <2> QED BY <1>2, <2>2
<1>4. b \in Seq(X) /\ Len(b) = n - c /\ \A i \in 1 .. n - c : b[i] = s[c + i]
  <2>1. c + 1 \in Int /\ n \in Int /\ \A i \in c + 1 .. n : s[i] \in X
    <3> HIDE DEF n
    <3> QED BY <1>1, <1>2
  <2>2. /\ b \in Seq(X) /\ Len(b) = IF c + 1 <= n THEN n - (c + 1) + 1 ELSE 0
        /\ \A i \in 1 .. n - (c + 1) + 1 : b[i] = s[(c + 1) + i - 1]
    <3> HIDE DEF n
    <3> QED BY <2>1, SubSeqProperties
  <2> HIDE DEF b, n
  <2>3. n - (c + 1) + 1 = n - c /\ \A i \in 1 .. n - c : (c + 1) + i - 1 = c + i
      BY <1>1, <1>2
  <2> QED BY <1>1, <1>2, <2>2, <2>3
<1>5. <<e>> \in Seq(X) /\ Len(<<e>>) = 1 /\ <<e>>[1] = e
    OBVIOUS
<1>6. /\ ae \in Seq(X) /\ Len(ae) = c + 1
      /\ \A i \in 1 .. c + 1 : ae[i] = IF i <= c THEN a[i] ELSE <<e>>[i - c]
  <2> HIDE DEF a, b, n
  <2> QED BY <1>3, <1>5, ConcatProperties
<1>7. /\ q \in Seq(X) /\ Len(q) = (c + 1) + (n - c)
      /\ \A i \in 1 .. (c + 1) + (n - c) : q[i] = IF i <= c + 1 THEN ae[i] ELSE b[i - (c + 1)]
  <2> HIDE DEF ae, b, n
  <2>1. /\ q \in Seq(X) /\ Len(q) = Len(ae) + Len(b)
        /\ \A i \in 1 .. Len(ae) + Len(b) : q[i] = IF i <= Len(ae) THEN ae[i] ELSE b[i - Len(ae)]
    <3>1. ae \in Seq(X) /\ b \in Seq(X)
        BY <1>4, <1>6
    <3> QED BY <3>1, ConcatProperties
  <2>2. Len(ae) = c + 1 /\ Len(b) = n - c
      BY <1>4, <1>6
  <2> HIDE DEF q
  <2> QED BY <2>1, <2>2
<1>8. (c + 1) + (n - c) = n + 1
  <2> HIDE DEF n
  <2> QED BY <1>1, <1>2
<1> HIDE DEF n, a, b, ae, q
<1>9. ASSUME NEW i \in 1 .. n + 1
      PROVE  q[i] = IF i <= c THEN s[i] ELSE IF i = c + 1 THEN e ELSE s[i - 1]
  <2>1. CASE i <= c
    <3>1. i \in 1 .. c /\ i \in 1 .. c + 1 /\ i <= c + 1
        BY <1>1, <1>2, <2>1
    <3> QED BY <1>3, <1>6, <1>7, <1>8, <2>1, <3>1
  <2>2. CASE i = c + 1
    <3>1. i \in 1 .. c + 1 /\ i <= c + 1 /\ ~(i <= c) /\ i - c = 1
        BY <1>1, <1>2, <2>2
    <3> QED BY <1>5, <1>6, <1>7, <1>8, <2>2, <3>1
  <2>3. CASE ~(i <= c + 1)
    <3>1. i - (c + 1) \in 1 .. n - c /\ c + (i - (c + 1)) = i - 1 /\ ~(i <= c) /\ i # c + 1
        BY <1>1, <1>2, <2>3
    <3>2. q[i] = b[i - (c + 1)] /\ b[i - (c + 1)] = s[c + (i - (c + 1))]
        BY <1>4, <1>7, <1>8, <2>3, <3>1
    <3> QED BY <3>1, <3>2
  <2>4. i <= c \/ i = c + 1 \/ ~(i <= c + 1)
      BY <1>1, <1>2
  <2> QED BY <2>1, <2>2, <2>3, <2>4
<1>10. InsertAt(s, c + 1, e) = q
  <2>1. (c + 1) - 1 = c
      BY <1>2
  <2>2. InsertAt(s, c + 1, e) = SubSeq(s, 1, (c + 1) - 1) \o <<e>> \o SubSeq(s, c + 1, Len(s))
      BY DEF InsertAt
  <2>3. q = SubSeq(s, 1, c) \o <<e>> \o SubSeq(s, c + 1, Len(s))
      BY Zenon DEF q, ae, a, b, n
  <2> QED BY <2>1, <2>2, <2>3
<1> QED BY <1>7, <1>8, <1>9, <1>10 DEF n

\* A key that is put where bisect_left says keeps them sorted.
LEMMA InsertedSorted ==
    ASSUME NEW ks, KeysOK(ks), NEW p \in Names, p \notin ToSet(ks)
    PROVE  /\ KeysOK(InsertAt(ks, bisect_left(ks, p) + 1, p))
           /\ ToSet(InsertAt(ks, bisect_left(ks, p) + 1, p)) = ToSet(ks) \cup {p}
<1> DEFINE c == bisect_left(ks, p)
           q == InsertAt(ks, c + 1, p)
           n == Len(ks)
<1>1. /\ ks \in Seq(Names) /\ DOMAIN ks = 1 .. n /\ n \in Nat
      /\ \A i \in DOMAIN ks : ks[i] \in Names
      /\ \A i, j \in DOMAIN ks : i < j => Precedes(ks[i], ks[j])
    BY KeysFacts
<1>2. c \in 0 .. n /\ \A i \in DOMAIN ks : Precedes(ks[i], p) <=> i <= c
    BY BisectIs
<1>3. /\ q \in Seq(Names) /\ Len(q) = n + 1
      /\ \A i \in 1 .. n + 1 :
           q[i] = IF i <= c THEN ks[i] ELSE IF i = c + 1 THEN p ELSE ks[i - 1]
  <2>1. ks \in Seq(Names) /\ c \in 0 .. Len(ks) /\ p \in Names
      BY <1>1, <1>2
  <2> HIDE DEF c
  <2>2. /\ InsertAt(ks, c + 1, p) \in Seq(Names) /\ Len(InsertAt(ks, c + 1, p)) = Len(ks) + 1
        /\ \A i \in 1 .. Len(ks) + 1 :
             InsertAt(ks, c + 1, p)[i] =
               IF i <= c THEN ks[i] ELSE IF i = c + 1 THEN p ELSE ks[i - 1]
      BY <2>1, InsertAtIs
  <2> QED BY <2>2
<1>4. \A i \in DOMAIN ks : ~(i <= c) => Precedes(p, ks[i])
  <2>1. \A i \in DOMAIN ks : ks[i] # p
      BY DEF ToSet
  <2> HIDE DEF c
  <2> QED BY <1>1, <1>2, <2>1, PrecedesOrders
<1> HIDE DEF c, q, n
<1>5. DOMAIN q = 1 .. n + 1
    BY <1>1, <1>3
<1>6. /\ \A i \in 1 .. n + 1 : i <= c => i \in DOMAIN ks
      /\ \A i \in 1 .. n + 1 : ~(i <= c) /\ i # c + 1 => i - 1 \in DOMAIN ks /\ ~(i - 1 <= c)
    BY <1>1, <1>2
<1>7. ASSUME NEW i \in DOMAIN q, NEW j \in DOMAIN q, i < j PROVE Precedes(q[i], q[j])
  <2>1. /\ i \in 1 .. n + 1 /\ j \in 1 .. n + 1 /\ i \in Nat /\ j \in Nat /\ c \in Nat
        /\ c <= n /\ n \in Nat
      BY <1>1, <1>2, <1>5
  <2>2. CASE j <= c
    <3>1. i <= c
        BY <1>7, <2>1, <2>2
    <3> QED BY <1>1, <1>3, <1>6, <1>7, <2>1, <2>2, <3>1
  <2>3. CASE j = c + 1
    <3>1. i <= c /\ ~(j <= c)
        BY <1>7, <2>1, <2>3
    <3> QED BY <1>2, <1>3, <1>6, <2>1, <2>3, <3>1
  <2>4. CASE ~(j <= c) /\ j # c + 1
    <3>1. j - 1 \in DOMAIN ks /\ ~(j - 1 <= c) /\ q[j] = ks[j - 1]
        BY <1>3, <1>6, <2>1, <2>4
    <3>2. CASE i <= c
      <4>1. i < j - 1 /\ i \in DOMAIN ks /\ q[i] = ks[i]
          BY <1>3, <1>6, <2>1, <2>4, <3>2
      <4> QED BY <1>1, <3>1, <4>1
    <3>3. CASE i = c + 1
      <4>1. ~(i <= c)
          BY <2>1, <3>3
      <4>2. q[i] = p
          BY <1>3, <2>1, <3>3, <4>1
      <4> QED BY <1>4, <3>1, <4>2
    <3>4. CASE ~(i <= c) /\ i # c + 1
      <4>1. i - 1 \in DOMAIN ks /\ q[i] = ks[i - 1] /\ i - 1 < j - 1
          BY <1>3, <1>6, <1>7, <2>1, <3>4
      <4> QED BY <1>1, <3>1, <4>1
    <3> QED BY <3>2, <3>3, <3>4
  <2> QED BY <2>2, <2>3, <2>4
<1>8. ToSet(q) = ToSet(ks) \cup {p}
  <2>1. ASSUME NEW i \in 1 .. n + 1 PROVE q[i] \in ToSet(ks) \cup {p}
      BY <1>3, <1>6 DEF ToSet
  <2>2. ASSUME NEW i \in DOMAIN ks PROVE ks[i] \in ToSet(q)
    <3>1. i \in 1 .. n
        BY <1>1
    <3>2. CASE i <= c
      <4>1. i \in 1 .. n + 1 /\ q[i] = ks[i]
          BY <1>1, <1>3, <3>1, <3>2
      <4> QED BY <1>5, <4>1 DEF ToSet
    <3>3. CASE ~(i <= c)
      <4>1. i + 1 \in 1 .. n + 1 /\ ~(i + 1 <= c) /\ i + 1 # c + 1 /\ (i + 1) - 1 = i
          BY <1>1, <1>2, <3>1, <3>3
      <4>2. q[i + 1] = ks[i]
          BY <1>3, <4>1
      <4> QED BY <1>5, <4>1, <4>2 DEF ToSet
    <3> QED BY <3>2, <3>3
  <2>3. p \in ToSet(q)
    <3>1. c + 1 \in 1 .. n + 1 /\ ~(c + 1 <= c)
        BY <1>1, <1>2
    <3>2. q[c + 1] = p
        BY <1>3, <3>1
    <3> QED BY <1>5, <3>1, <3>2 DEF ToSet
  <2> QED BY <1>5, <2>1, <2>2, <2>3 DEF ToSet
<1>9. KeysOK(q)
    BY <1>3, <1>7 DEF KeysOK
<1> QED BY <1>8, <1>9 DEF q, c

LEMMA KeptSorted ==
    ASSUME NEW ks, KeysOK(ks), NEW S
    PROVE  KeysOK(Kept(ks, S)) /\ ToSet(Kept(ks, S)) = ToSet(ks) \cap S
<1> DEFINE k == Kept(ks, S)
<1>1. /\ ks \in Seq(Names) /\ DOMAIN ks = 1 .. Len(ks) /\ Len(ks) \in Nat
      /\ \A i, j \in DOMAIN ks : i < j => Precedes(ks[i], ks[j])
    BY KeysFacts
<1>2. k \in Seq(Names) /\ \E place : Keeping!Keeps(k, ks, S, Len(ks), place)
    BY <1>1, KeptFacts
<1>3. PICK place : Keeping!Keeps(k, ks, S, Len(ks), place)
    BY <1>2
<1>4. ToSet(k) = ToSet(ks) \cap S
    BY <1>1, KeptSet
<1> HIDE DEF k
<1>5. DOMAIN k = 1 .. Len(k)
    BY <1>2
<1>6. ASSUME NEW i \in DOMAIN k, NEW j \in DOMAIN k, i < j PROVE Precedes(k[i], k[j])
  <2>1. /\ place[i] \in DOMAIN ks /\ place[j] \in DOMAIN ks /\ place[i] < place[j]
        /\ k[i] = ks[place[i]] /\ k[j] = ks[place[j]]
      BY <1>1, <1>3, <1>5, <1>6 DEF Keeping!Keeps
  <2> QED BY <1>1, <2>1
<1> QED BY <1>2, <1>4, <1>6 DEF KeysOK, k

LEMMA SubSeqSet ==
    ASSUME NEW X, NEW s \in Seq(X), NEW a \in Nat \ {0}, NEW b \in 0 .. Len(s)
    PROVE  SubSeq(s, a, b) \in Seq(X) /\ ToSet(SubSeq(s, a, b)) = {s[i] : i \in a .. b}
<1> DEFINE t == SubSeq(s, a, b)
<1>1. Len(s) \in Nat /\ DOMAIN s = 1 .. Len(s) /\ \A i \in DOMAIN s : s[i] \in X
    BY SeqFacts
<1>2. a \in Int /\ b \in Int /\ \A i \in a .. b : s[i] \in X
    BY <1>1
<1>3. /\ t \in Seq(X) /\ Len(t) = IF a <= b THEN b - a + 1 ELSE 0
      /\ \A i \in 1 .. b - a + 1 : t[i] = s[a + i - 1]
    BY <1>2, SubSeqProperties
<1>4. DOMAIN t = 1 .. Len(t)
    BY <1>3, SeqFacts
<1> HIDE DEF t
<1>5. DOMAIN t = 1 .. b - a + 1
    BY <1>2, <1>3, <1>4
<1>6. \A i \in 1 .. b - a + 1 : a + i - 1 \in a .. b
    BY <1>2
<1>7. \A i \in a .. b : i - a + 1 \in 1 .. b - a + 1 /\ a + (i - a + 1) - 1 = i
    BY <1>2
<1>8. ToSet(t) = {s[i] : i \in a .. b}
  <2>1. \A i \in DOMAIN t : t[i] \in {s[m] : m \in a .. b}
      BY <1>3, <1>5, <1>6
  <2>2. ASSUME NEW i \in a .. b PROVE s[i] \in ToSet(t)
    <3>1. i - a + 1 \in DOMAIN t /\ t[i - a + 1] = s[i]
        BY <1>3, <1>5, <1>7
    <3> QED BY <3>1 DEF ToSet
  <2> QED BY <2>1, <2>2 DEF ToSet
<1> QED BY <1>3, <1>8 DEF t

\* From where bisect_left points to, the keys with the prefix p follow each
\* other without a gap.
LEMMA RunIs ==
    ASSUME NEW ks, KeysOK(ks), NEW p \in Names, NEW a, a = bisect_left(ks, p) + 1,
           NEW R, R = {i \in a .. Len(ks) : \A j \in a .. i : IsPrefix(p, ks[j])}
    PROVE  /\ SubSeq(ks, a, a + Cardinality(R) - 1) \in Seq(Names)
           /\ ToSet(SubSeq(ks, a, a + Cardinality(R) - 1)) = {k \in ToSet(ks) : IsPrefix(p, k)}
<1> DEFINE n == Len(ks)
           b == a + Cardinality(R) - 1
<1>1. /\ ks \in Seq(Names) /\ DOMAIN ks = 1 .. n /\ n \in Nat
      /\ \A i \in DOMAIN ks : ks[i] \in Names
      /\ \A i, j \in DOMAIN ks : i < j => Precedes(ks[i], ks[j])
    BY KeysFacts
<1>2. a \in 1 .. n + 1 /\ \A i \in DOMAIN ks : Precedes(ks[i], p) <=> ~(a <= i)
  <2>1. /\ bisect_left(ks, p) \in 0 .. n
        /\ \A i \in DOMAIN ks : Precedes(ks[i], p) <=> i <= bisect_left(ks, p)
      BY BisectIs
  <2> QED BY <1>1, <2>1
<1>3. a \in Nat \ {0} /\ a \in Int /\ \A i \in a .. n : i \in DOMAIN ks /\ a <= i
    BY <1>1, <1>2
<1>4. \A i \in R : i \in a .. n /\ i \in DOMAIN ks /\ IsPrefix(p, ks[i])
  <2> HIDE DEF n
  <2>1. \A i \in R : i \in a .. n /\ i \in a .. i /\ \A j \in a .. i : IsPrefix(p, ks[j])
      BY <1>1, <1>3 DEF n
  <2> QED BY <1>3, <2>1
<1>5. ASSUME NEW i \in DOMAIN ks, IsPrefix(p, ks[i]) PROVE i \in R
  <2>1. ~Precedes(ks[i], p)
      BY <1>1, <1>5, PrefixRuns
  <2>2. i \in a .. n
    <3> HIDE DEF n
    <3> QED BY <1>1, <1>2, <2>1, <1>3
  <2>3. ASSUME NEW j \in a .. i PROVE IsPrefix(p, ks[j])
    <3>1. j \in DOMAIN ks /\ a <= j /\ (j < i \/ j = i)
      <4> HIDE DEF n
      <4> QED BY <1>1, <1>3, <2>2
    <3>2. ~Precedes(ks[j], p)
        BY <1>2, <3>1
    <3>3. CASE j = i
        BY <1>5, <3>3
    <3>4. CASE j < i
      <4>1. Precedes(ks[j], ks[i])
          BY <1>1, <3>1, <3>4
      <4> QED BY <1>1, <1>5, <3>1, <3>2, <4>1, PrefixRuns
    <3> QED BY <3>1, <3>3, <3>4
  <2> QED BY <2>2, <2>3
<1>6. b \in 0 .. n /\ R = a .. b
  <2>1. CASE R = {}
    <3>1. Cardinality(R) = 0
        BY <2>1, FS_EmptySet
    <3>2. b = a - 1
        BY <1>3, <3>1
    <3> HIDE DEF b, n
    <3> QED BY <1>1, <1>2, <2>1, <3>2
  <2>2. CASE R # {}
    <3>1. R \in SUBSET (1 .. n)
        BY <1>1, <1>4
    <3>2. PICK m \in R : \A j \in R : m >= j
      <4>1. n \in Nat
          BY <1>1
      <4> HIDE DEF n
      <4> QED BY <2>2, <3>1, <4>1, Ends
    <3>3. m \in a .. n /\ \A j \in a .. m : IsPrefix(p, ks[j])
        BY <3>2
    <3>4. R = a .. m
      <4>1. ASSUME NEW j \in R PROVE j \in a .. m
        <5> HIDE DEF n
        <5> QED BY <1>3, <1>4, <3>2, <3>3
      <4>2. ASSUME NEW j \in a .. m PROVE j \in R
        <5>1. j \in DOMAIN ks
          <6> HIDE DEF n
          <6> QED BY <1>3, <3>3
        <5> QED BY <1>5, <3>3, <5>1
      <4> QED BY <4>1, <4>2
    <3>5. Cardinality(a .. m) = IF a > m THEN 0 ELSE m - a + 1
        BY <1>3, <3>3, FS_Interval
    <3>6. a <= m /\ m \in Nat /\ m <= n
      <4> HIDE DEF n
      <4> QED BY <1>1, <1>3, <3>3
    <3>7. Cardinality(R) = m - a + 1
      <4>1. Cardinality(R) = Cardinality(a .. m)
          BY <3>4, Zenon
      <4>2. ~(a > m)
          BY <1>3, <3>6
      <4> QED BY <3>5, <4>1, <4>2
    <3>8. b = m
        BY <1>3, <3>6, <3>7
    <3> HIDE DEF b, n
    <3> QED BY <1>1, <3>4, <3>6, <3>8
  <2> QED BY <2>1, <2>2
<1> HIDE DEF b, n
<1>7. SubSeq(ks, a, b) \in Seq(Names) /\ ToSet(SubSeq(ks, a, b)) = {ks[i] : i \in a .. b}
    BY <1>1, <1>3, <1>6, SubSeqSet DEF n
<1>8. {ks[i] : i \in a .. b} = {k \in ToSet(ks) : IsPrefix(p, k)}
  <2>1. \A i \in a .. b : ks[i] \in ToSet(ks) /\ IsPrefix(p, ks[i])
      BY <1>4, <1>6 DEF ToSet
  <2>2. \A k \in ToSet(ks) : IsPrefix(p, k) => \E i \in a .. b : k = ks[i]
      BY <1>5, <1>6 DEF ToSet
  <2> QED BY <2>1, <2>2
<1> QED BY <1>7, <1>8 DEF b

-----------------------------------------------------------------------------
(* The tables of an index.                                                   *)

TableOK(table) ==
    /\ \A key : Listed(table, key) \in Seq(Subs)
    /\ \A key \in DOMAIN table : table[key] # <<>>

LEMMA ListHas ==
    ASSUME NEW X, NEW s \in Seq(X), NEW e \in X
    PROVE  /\ Append(s, e) \in Seq(X) /\ ToSet(Append(s, e)) = ToSet(s) \cup {e}
           /\ Contains(s, e) <=> e \in ToSet(s)
           /\ s = <<>> <=> ToSet(s) = {}
<1>1. DOMAIN s = 1 .. Len(s) /\ Len(s) \in Nat
    BY SeqFacts
<1>2. /\ Append(s, e) \in Seq(X) /\ Len(Append(s, e)) = Len(s) + 1
      /\ \A i \in 1 .. Len(s) : Append(s, e)[i] = s[i]
      /\ Append(s, e)[Len(s) + 1] = e
    BY AppendProperties
<1>3. DOMAIN Append(s, e) = 1 .. Len(s) + 1
    BY <1>2, SeqFacts
<1>4. \A i : i \in 1 .. Len(s) + 1 <=> i \in 1 .. Len(s) \/ i = Len(s) + 1
    BY <1>1
<1>5. ToSet(Append(s, e)) = ToSet(s) \cup {e}
  <2> DEFINE q == Append(s, e)
  <2> HIDE DEF q
  <2>1. /\ DOMAIN q = 1 .. Len(s) + 1 /\ q[Len(s) + 1] = e
        /\ \A i \in 1 .. Len(s) : q[i] = s[i]
      BY <1>2, <1>3 DEF q
  <2>2. ToSet(q) = ToSet(s) \cup {e}
    <3>1. \A i \in DOMAIN q : q[i] \in ToSet(s) \cup {e}
        BY <1>1, <1>4, <2>1 DEF ToSet
    <3>2. \A i \in DOMAIN s : s[i] \in ToSet(q)
        BY <1>1, <1>4, <2>1 DEF ToSet
    <3>3. e \in ToSet(q)
        BY <1>4, <2>1 DEF ToSet
    <3> QED BY <3>1, <3>2, <3>3 DEF ToSet
  <2> QED BY <2>2 DEF q
<1>6. Contains(s, e) <=> e \in ToSet(s)
    BY <1>1 DEF Contains, ToSet
<1>7. s = <<>> <=> ToSet(s) = {}
  <2>1. s = <<>> => ToSet(s) = {}
      BY DEF ToSet
  <2>2. ASSUME s # <<>> PROVE ToSet(s) # {}
    <3>1. 1 \in DOMAIN s
        BY <1>1, <2>2, EmptySeq
    <3> QED BY <3>1 DEF ToSet
  <2> QED BY <2>1, <2>2
<1> QED BY <1>2, <1>5, <1>6, <1>7

\* What an addition and a removal do to the lists of a table.
GrownBy(q, table, key, f) ==
    \A k : ToSet(Listed(q, k)) = ToSet(Listed(table, k)) \cup (IF k = key THEN {f} ELSE {})
ShrunkBy(q, table, key, f) ==
    \A k : ToSet(Listed(q, k)) = ToSet(Listed(table, k)) \ (IF k = key THEN {f} ELSE {})

LEMMA AddedIs ==
    ASSUME NEW table, TableOK(table), NEW key, NEW f \in Subs
    PROVE  /\ TableOK(AddedTo(table, key, f))
           /\ GrownBy(AddedTo(table, key, f), table, key, f)
           /\ DOMAIN AddedTo(table, key, f) = DOMAIN table \cup {key}
<1> DEFINE q == AddedTo(table, key, f)
           list == Listed(table, key)
           new == IF Contains(list, f) THEN list ELSE Append(list, f)
<1>1. (\A k : Listed(table, k) \in Seq(Subs)) /\ \A k \in DOMAIN table : table[k] # <<>>
    BY DEF TableOK
<1>2. q = [k \in DOMAIN table \cup {key} |-> IF k # key THEN table[k] ELSE new]
    BY DEF AddedTo
<1>3. new \in Seq(Subs) /\ ToSet(new) = ToSet(list) \cup {f}
  <2>1. list \in Seq(Subs)
      BY <1>1
  <2> HIDE DEF list
  <2> QED BY <2>1, ListHas
<1> HIDE DEF q, new
<1>4. /\ DOMAIN q = DOMAIN table \cup {key} /\ q[key] = new
      /\ \A k \in DOMAIN table : k # key => q[k] = table[k]
    BY <1>2
<1>5. \A k : Listed(q, k) = IF k = key THEN new ELSE Listed(table, k)
    BY <1>4 DEF Listed
<1>6. new # <<>>
    BY <1>3, ListHas
<1>7. TableOK(q)
    BY <1>1, <1>3, <1>4, <1>5, <1>6 DEF TableOK
<1>8. GrownBy(q, table, key, f)
    BY <1>3, <1>5 DEF GrownBy
<1> QED BY <1>4, <1>7, <1>8 DEF q

LEMMA RemovedIs ==
    ASSUME NEW table, TableOK(table), NEW key, NEW f \in Subs
    PROVE  /\ TableOK(RemovedFrom(table, key, f))
           /\ ShrunkBy(RemovedFrom(table, key, f), table, key, f)
           /\ DOMAIN RemovedFrom(table, key, f) \subseteq DOMAIN table
<1> DEFINE q == RemovedFrom(table, key, f)
           list == Listed(table, key)
           S == {g \in ToSet(list) : g # f}
           new == Kept(list, S)
<1>1. (\A k : Listed(table, k) \in Seq(Subs)) /\ \A k \in DOMAIN table : table[k] # <<>>
    BY DEF TableOK
<1>2. q = [k \in IF new = <<>> THEN DOMAIN table \ {key} ELSE DOMAIN table |->
             IF k = key THEN new ELSE table[k]]
    BY DEF RemovedFrom, Selected
<1>3. new \in Seq(Subs) /\ ToSet(new) = ToSet(list) \ {f}
  <2>1. list \in Seq(Subs)
      BY <1>1
  <2>2. new \in Seq(Subs \cap S) /\ ToSet(new) = ToSet(list) \cap S
    <3> HIDE DEF list, S
    <3> QED BY <2>1, KeptSet
  <2>3. ToSet(list) \cap S = ToSet(list) \ {f}
      OBVIOUS
  <2>4. Subs \cap S \subseteq Subs
      OBVIOUS
  <2> HIDE DEF new, S, list
  <2> QED BY <2>2, <2>3, <2>4, SeqMonotonic
<1> HIDE DEF q, new
<1>4. key \notin DOMAIN table => list = <<>>
    BY DEF Listed
<1>5. key \notin DOMAIN table => new = <<>>
  <2>1. \A s \in Seq(Subs) : f \in Subs => (s = <<>> <=> ToSet(s) = {})
      BY ListHas
  <2>2. ToSet(<<>>) = {}
      BY DEF ToSet
  <2> HIDE DEF list
  <2> QED BY <1>3, <1>4, <2>1, <2>2
<1>6. /\ DOMAIN q = IF new = <<>> THEN DOMAIN table \ {key} ELSE DOMAIN table
      /\ \A k \in DOMAIN q : q[k] = IF k = key THEN new ELSE table[k]
    BY <1>2
<1>7. \A k : Listed(q, k) = IF k = key THEN new ELSE Listed(table, k)
    BY <1>5, <1>6 DEF Listed
<1>8. TableOK(q)
    BY <1>1, <1>3, <1>6, <1>7 DEF TableOK
<1>9. ShrunkBy(q, table, key, f)
    BY <1>3, <1>7 DEF ShrunkBy
<1> QED BY <1>6, <1>8, <1>9 DEF q

-----------------------------------------------------------------------------
(* The index: what its three tables and its keys say is what was noted of    *)
(* each file when it was added.                                              *)

FilesOfKey(noted, key, n) == {f \in DOMAIN noted : noted[f][n] = key}

IndexInv(index) ==
    /\ DOMAIN index.metadata \subseteq Subs
    /\ \A f \in DOMAIN index.metadata : index.metadata[f][2] = NameOf(f)
    /\ TableOK(index.hash_index) /\ TableOK(index.name_index)
    /\ \A key : ToSet(Listed(index.hash_index, key)) = FilesOfKey(index.metadata, key, 1)
    /\ \A key : ToSet(Listed(index.name_index, key)) =
                  IF key = <<>> THEN {} ELSE FilesOfKey(index.metadata, key, 2)
    /\ KeysOK(index.keys) /\ ToSet(index.keys) = DOMAIN index.name_index

LEMMA IndexNames ==
    ASSUME NEW index, IndexInv(index)
    PROVE  /\ \A key : key \in DOMAIN index.name_index <=>
                         key # <<>> /\ FilesOfKey(index.metadata, key, 2) # {}
           /\ \A key \in DOMAIN index.name_index :
                /\ key \in Names /\ index.name_index[key] \in Seq(Subs)
                /\ ToSet(index.name_index[key]) = FilesOfKey(index.metadata, key, 2)
<1> DEFINE table == index.name_index
           noted == index.metadata
<1>1. /\ \A key : Listed(table, key) \in Seq(Subs)
      /\ \A key \in DOMAIN table : table[key] # <<>>
      /\ \A key : ToSet(Listed(table, key)) =
                    IF key = <<>> THEN {} ELSE FilesOfKey(noted, key, 2)
      /\ DOMAIN noted \subseteq Subs /\ \A f \in DOMAIN noted : noted[f][2] = NameOf(f)
    BY DEF IndexInv, TableOK
<1>2. \A s \in Seq(Subs) : s = <<>> <=> ToSet(s) = {}
  <2>1. ASSUME NEW s \in Seq(Subs), s # <<>> PROVE ToSet(s) # {}
    <3>1. 1 \in DOMAIN s
        BY <2>1, EmptySeq
    <3> QED BY <3>1 DEF ToSet
  <2>2. ToSet(<<>>) = {}
      BY DEF ToSet
  <2> QED BY <2>1, <2>2
<1> HIDE DEF table, noted
<1>3. \A key : /\ key \in DOMAIN table => Listed(table, key) = table[key]
               /\ key \notin DOMAIN table => Listed(table, key) = <<>>
    BY DEF Listed
<1>4. ASSUME NEW key, key \in DOMAIN table
      PROVE  /\ table[key] \in Seq(Subs) /\ ToSet(table[key]) # {}
             /\ key # <<>> /\ ToSet(table[key]) = FilesOfKey(noted, key, 2)
    BY <1>1, <1>2, <1>3, <1>4
<1>5. ASSUME NEW key, key # <<>>, FilesOfKey(noted, key, 2) # {} PROVE key \in DOMAIN table
  <2>1. ToSet(Listed(table, key)) # {}
      BY <1>1, <1>5
  <2>2. Listed(table, key) # <<>>
      BY <1>1, <1>2, <2>1
  <2> QED BY <1>3, <2>2
<1>6. ASSUME NEW key \in DOMAIN table PROVE key \in Names
  <2>1. PICK f \in DOMAIN noted : noted[f][2] = key
      BY <1>4 DEF FilesOfKey
  <2> QED BY <1>1, <2>1, NamesTyped
<1> QED BY <1>4, <1>5, <1>6 DEF table, noted

LEMMA EmptyIndexInv == IndexInv(EmptyIndex)
<1>1. /\ EmptyIndex.hash_index = <<>> /\ EmptyIndex.name_index = <<>>
      /\ EmptyIndex.keys = <<>> /\ EmptyIndex.metadata = <<>>
    BY DEF EmptyIndex
<1>2. DOMAIN <<>> = {} /\ ToSet(<<>>) = {} /\ (\A key : Listed(<<>>, key) = <<>>)
    BY DEF ToSet, Listed
<1>3. TableOK(<<>>) /\ KeysOK(<<>>) /\ \A key, n : FilesOfKey(<<>>, key, n) = {}
  <2>1. TableOK(<<>>)
    <3>1. <<>> \in Seq(Subs)
        OBVIOUS
    <3>2. (\A key : Listed(<<>>, key) \in Seq(Subs)) /\ \A key \in DOMAIN <<>> : <<>>[key] # <<>>
        BY <1>2, <3>1, Zenon
    <3> QED BY <3>2, Zenon DEF TableOK
  <2>2. KeysOK(<<>>)
      BY DEF KeysOK
  <2>3. \A key, n : FilesOfKey(<<>>, key, n) = {}
      BY DEF FilesOfKey
  <2> QED BY <2>1, <2>2, <2>3
<1> QED BY <1>1, <1>2, <1>3, Zenon DEF IndexInv

\* add_file in a directory d.
NotedToo(d, noted, f) ==
    [g \in DOMAIN noted \cup {f} |-> IF g = f THEN <<d[f], NameOf(f)>> ELSE noted[g]]
AddFile(d, index, f) ==
    IF f \notin DOMAIN d \/ f \in DOMAIN index.metadata THEN index
    ELSE [hash_index |-> AddedTo(index.hash_index, d[f], f),
          name_index |-> Named(index, f, NameOf(f)),
          keys       |-> Insort(index, NameOf(f)),
          metadata   |-> NotedToo(d, index.metadata, f)]

LEMMA AddFileIs == \A index, f : add_file(index, f) = AddFile(directory, index, f)
BY DEF add_file, AddFile, NotedToo, NameOf, Present

IsNoted(q, d, noted, f) ==
    /\ DOMAIN q = DOMAIN noted \cup {f} /\ q[f] = <<d[f], NameOf(f)>>
    /\ \A g \in DOMAIN noted : q[g] = noted[g]
    /\ \A key : FilesOfKey(q, key, 1) =
                  FilesOfKey(noted, key, 1) \cup (IF key = d[f] THEN {f} ELSE {})
    /\ \A key : FilesOfKey(q, key, 2) =
                  FilesOfKey(noted, key, 2) \cup (IF key = NameOf(f) THEN {f} ELSE {})

LEMMA NotedFacts ==
    ASSUME NEW d, NEW noted, NEW f, f \notin DOMAIN noted
    PROVE  IsNoted(NotedToo(d, noted, f), d, noted, f)
<1> DEFINE q == NotedToo(d, noted, f)
<1>1. /\ DOMAIN q = DOMAIN noted \cup {f} /\ q[f] = <<d[f], NameOf(f)>>
      /\ \A g \in DOMAIN noted : q[g] = noted[g]
    BY DEF NotedToo
<1> HIDE DEF q
<1>2. q[f][1] = d[f] /\ q[f][2] = NameOf(f)
    BY <1>1
<1>3. \A key : /\ FilesOfKey(q, key, 1) =
                    FilesOfKey(noted, key, 1) \cup (IF key = d[f] THEN {f} ELSE {})
               /\ FilesOfKey(q, key, 2) =
                    FilesOfKey(noted, key, 2) \cup (IF key = NameOf(f) THEN {f} ELSE {})
    BY <1>1, <1>2 DEF FilesOfKey
<1>4. IsNoted(q, d, noted, f)
    BY <1>1, <1>3 DEF IsNoted
<1> QED BY <1>4 DEF q

LEMMA AddFileKeeps ==
    ASSUME NEW d, NEW index, IndexInv(index), NEW f \in Subs
    PROVE  /\ IndexInv(AddFile(d, index, f))
           /\ DOMAIN AddFile(d, index, f).metadata =
                DOMAIN index.metadata \cup ({f} \cap DOMAIN d)
<1>1. CASE f \notin DOMAIN d \/ f \in DOMAIN index.metadata
  <2>1. AddFile(d, index, f) = index
      BY <1>1 DEF AddFile
  <2> QED BY <1>1, <2>1
<1>2. CASE f \in DOMAIN d /\ f \notin DOMAIN index.metadata
  <2> DEFINE name == NameOf(f)
             hashes == AddedTo(index.hash_index, d[f], f)
             named == Named(index, f, name)
             ks == Insort(index, name)
             noted == NotedToo(d, index.metadata, f)
             q == AddFile(d, index, f)
  <2>1. q = [hash_index |-> hashes, name_index |-> named, keys |-> ks, metadata |-> noted]
      BY <1>2 DEF AddFile
  <2>2. /\ DOMAIN noted = DOMAIN index.metadata \cup {f}
        /\ noted[f] = <<d[f], name>>
        /\ \A g \in DOMAIN index.metadata : noted[g] = index.metadata[g]
        /\ \A key : FilesOfKey(noted, key, 1) =
                      FilesOfKey(index.metadata, key, 1) \cup (IF key = d[f] THEN {f} ELSE {})
        /\ \A key : FilesOfKey(noted, key, 2) =
                      FilesOfKey(index.metadata, key, 2) \cup (IF key = name THEN {f} ELSE {})
    <3>1. IsNoted(noted, d, index.metadata, f)
        BY <1>2, NotedFacts
    <3> HIDE DEF noted
    <3> QED BY <3>1 DEF IsNoted
  <2>3. /\ DOMAIN index.metadata \subseteq Subs
        /\ \A g \in DOMAIN index.metadata : index.metadata[g][2] = NameOf(g)
        /\ TableOK(index.hash_index) /\ TableOK(index.name_index)
        /\ \A key : ToSet(Listed(index.hash_index, key)) = FilesOfKey(index.metadata, key, 1)
        /\ \A key : ToSet(Listed(index.name_index, key)) =
                      IF key = <<>> THEN {} ELSE FilesOfKey(index.metadata, key, 2)
        /\ KeysOK(index.keys) /\ ToSet(index.keys) = DOMAIN index.name_index
      BY DEF IndexInv
  <2>4. TableOK(hashes) /\ \A key : ToSet(Listed(hashes, key)) = FilesOfKey(noted, key, 1)
    <3>1. /\ TableOK(hashes)
          /\ \A key : ToSet(Listed(hashes, key)) =
                        ToSet(Listed(index.hash_index, key)) \cup (IF key = d[f] THEN {f} ELSE {})
      <4>1. TableOK(index.hash_index)
          BY <2>3
      <4>2. TableOK(hashes) /\ GrownBy(hashes, index.hash_index, d[f], f)
          BY <4>1, AddedIs
      <4> HIDE DEF hashes
      <4> QED BY <4>2, Zenon DEF GrownBy
    <3> HIDE DEF hashes, noted
    <3>2. ASSUME NEW key PROVE ToSet(Listed(hashes, key)) = FilesOfKey(noted, key, 1)
      <4>1. FilesOfKey(noted, key, 1) =
              FilesOfKey(index.metadata, key, 1) \cup (IF key = d[f] THEN {f} ELSE {})
          BY <2>2
      <4>2. ToSet(Listed(index.hash_index, key)) = FilesOfKey(index.metadata, key, 1)
          BY <2>3
      <4>3. ToSet(Listed(hashes, key)) =
              ToSet(Listed(index.hash_index, key)) \cup (IF key = d[f] THEN {f} ELSE {})
          BY <3>1
      <4> QED BY <4>1, <4>2, <4>3, Zenon
    <3> QED BY <3>1, <3>2
  <2>5. name \in Names
      BY NamesTyped
  <2>6. name # <<>> => /\ TableOK(AddedTo(index.name_index, name, f))
                       /\ GrownBy(AddedTo(index.name_index, name, f), index.name_index, name, f)
                       /\ DOMAIN AddedTo(index.name_index, name, f) =
                            DOMAIN index.name_index \cup {name}
    <3>1. TableOK(index.name_index)
        BY <2>3
    <3> HIDE DEF name
    <3> QED BY <3>1, AddedIs
  <2>7. /\ name = <<>> => named = index.name_index
        /\ name # <<>> => named = AddedTo(index.name_index, name, f)
      BY DEF Named
  <2>8. /\ name = <<>> \/ name \in DOMAIN index.name_index => ks = index.keys
        /\ name # <<>> /\ name \notin DOMAIN index.name_index =>
             ks = InsertAt(index.keys, bisect_left(index.keys, name) + 1, name)
      BY DEF Insort
  <2> HIDE DEF name, hashes, named, ks, noted, q
  <2>9. /\ TableOK(named)
        /\ \A key : ToSet(Listed(named, key)) =
                      IF key = <<>> THEN {} ELSE FilesOfKey(noted, key, 2)
    <3>1. CASE name = <<>>
      <4>1. named = index.name_index
          BY <2>7, <3>1
      <4>2. \A key : key # <<>> => FilesOfKey(noted, key, 2) = FilesOfKey(index.metadata, key, 2)
          BY <2>2, <3>1
      <4> QED BY <2>3, <4>1, <4>2
    <3>2. CASE name # <<>>
      <4>1. TableOK(named) /\ GrownBy(named, index.name_index, name, f)
          BY <2>6, <2>7, <3>2
      <4>2. ASSUME NEW key, key # <<>>
            PROVE  ToSet(Listed(named, key)) = FilesOfKey(noted, key, 2)
        <5>1. FilesOfKey(noted, key, 2) =
                FilesOfKey(index.metadata, key, 2) \cup (IF key = name THEN {f} ELSE {})
            BY <2>2
        <5>2. ToSet(Listed(index.name_index, key)) = FilesOfKey(index.metadata, key, 2)
            BY <2>3, <4>2
        <5>3. ToSet(Listed(named, key)) =
                ToSet(Listed(index.name_index, key)) \cup (IF key = name THEN {f} ELSE {})
            BY <4>1, Zenon DEF GrownBy
        <5> QED BY <5>1, <5>2, <5>3, Zenon
      <4>3. ToSet(Listed(named, <<>>)) = {}
        <5>1. ToSet(Listed(index.name_index, <<>>)) = {}
            BY <2>3
        <5>2. ToSet(Listed(named, <<>>)) =
                ToSet(Listed(index.name_index, <<>>)) \cup (IF <<>> = name THEN {f} ELSE {})
            BY <4>1, Zenon DEF GrownBy
        <5> QED BY <3>2, <5>1, <5>2
      <4> QED BY <4>1, <4>2, <4>3
    <3> QED BY <3>1, <3>2
  <2>10. KeysOK(ks) /\ ToSet(ks) = DOMAIN named
    <3>1. CASE name = <<>>
        BY <2>3, <2>7, <2>8, <3>1
    <3>2. CASE name # <<>> /\ name \in DOMAIN index.name_index
      <4>1. DOMAIN named = DOMAIN index.name_index
          BY <2>6, <2>7, <3>2
      <4> QED BY <2>3, <2>8, <3>2, <4>1
    <3>3. CASE name # <<>> /\ name \notin DOMAIN index.name_index
      <4>1. DOMAIN named = DOMAIN index.name_index \cup {name}
          BY <2>6, <2>7, <3>3
      <4>2. KeysOK(ks) /\ ToSet(ks) = ToSet(index.keys) \cup {name}
          BY <2>3, <2>5, <2>8, <3>3, InsertedSorted
      <4> QED BY <2>3, <4>1, <4>2
    <3> QED BY <3>1, <3>2, <3>3
  <2>11. DOMAIN noted \subseteq Subs /\ \A g \in DOMAIN noted : noted[g][2] = NameOf(g)
      BY <2>2, <2>3 DEF name
  <2>12. /\ q.hash_index = hashes /\ q.name_index = named
         /\ q.keys = ks /\ q.metadata = noted
      BY <2>1
  <2>13. IndexInv(q)
      BY <2>4, <2>9, <2>10, <2>11, <2>12 DEF IndexInv
  <2>14. DOMAIN q.metadata = DOMAIN index.metadata \cup ({f} \cap DOMAIN d)
      BY <1>2, <2>2, <2>12
  <2> QED BY <2>13, <2>14 DEF q
<1> QED BY <1>1, <1>2

\* remove_file, whatever the directory holds now.
IsForgotten(q, noted, f) ==
    /\ DOMAIN q = DOMAIN noted \ {f} /\ \A g \in DOMAIN q : q[g] = noted[g]
    /\ \A key : FilesOfKey(q, key, 1) =
                  FilesOfKey(noted, key, 1) \ (IF key = noted[f][1] THEN {f} ELSE {})
    /\ \A key : FilesOfKey(q, key, 2) =
                  FilesOfKey(noted, key, 2) \ (IF key = noted[f][2] THEN {f} ELSE {})

LEMMA ForgottenFacts ==
    ASSUME NEW noted, NEW f
    PROVE  IsForgotten(Restrict(noted, DOMAIN noted \ {f}), noted, f)
<1> DEFINE q == Restrict(noted, DOMAIN noted \ {f})
<1>1. DOMAIN q = DOMAIN noted \ {f} /\ \A g \in DOMAIN q : q[g] = noted[g]
    BY DEF Restrict
<1> HIDE DEF q
<1>2. \A key : /\ FilesOfKey(q, key, 1) =
                    FilesOfKey(noted, key, 1) \ (IF key = noted[f][1] THEN {f} ELSE {})
               /\ FilesOfKey(q, key, 2) =
                    FilesOfKey(noted, key, 2) \ (IF key = noted[f][2] THEN {f} ELSE {})
    BY <1>1 DEF FilesOfKey
<1>3. IsForgotten(q, noted, f)
    BY <1>1, <1>2 DEF IsForgotten
<1> QED BY <1>3 DEF q

LEMMA RemoveFileKeeps ==
    ASSUME NEW index, IndexInv(index), NEW f \in Subs
    PROVE  /\ IndexInv(remove_file(index, f))
           /\ DOMAIN remove_file(index, f).metadata = DOMAIN index.metadata \ {f}
<1>1. CASE f \notin DOMAIN index.metadata
  <2>1. remove_file(index, f) = index
      BY <1>1 DEF remove_file
  <2> QED BY <1>1, <2>1
<1>2. CASE f \in DOMAIN index.metadata
  <2> DEFINE hash == index.metadata[f][1]
             name == index.metadata[f][2]
             hashes == RemovedFrom(index.hash_index, hash, f)
             named == RemovedFrom(index.name_index, name, f)
             S == {k \in ToSet(index.keys) : k \in DOMAIN named}
             ks == Kept(index.keys, S)
             noted == Restrict(index.metadata, DOMAIN index.metadata \ {f})
             q == remove_file(index, f)
  <2>1. q = [hash_index |-> hashes, name_index |-> named, keys |-> ks, metadata |-> noted]
      BY <1>2 DEF remove_file, Selected
  <2>2. IsForgotten(noted, index.metadata, f)
      BY ForgottenFacts
  <2>3. /\ DOMAIN index.metadata \subseteq Subs
        /\ \A g \in DOMAIN index.metadata : index.metadata[g][2] = NameOf(g)
        /\ TableOK(index.hash_index) /\ TableOK(index.name_index)
        /\ \A key : ToSet(Listed(index.hash_index, key)) = FilesOfKey(index.metadata, key, 1)
        /\ \A key : ToSet(Listed(index.name_index, key)) =
                      IF key = <<>> THEN {} ELSE FilesOfKey(index.metadata, key, 2)
        /\ KeysOK(index.keys) /\ ToSet(index.keys) = DOMAIN index.name_index
      BY DEF IndexInv
  <2>5. TableOK(hashes) /\ ShrunkBy(hashes, index.hash_index, hash, f)
    <3>1. TableOK(index.hash_index)
        BY <2>3
    <3> HIDE DEF hash
    <3> QED BY <3>1, RemovedIs
  <2>6. /\ TableOK(named) /\ ShrunkBy(named, index.name_index, name, f)
        /\ DOMAIN named \subseteq DOMAIN index.name_index
    <3>1. TableOK(index.name_index)
        BY <2>3
    <3> HIDE DEF name
    <3> QED BY <3>1, RemovedIs
  <2>7. KeysOK(ks) /\ ToSet(ks) = ToSet(index.keys) \cap S
    <3>1. KeysOK(index.keys)
        BY <2>3
    <3> HIDE DEF S
    <3> QED BY <3>1, KeptSorted
  <2>8. ToSet(index.keys) \cap S = DOMAIN named
    <3> HIDE DEF named
    <3> QED BY <2>3, <2>6
  <2> HIDE DEF hashes, named, ks, noted, q, S
  <2>9. \A key : ToSet(Listed(hashes, key)) = FilesOfKey(noted, key, 1)
    <3> SUFFICES ASSUME NEW key
                 PROVE  ToSet(Listed(hashes, key)) = FilesOfKey(noted, key, 1)
        OBVIOUS
    <3>1. FilesOfKey(noted, key, 1) =
            FilesOfKey(index.metadata, key, 1) \ (IF key = hash THEN {f} ELSE {})
        BY <2>2, Zenon DEF IsForgotten
    <3>2. ToSet(Listed(index.hash_index, key)) = FilesOfKey(index.metadata, key, 1)
        BY <2>3
    <3>3. ToSet(Listed(hashes, key)) =
            ToSet(Listed(index.hash_index, key)) \ (IF key = hash THEN {f} ELSE {})
        BY <2>5, Zenon DEF ShrunkBy
    <3> QED BY <3>1, <3>2, <3>3, Zenon
  <2>10. \A key : ToSet(Listed(named, key)) =
                    IF key = <<>> THEN {} ELSE FilesOfKey(noted, key, 2)
    <3>1. ASSUME NEW key, key # <<>>
          PROVE  ToSet(Listed(named, key)) = FilesOfKey(noted, key, 2)
      <4>1. FilesOfKey(noted, key, 2) =
              FilesOfKey(index.metadata, key, 2) \ (IF key = name THEN {f} ELSE {})
          BY <2>2, Zenon DEF IsForgotten
      <4>2. ToSet(Listed(index.name_index, key)) = FilesOfKey(index.metadata, key, 2)
          BY <2>3, <3>1
      <4>3. ToSet(Listed(named, key)) =
              ToSet(Listed(index.name_index, key)) \ (IF key = name THEN {f} ELSE {})
          BY <2>6, Zenon DEF ShrunkBy
      <4> QED BY <4>1, <4>2, <4>3, Zenon
    <3>2. ToSet(Listed(named, <<>>)) = {}
      <4>1. ToSet(Listed(index.name_index, <<>>)) = {}
          BY <2>3
      <4>2. ToSet(Listed(named, <<>>)) =
              ToSet(Listed(index.name_index, <<>>)) \ (IF <<>> = name THEN {f} ELSE {})
          BY <2>6, Zenon DEF ShrunkBy
      <4> HIDE DEF name
      <4> QED BY <4>1, <4>2
    <3> QED BY <3>1, <3>2
  <2>11. /\ DOMAIN noted = DOMAIN index.metadata \ {f} /\ DOMAIN noted \subseteq Subs
         /\ \A g \in DOMAIN noted : noted[g][2] = NameOf(g)
      BY <2>2, <2>3 DEF IsForgotten
  <2>12. /\ q.hash_index = hashes /\ q.name_index = named
         /\ q.keys = ks /\ q.metadata = noted
      BY <2>1
  <2>13. IndexInv(q)
      BY <2>5, <2>6, <2>7, <2>8, <2>9, <2>10, <2>11, <2>12 DEF IndexInv
  <2>14. DOMAIN q.metadata = DOMAIN index.metadata \ {f}
      BY <2>11, <2>12
  <2> QED BY <2>13, <2>14 DEF q
<1> QED BY <1>1, <1>2

\* build_index in a directory d.
AddNext(d, index, f) == AddFile(d, index, f)
NoFilesYet(d) == EmptyIndex
Adding == INSTANCE FoldProofs WITH Op <- AddNext, Base <- NoFilesYet

LEMMA BuildIs == \A order : build_index(order) = Adding!Fold(directory, order)
BY Zenon DEF build_index, add_file, Adding!Fold, FoldLeft, MapThenFoldSet, Adding!Greatest, Max,
             AddNext, NoFilesYet, AddFile, NotedToo, NameOf, Present

LEMMA BuildKeeps ==
    ASSUME NEW d, NEW order \in Seq(Subs)
    PROVE  /\ IndexInv(Adding!Fold(d, order))
           /\ DOMAIN Adding!Fold(d, order).metadata = ToSet(order) \cap DOMAIN d
<1>1. DOMAIN order = 1 .. Len(order) /\ Len(order) \in Nat /\ \A i \in DOMAIN order : order[i] \in Subs
    BY SeqFacts
<1>2. PICK acc : /\ acc[0] = NoFilesYet(d)
                 /\ \A k \in 1 .. Len(order) : acc[k] = AddNext(d, acc[k - 1], order[k])
                 /\ Adding!Fold(d, order) = acc[Len(order)]
    BY Adding!FoldUnfolds, Zenon
<1> DEFINE Had(k) == {order[i] : i \in 1 .. k} \cap DOMAIN d
           SoFar(k) == IndexInv(acc[k]) /\ DOMAIN acc[k].metadata = Had(k)
           Bad == {k \in 0 .. Len(order) : ~SoFar(k)}
<1>3. 0 \notin Bad
  <2>1. acc[0] = EmptyIndex
      BY <1>2 DEF NoFilesYet
  <2>2. IndexInv(acc[0])
      BY <2>1, EmptyIndexInv
  <2>3. DOMAIN acc[0].metadata = {}
      BY <2>1 DEF EmptyIndex
  <2>4. Had(0) = {}
      OBVIOUS
  <2>5. SoFar(0)
    <3> HIDE DEF Had
    <3> QED BY <2>2, <2>3, <2>4
  <2> HIDE DEF SoFar
  <2> QED BY <2>5
<1>4. ASSUME NEW k \in 1 .. Len(order), k - 1 \notin Bad PROVE k \notin Bad
  <2>1. SoFar(k - 1)
    <3>1. k - 1 \in 0 .. Len(order)
        BY <1>1
    <3> HIDE DEF SoFar
    <3> QED BY <1>4, <3>1
  <2>2. acc[k] = AddFile(d, acc[k - 1], order[k]) /\ order[k] \in Subs
      BY <1>1, <1>2 DEF AddNext
  <2>3. /\ IndexInv(acc[k])
        /\ DOMAIN acc[k].metadata = DOMAIN acc[k - 1].metadata \cup ({order[k]} \cap DOMAIN d)
    <3>1. IndexInv(acc[k - 1])
        BY <2>1
    <3>2. /\ IndexInv(AddFile(d, acc[k - 1], order[k]))
          /\ DOMAIN AddFile(d, acc[k - 1], order[k]).metadata =
               DOMAIN acc[k - 1].metadata \cup ({order[k]} \cap DOMAIN d)
      <4> HIDE DEF SoFar, Had
      <4> QED BY <2>2, <3>1, AddFileKeeps
    <3> QED BY <2>2, <3>2, Zenon
  <2>4. Had(k) = Had(k - 1) \cup ({order[k]} \cap DOMAIN d)
    <3>1. \A i : i \in 1 .. k <=> i \in 1 .. k - 1 \/ i = k
        BY <1>1
    <3> QED BY <3>1
  <2>5. SoFar(k)
    <3> HIDE DEF Had
    <3> QED BY <2>1, <2>3, <2>4
  <2> HIDE DEF SoFar
  <2> QED BY <2>5
<1>5. Bad \in SUBSET (0 .. Len(order))
    OBVIOUS
<1>6. SoFar(Len(order))
  <2>1. Len(order) \notin Bad /\ Len(order) \in 0 .. Len(order)
    <3> HIDE DEF Bad
    <3>1. \A k \in 0 .. Len(order) : k \notin Bad
        BY <1>1, <1>3, <1>4, <1>5, Adding!NoneFails
    <3> QED BY <1>1, <3>1
  <2> HIDE DEF SoFar
  <2> QED BY <2>1
<1>7. Had(Len(order)) = ToSet(order) \cap DOMAIN d
    BY <1>1 DEF ToSet
<1> HIDE DEF Had
<1> QED BY <1>2, <1>6, <1>7

\* Any order of a finite set has all of it.
LEMMA OrdersHaveAll ==
    ASSUME NEW S, IsFiniteSet(S), NEW order \in SetToSeqs(S)
    PROVE  order \in Seq(S) /\ ToSet(order) = S
<1> DEFINE n == Cardinality(S)
           D == 1 .. n
<1>1. n \in Nat
    BY FS_CardinalityType
<1>2. order \in [D -> S] /\ \A i, j \in D : i # j => order[i] # order[j]
    BY DEF SetToSeqs
<1>3. order \in Injection(D, S)
    BY <1>2 DEF Injection, IsInjective
<1>4. Cardinality(D) = Cardinality(S)
  <2>1. Cardinality(1 .. n) = IF 1 > n THEN 0 ELSE n - 1 + 1
      BY <1>1, FS_Interval
  <2> HIDE DEF n
  <2>2. Cardinality(1 .. n) = n
      BY <1>1, <2>1
  <2> QED BY <2>2 DEF n
<1>5. order \in Surjection(D, S)
  <2> HIDE DEF D
  <2> QED BY <1>3, <1>4, FS_Injection
<1>6. order \in Seq(S)
  <2> HIDE DEF n
  <2> QED BY <1>1, <1>2
<1>7. DOMAIN order = D /\ \A x \in S : \E i \in D : order[i] = x
  <2> HIDE DEF D
  <2> QED BY <1>2, <1>5 DEF Surjection
<1>8. ToSet(order) = S
  <2> HIDE DEF D
  <2> QED BY <1>2, <1>7 DEF ToSet
<1> QED BY <1>6, <1>8

-----------------------------------------------------------------------------
(* What is found in an index.                                                *)

LEMMA ConcatFacts ==
    ASSUME NEW X, NEW s \in Seq(X), NEW t \in Seq(X)
    PROVE  s \o t \in Seq(X) /\ ToSet(s \o t) = ToSet(s) \cup ToSet(t)
<1> DEFINE u == s \o t
<1>1. /\ Len(s) \in Nat /\ DOMAIN s = 1 .. Len(s)
      /\ Len(t) \in Nat /\ DOMAIN t = 1 .. Len(t)
    BY SeqFacts
<1>2. /\ u \in Seq(X) /\ Len(u) = Len(s) + Len(t)
      /\ \A i \in 1 .. Len(s) + Len(t) : u[i] = IF i <= Len(s) THEN s[i] ELSE t[i - Len(s)]
    BY ConcatProperties
<1>3. DOMAIN u = 1 .. Len(s) + Len(t)
  <2> HIDE DEF u
  <2> QED BY <1>2, SeqFacts
<1> HIDE DEF u
<1>4. ASSUME NEW i \in DOMAIN u PROVE u[i] \in ToSet(s) \cup ToSet(t)
  <2>1. CASE i <= Len(s)
    <3>1. i \in DOMAIN s /\ u[i] = s[i]
        BY <1>1, <1>2, <1>3, <2>1
    <3> QED BY <3>1 DEF ToSet
  <2>2. CASE ~(i <= Len(s))
    <3>1. i - Len(s) \in DOMAIN t /\ u[i] = t[i - Len(s)]
        BY <1>1, <1>2, <1>3, <2>2
    <3> QED BY <3>1 DEF ToSet
  <2> QED BY <2>1, <2>2
<1>5. ASSUME NEW i \in DOMAIN s PROVE s[i] \in ToSet(u)
  <2>1. i \in DOMAIN u /\ u[i] = s[i]
      BY <1>1, <1>2, <1>3
  <2> QED BY <2>1 DEF ToSet
<1>6. ASSUME NEW i \in DOMAIN t PROVE t[i] \in ToSet(u)
  <2>1. /\ i + Len(s) \in DOMAIN u /\ ~(i + Len(s) <= Len(s))
        /\ i + Len(s) \in 1 .. Len(s) + Len(t) /\ (i + Len(s)) - Len(s) = i
      BY <1>1, <1>3
  <2>2. u[i + Len(s)] = t[i]
      BY <1>2, <2>1
  <2> QED BY <2>1, <2>2 DEF ToSet
<1>7. ToSet(u) = ToSet(s) \cup ToSet(t)
    BY <1>4, <1>5, <1>6 DEF ToSet
<1> QED BY <1>2, <1>7 DEF u

GatherNext(table, matches, name) == matches \o table[name]
Gathering == INSTANCE FoldProofs WITH Op <- GatherNext, Base <- NoElements

\* The lists of some keys, one after the other.
LEMMA GatherFacts ==
    ASSUME NEW table, \A key \in DOMAIN table : table[key] \in Seq(Subs),
           NEW ks \in Seq(DOMAIN table)
    PROVE  /\ Gathering!Fold(table, ks) \in Seq(Subs)
           /\ ToSet(Gathering!Fold(table, ks)) = UNION {ToSet(table[key]) : key \in ToSet(ks)}
<1>1. /\ DOMAIN ks = 1 .. Len(ks) /\ Len(ks) \in Nat
      /\ \A i \in DOMAIN ks : ks[i] \in DOMAIN table
    BY SeqFacts
<1>2. PICK acc : /\ acc[0] = <<>>
                 /\ \A k \in 1 .. Len(ks) : acc[k] = GatherNext(table, acc[k - 1], ks[k])
                 /\ Gathering!Fold(table, ks) = acc[Len(ks)]
    BY Gathering!FoldUnfolds, Zenon DEF NoElements
<1> DEFINE Had(k) == UNION {ToSet(table[ks[i]]) : i \in 1 .. k}
           SoFar(k) == acc[k] \in Seq(Subs) /\ ToSet(acc[k]) = Had(k)
           Bad == {k \in 0 .. Len(ks) : ~SoFar(k)}
<1>3. 0 \notin Bad
  <2>1. acc[0] \in Seq(Subs)
      BY <1>2, EmptySeq
  <2>2. ToSet(acc[0]) = {}
      BY <1>2 DEF ToSet
  <2>3. Had(0) = {}
      OBVIOUS
  <2> QED BY <2>1, <2>2, <2>3
<1>4. ASSUME NEW k \in 1 .. Len(ks), k - 1 \notin Bad PROVE k \notin Bad
  <2>1. SoFar(k - 1)
    <3>1. k - 1 \in 0 .. Len(ks)
        BY <1>1
    <3> HIDE DEF SoFar
    <3> QED BY <1>4, <3>1
  <2>2. acc[k] = acc[k - 1] \o table[ks[k]] /\ table[ks[k]] \in Seq(Subs)
      BY <1>1, <1>2 DEF GatherNext
  <2>3. acc[k] \in Seq(Subs) /\ ToSet(acc[k]) = Had(k - 1) \cup ToSet(table[ks[k]])
    <3> HIDE DEF Had
    <3> QED BY <2>1, <2>2, ConcatFacts
  <2>4. Had(k) = Had(k - 1) \cup ToSet(table[ks[k]])
    <3>1. \A i : i \in 1 .. k <=> i \in 1 .. k - 1 \/ i = k
        BY <1>1
    <3> QED BY <3>1
  <2>5. SoFar(k)
    <3> HIDE DEF Had
    <3> QED BY <2>3, <2>4
  <2> HIDE DEF SoFar
  <2> QED BY <2>5
<1>5. Bad \in SUBSET (0 .. Len(ks))
    OBVIOUS
<1>6. SoFar(Len(ks))
  <2>1. Len(ks) \notin Bad /\ Len(ks) \in 0 .. Len(ks)
    <3> HIDE DEF Bad
    <3>1. \A k \in 0 .. Len(ks) : k \notin Bad
        BY <1>1, <1>3, <1>4, <1>5, Gathering!NoneFails
    <3> QED BY <1>1, <3>1
  <2> HIDE DEF SoFar
  <2> QED BY <2>1
<1>7. Had(Len(ks)) = UNION {ToSet(table[key]) : key \in ToSet(ks)}
  <2> DEFINE T(key) == ToSet(table[key])
  <2>1. ToSet(ks) = {ks[i] : i \in 1 .. Len(ks)}
      BY <1>1 DEF ToSet
  <2> HIDE DEF T
  <2>2. UNION {T(ks[i]) : i \in 1 .. Len(ks)} = UNION {T(key) : key \in ToSet(ks)}
      BY <2>1
  <2> QED BY <2>2 DEF T
<1> HIDE DEF Had
<1> QED BY <1>2, <1>6, <1>7

\* A new element leaves the elements different from each other.
LEMMA AppendedOnce ==
    ASSUME NEW X, NEW s \in Seq(X), IsInjective(s), NEW e \in X, e \notin ToSet(s)
    PROVE  IsInjective(Append(s, e))
<1> DEFINE t == Append(s, e)
<1>1. Len(s) \in Nat /\ DOMAIN s = 1 .. Len(s)
    BY SeqFacts
<1>2. /\ t \in Seq(X) /\ Len(t) = Len(s) + 1 /\ t[Len(s) + 1] = e
      /\ \A i \in 1 .. Len(s) : t[i] = s[i]
    BY <1>1, AppendProperties
<1>3. DOMAIN t = 1 .. Len(s) + 1
  <2> HIDE DEF t
  <2> QED BY <1>2, SeqFacts
<1> HIDE DEF t
<1>4. \A i \in DOMAIN t : (i \in DOMAIN s /\ t[i] = s[i] /\ s[i] # e) \/ (i = Len(s) + 1 /\ t[i] = e)
    BY <1>1, <1>2, <1>3 DEF ToSet
<1>5. IsInjective(t)
    BY <1>4 DEF IsInjective
<1> QED BY <1>5 DEF t

UniqueNext(p, t, f) == IF Contains(t, f) THEN t ELSE Append(t, f)
Once == INSTANCE FoldProofs WITH Op <- UniqueNext, Base <- NoElements

\* Each file of the list, once.
LEMMA UniqueFacts ==
    ASSUME NEW list \in Seq(Subs)
    PROVE  /\ Unique(list) \in Seq(Subs) /\ ToSet(Unique(list)) = ToSet(list)
           /\ IsInjective(Unique(list))
<1>1. /\ DOMAIN list = 1 .. Len(list) /\ Len(list) \in Nat
      /\ \A i \in DOMAIN list : list[i] \in Subs
    BY SeqFacts
<1>2. Unique(list) = Once!Fold(0, list)
    BY DEF Unique, Once!Fold, FoldLeft, MapThenFoldSet, Once!Greatest, Max, UniqueNext, NoElements
<1>3. PICK acc : /\ acc[0] = <<>>
                 /\ \A k \in 1 .. Len(list) : acc[k] = UniqueNext(0, acc[k - 1], list[k])
                 /\ Once!Fold(0, list) = acc[Len(list)]
    BY Once!FoldUnfolds, Zenon DEF NoElements
<1> DEFINE Had(k) == {list[i] : i \in 1 .. k}
           SoFar(k) == acc[k] \in Seq(Subs) /\ ToSet(acc[k]) = Had(k) /\ IsInjective(acc[k])
           Bad == {k \in 0 .. Len(list) : ~SoFar(k)}
<1>4. 0 \notin Bad
  <2>1. acc[0] \in Seq(Subs)
      BY <1>3, EmptySeq
  <2>2. ToSet(acc[0]) = {} /\ IsInjective(acc[0])
      BY <1>3 DEF ToSet, IsInjective
  <2>3. Had(0) = {}
      OBVIOUS
  <2> QED BY <2>1, <2>2, <2>3
<1>5. ASSUME NEW k \in 1 .. Len(list), k - 1 \notin Bad PROVE k \notin Bad
  <2>1. SoFar(k - 1)
    <3>1. k - 1 \in 0 .. Len(list)
        BY <1>1
    <3> HIDE DEF SoFar
    <3> QED BY <1>5, <3>1
  <2>2. list[k] \in Subs /\ acc[k] = UniqueNext(0, acc[k - 1], list[k])
      BY <1>1, <1>3
  <2>3. Had(k) = Had(k - 1) \cup {list[k]}
    <3>1. \A i : i \in 1 .. k <=> i \in 1 .. k - 1 \/ i = k
        BY <1>1
    <3> QED BY <3>1
  <2> HIDE DEF Had
  <2>4. /\ Append(acc[k - 1], list[k]) \in Seq(Subs)
        /\ ToSet(Append(acc[k - 1], list[k])) = ToSet(acc[k - 1]) \cup {list[k]}
        /\ Contains(acc[k - 1], list[k]) <=> list[k] \in ToSet(acc[k - 1])
      BY <2>1, <2>2, ListHas
  <2>5. CASE list[k] \in ToSet(acc[k - 1])
    <3>1. acc[k] = acc[k - 1]
        BY <2>2, <2>4, <2>5 DEF UniqueNext
    <3>2. SoFar(k)
        BY <2>1, <2>3, <2>5, <3>1
    <3> HIDE DEF SoFar
    <3> QED BY <3>2
  <2>6. CASE list[k] \notin ToSet(acc[k - 1])
    <3>1. acc[k] = Append(acc[k - 1], list[k])
        BY <2>2, <2>4, <2>6 DEF UniqueNext
    <3>2. IsInjective(acc[k])
        BY <2>1, <2>2, <2>6, <3>1, AppendedOnce
    <3>3. SoFar(k)
        BY <2>1, <2>3, <2>4, <3>1, <3>2
    <3> HIDE DEF SoFar
    <3> QED BY <3>3
  <2> QED BY <2>5, <2>6
<1>6. Bad \in SUBSET (0 .. Len(list))
    OBVIOUS
<1>7. SoFar(Len(list))
  <2>1. Len(list) \notin Bad /\ Len(list) \in 0 .. Len(list)
    <3> HIDE DEF Bad
    <3>1. \A k \in 0 .. Len(list) : k \notin Bad
        BY <1>1, <1>4, <1>5, <1>6, Once!NoneFails
    <3> QED BY <1>1, <3>1
  <2> HIDE DEF SoFar
  <2> QED BY <2>1
<1>8. Had(Len(list)) = ToSet(list)
    BY <1>1 DEF ToSet
<1> HIDE DEF Had
<1> QED BY <1>2, <1>3, <1>7, <1>8

LEMMA ElementsIn ==
    ASSUME NEW X, NEW s \in Seq(X), NEW Y, ToSet(s) \subseteq Y
    PROVE  s \in Seq(Y)
<1>1. DOMAIN s = 1 .. Len(s) /\ Len(s) \in Nat /\ s \in [1 .. Len(s) -> X]
    BY SeqFacts
<1>2. s \in [1 .. Len(s) -> Y]
    BY <1>1 DEF ToSet
<1> QED BY <1>1, <1>2

\* The search by a prefix finds all the files whose names have it.
LEMMA PrefixFinds ==
    ASSUME NEW index, IndexInv(index), NEW p \in Names, p # <<>>
    PROVE  /\ get_by_name_prefix(index, p) \in Seq(Subs)
           /\ ToSet(get_by_name_prefix(index, p)) =
                {f \in DOMAIN index.metadata : IsPrefix(p, index.metadata[f][2])}
<1> DEFINE ks == index.keys
           table == index.name_index
           a == bisect_left(ks, p) + 1
           R == {i \in a .. Len(ks) : \A j \in a .. i : IsPrefix(p, ks[j])}
           run == SubSeq(ks, a, a + Cardinality(R) - 1)
<1>1. /\ KeysOK(ks) /\ ToSet(ks) = DOMAIN table
      /\ \A f \in DOMAIN index.metadata : index.metadata[f][2] = NameOf(f) /\ f \in Subs
    BY DEF IndexInv
<1>2. run \in Seq(Names) /\ ToSet(run) = {k \in ToSet(ks) : IsPrefix(p, k)}
  <2> HIDE DEF ks
  <2> QED BY <1>1, RunIs
<1>3. get_by_name_prefix(index, p) = Gathering!Fold(table, run)
  <2>1. get_by_name_prefix(index, p) = IF p = <<>> THEN <<>> ELSE Gathering!Fold(table, run)
      BY Zenon DEF get_by_name_prefix, Gathering!Fold, FoldLeft, MapThenFoldSet, Gathering!Greatest,
             Max, GatherNext, NoElements
  <2> HIDE DEF run, table
  <2> QED BY <2>1
<1>4. run \in Seq(DOMAIN table)
  <2> HIDE DEF run, ks, table
  <2>1. ToSet(run) \subseteq DOMAIN table
      BY <1>1, <1>2
  <2> QED BY <1>2, <2>1, ElementsIn
<1>5. \A key \in DOMAIN table :
        table[key] \in Seq(Subs) /\ ToSet(table[key]) = FilesOfKey(index.metadata, key, 2)
    BY IndexNames
<1>6. \A key : key \in DOMAIN table <=> key # <<>> /\ FilesOfKey(index.metadata, key, 2) # {}
    BY IndexNames
<1> HIDE DEF run, ks, table
<1>7. /\ Gathering!Fold(table, run) \in Seq(Subs)
      /\ ToSet(Gathering!Fold(table, run)) = UNION {ToSet(table[key]) : key \in ToSet(run)}
    BY <1>4, <1>5, GatherFacts
<1>8. ASSUME NEW f \in DOMAIN index.metadata, IsPrefix(p, index.metadata[f][2])
      PROVE  f \in UNION {ToSet(table[key]) : key \in ToSet(run)}
  <2> DEFINE key == index.metadata[f][2]
  <2>1. key \in Names
      BY <1>1, NamesTyped
  <2>2. key # <<>>
    <3> HIDE DEF key
    <3>1. Len(p) <= Len(key) /\ Len(p) \in Nat /\ Len(key) \in Nat
        BY <1>8, <2>1, PrefixElements, ValFacts DEF key
    <3>2. Len(p) # 0
        BY EmptySeq DEF Names
    <3>3. Len(key) # 0
        BY <3>1, <3>2
    <3> QED BY <3>3
  <2>3. f \in FilesOfKey(index.metadata, key, 2)
      BY DEF FilesOfKey
  <2>4. key \in DOMAIN table
      BY <1>6, <2>2, <2>3
  <2>5. key \in ToSet(run) /\ f \in ToSet(table[key])
    <3> HIDE DEF key
    <3> QED BY <1>1, <1>2, <1>5, <1>8, <2>3, <2>4 DEF key
  <2> HIDE DEF key
  <2> QED BY <2>5
<1>9. ASSUME NEW key \in ToSet(run), NEW f \in ToSet(table[key])
      PROVE  f \in DOMAIN index.metadata /\ IsPrefix(p, index.metadata[f][2])
  <2>1. key \in DOMAIN table /\ IsPrefix(p, key)
      BY <1>1, <1>2
  <2>2. f \in FilesOfKey(index.metadata, key, 2)
      BY <1>5, <2>1
  <2> QED BY <2>1, <2>2 DEF FilesOfKey
<1>10. UNION {ToSet(table[key]) : key \in ToSet(run)} =
         {f \in DOMAIN index.metadata : IsPrefix(p, index.metadata[f][2])}
    BY <1>8, <1>9
<1> QED BY <1>3, <1>7, <1>10

LEMMA IndexIsRight ==
    ASSUME NEW index, IndexInv(index)
    PROVE  IndexAgrees(index)
<1> DEFINE noted == index.metadata
           names == index.name_index
<1>1. /\ \A key : ToSet(Listed(index.hash_index, key)) = FilesOfKey(noted, key, 1)
      /\ ToSet(index.keys) = DOMAIN names /\ KeysOK(index.keys)
    BY DEF IndexInv
<1>2. /\ \A key : key \in DOMAIN names <=> key # <<>> /\ FilesOfKey(noted, key, 2) # {}
      /\ \A key \in DOMAIN names :
           key \in Names /\ ToSet(names[key]) = FilesOfKey(noted, key, 2)
    BY IndexNames
<1>3. IsInjective(index.keys)
    BY <1>1, KeysFacts
<1>4. \A h : ToSet(get_by_hash(index, h)) = {f \in DOMAIN noted : noted[f][1] = h}
    BY <1>1 DEF get_by_hash, FilesOfKey
<1> HIDE DEF names, noted
<1>5. DOMAIN names = {noted[f][2] : f \in DOMAIN noted} \ {<<>>}
    BY <1>2 DEF FilesOfKey
<1>6. ASSUME NEW n \in DOMAIN names
      PROVE  /\ ToSet(names[n]) = {f \in DOMAIN noted : noted[f][2] = n}
             /\ ToSet(get_by_name_prefix(index, n)) = {f \in DOMAIN noted : IsPrefix(n, noted[f][2])}
  <2>1. n \in Names /\ n # <<>>
      BY <1>2
  <2>2. ToSet(get_by_name_prefix(index, n)) = {f \in DOMAIN noted : IsPrefix(n, noted[f][2])}
      BY <2>1, PrefixFinds DEF noted
  <2> QED BY <1>2, <2>2 DEF FilesOfKey
<1> QED BY <1>1, <1>3, <1>4, <1>5, <1>6, Zenon DEF IndexAgrees, names, noted

\* The candidates for a video are of the index, once each.
LEMMA CandidateFacts ==
    ASSUME NEW index, IndexInv(index), NEW v \in Videos
    PROVE  /\ CandidateSubtitles(v, index) \in Seq(Subs)
           /\ IsInjective(CandidateSubtitles(v, index))
           /\ ToSet(CandidateSubtitles(v, index)) \subseteq DOMAIN index.metadata
           /\ LookedUp(v) # <<>> =>
                {f \in DOMAIN index.metadata : IsPrefix(LookedUp(v), index.metadata[f][2])}
                  \subseteq ToSet(CandidateSubtitles(v, index))
<1> DEFINE noted == index.metadata
           name == LookedUp(v)
           hashed == IF HashesIn(v) = <<>> THEN <<>> ELSE get_by_hash(index, HashesIn(v)[1])
           named == get_by_name(index, name)
           begun == get_by_name_prefix(index, name)
<1>1. name \in Names
    BY NamesTyped
<1>2. <<>> \in Seq(Subs) /\ ToSet(<<>>) = {}
    BY EmptySeq DEF ToSet
<1>3. /\ \A key : Listed(index.hash_index, key) \in Seq(Subs)
      /\ \A key : Listed(index.name_index, key) \in Seq(Subs)
      /\ \A key : ToSet(Listed(index.hash_index, key)) \subseteq DOMAIN noted
      /\ \A key : ToSet(Listed(index.name_index, key)) \subseteq DOMAIN noted
    BY DEF IndexInv, TableOK, FilesOfKey
<1>4. hashed \in Seq(Subs) /\ ToSet(hashed) \subseteq DOMAIN noted
  <2> HIDE DEF noted
  <2> QED BY <1>2, <1>3 DEF get_by_hash
<1>5. named \in Seq(Subs) /\ ToSet(named) \subseteq DOMAIN noted
  <2> HIDE DEF noted, name
  <2> QED BY <1>3 DEF get_by_name
<1> HIDE DEF noted, name
<1>6. /\ begun \in Seq(Subs) /\ ToSet(begun) \subseteq DOMAIN noted
      /\ name # <<>> => ToSet(begun) = {f \in DOMAIN noted : IsPrefix(name, noted[f][2])}
  <2>1. CASE name = <<>>
    <3>1. begun = <<>>
        BY <2>1, Zenon DEF get_by_name_prefix
    <3> QED BY <1>2, <2>1, <3>1
  <2>2. CASE name # <<>>
      BY <1>1, <2>2, PrefixFinds DEF noted
  <2> QED BY <2>1, <2>2
<1>7. CandidateSubtitles(v, index) = Unique((hashed \o named) \o begun)
    BY DEF CandidateSubtitles, name, LookedUp
<1> HIDE DEF hashed, named, begun
<1>8. hashed \o named \in Seq(Subs) /\ ToSet(hashed \o named) = ToSet(hashed) \cup ToSet(named)
    BY <1>4, <1>5, ConcatFacts
<1>9. /\ (hashed \o named) \o begun \in Seq(Subs)
      /\ ToSet((hashed \o named) \o begun) = ToSet(hashed \o named) \cup ToSet(begun)
  <2> DEFINE pair == hashed \o named
  <2>1. pair \in Seq(Subs) /\ begun \in Seq(Subs)
      BY <1>6, <1>8
  <2> HIDE DEF pair
  <2>2. pair \o begun \in Seq(Subs) /\ ToSet(pair \o begun) = ToSet(pair) \cup ToSet(begun)
      BY <2>1, ConcatFacts
  <2> QED BY <2>2 DEF pair
<1> DEFINE all == (hashed \o named) \o begun
<1>10. ToSet(all) = (ToSet(hashed) \cup ToSet(named)) \cup ToSet(begun) /\ all \in Seq(Subs)
    BY <1>8, <1>9
<1> HIDE DEF all
<1>11. /\ Unique(all) \in Seq(Subs) /\ ToSet(Unique(all)) = ToSet(all)
       /\ IsInjective(Unique(all))
    BY <1>10, UniqueFacts
<1>12. CandidateSubtitles(v, index) = Unique(all)
    BY <1>7 DEF all
<1>13. ToSet(Unique(all)) \subseteq DOMAIN noted
    BY <1>4, <1>5, <1>6, <1>10, <1>11
<1>14. name # <<>> => {f \in DOMAIN noted : IsPrefix(name, noted[f][2])} \subseteq ToSet(Unique(all))
    BY <1>6, <1>10, <1>11
<1> QED BY <1>11, <1>12, <1>13, <1>14 DEF name, noted

\* The candidates that match are found, and no others.
LEMMA FoundFacts ==
    ASSUME NEW index, IndexInv(index), NEW v \in Videos
    PROVE  /\ IsInjective(match_via_index(v, index))
           /\ ToSet(match_via_index(v, index)) =
                {f \in ToSet(CandidateSubtitles(v, index)) : matches_video(Stem[f], v)}
<1> DEFINE all == CandidateSubtitles(v, index)
           S == {f \in ToSet(all) : matches_video(Stem[f], v)}
<1>1. all \in Seq(Subs) /\ IsInjective(all)
    BY CandidateFacts
<1>2. match_via_index(v, index) = Kept(all, S)
    BY DEF match_via_index, Selected
<1>3. IsInjective(Kept(all, S)) /\ ToSet(Kept(all, S)) = ToSet(all) \cap S
  <2> HIDE DEF all, S
  <2> QED BY <1>1, KeptSet
<1>4. ToSet(all) \cap S = S
    OBVIOUS
<1> QED BY <1>2, <1>3, <1>4

LEMMA FindsAsTheNamesSay ==
    ASSUME NEW index, IndexInv(index), NEW v \in Videos
    PROVE  FindsAsNamed(index, v)
<1> DEFINE all == CandidateSubtitles(v, index)
           chosen == match_via_index(v, index)
           name == LookedUp(v)
<1>1. /\ IsInjective(chosen)
      /\ ToSet(chosen) = {f \in ToSet(all) : matches_video(Stem[f], v)}
    BY FoundFacts
<1>2. name # <<>> =>
        {f \in DOMAIN index.metadata : IsPrefix(name, index.metadata[f][2])} \subseteq ToSet(all)
    BY CandidateFacts
<1>3. \A f \in DOMAIN index.metadata : index.metadata[f][2] = normalize_subtitle_name(Stem[f])
    BY DEF IndexInv, NameOf
<1>4. name = normalize_subtitle_name(clean_video_name(v))
    BY DEF LookedUp
<1> HIDE DEF all, chosen, name
<1>5. \A f \in ToSet(chosen) : matches_video(Stem[f], v)
    BY <1>1
<1>6. ASSUME name # <<>>, NEW f \in DOMAIN index.metadata, matches_video(Stem[f], v),
             IsPrefix(name, normalize_subtitle_name(Stem[f]))
      PROVE  f \in ToSet(chosen)
  <2>1. f \in ToSet(all)
      BY <1>2, <1>3, <1>6
  <2> QED BY <1>1, <1>6, <2>1
<1> QED BY <1>1, <1>4, <1>5, <1>6, Zenon DEF FindsAsNamed, chosen

-----------------------------------------------------------------------------
(* The cache, while the directory changes.                                   *)

Entry(index, time, torn) == [index |-> index, mtime |-> time, raced |-> torn]
Making(w, listed, index, torn) == [at |-> w, listed |-> listed, index |-> index, raced |-> torn]

HasAll(index, d) == DOMAIN index.metadata = DOMAIN d

EntryOK(e, d, time) ==
    \E index, t, torn :
      /\ e = Entry(index, t, torn)
      /\ IndexInv(index) /\ t \in Nat /\ t <= time
      /\ t = time /\ ~torn => HasAll(index, d)

MakingOK(b, d) ==
    \E w, listed, index, torn :
      /\ b = Making(w, listed, index, torn)
      /\ listed \subseteq Subs
      /\ w = "listed" /\ ~torn => listed = DOMAIN d
      /\ w = "built" => IndexInv(index)
      /\ w = "built" /\ ~torn => HasAll(index, d)

SubtitlesInv ==
    /\ DOMAIN directory \subseteq Subs /\ mtime \in Nat
    /\ cached # NoIndex => EntryOK(cached, directory, mtime)
    /\ MakingOK(build, directory)

LEMMA SameFields ==
    ASSUME NEW S, NEW f, NEW g, f = [x \in S |-> f[x]], g = [x \in S |-> g[x]],
           \A x \in S : f[x] = g[x]
    PROVE  f = g
OBVIOUS

LEMMA EntryIs ==
    ASSUME NEW index, NEW time, NEW torn, NEW e, e = Entry(index, time, torn)
    PROVE  /\ e = [x \in {"index", "mtime", "raced"} |-> e[x]]
           /\ e["index"] = index /\ e["mtime"] = time /\ e["raced"] = torn
BY DEF Entry

LEMMA MakingIs ==
    ASSUME NEW w, NEW listed, NEW index, NEW torn, NEW b, b = Making(w, listed, index, torn)
    PROVE  /\ b = [x \in {"at", "listed", "index", "raced"} |-> b[x]]
           /\ b["at"] = w /\ b["listed"] = listed /\ b["index"] = index /\ b["raced"] = torn
BY DEF Making

LEMMA EntryFields ==
    \A index, time, torn :
      /\ Entry(index, time, torn).index = index
      /\ Entry(index, time, torn).mtime = time
      /\ Entry(index, time, torn).raced = torn
BY DEF Entry

LEMMA MakingFields ==
    \A w, listed, index, torn :
      /\ Making(w, listed, index, torn).at = w
      /\ Making(w, listed, index, torn).listed = listed
      /\ Making(w, listed, index, torn).index = index
      /\ Making(w, listed, index, torn).raced = torn
BY DEF Making

LEMMA MakingIsOK ==
    ASSUME NEW d, NEW w, NEW listed \in SUBSET Subs, NEW index, NEW torn,
           w = "listed" /\ ~torn => listed = DOMAIN d, w = "built" => IndexInv(index),
           w = "built" /\ ~torn => HasAll(index, d)
    PROVE  MakingOK(Making(w, listed, index, torn), d)
BY Zenon DEF MakingOK

LEMMA IdleIsOK ==
    ASSUME NEW d
    PROVE  MakingOK(NoBuild, d)
<1>1. NoBuild = Making("idle", {}, EmptyIndex, FALSE)
    BY DEF NoBuild, Making
<1>2. MakingOK(Making("idle", {}, EmptyIndex, FALSE), d)
  <2>1. {} \in SUBSET Subs
      OBVIOUS
  <2> QED BY <2>1, MakingIsOK
<1> QED BY <1>1, <1>2, Zenon

LEMMA SubtitlesInitially ==
    ASSUME DOMAIN directory \subseteq Subs, mtime = 0, cached = NoIndex, build = NoBuild
    PROVE  SubtitlesInv
BY IdleIsOK DEF SubtitlesInv

LEMMA AskKeeps == SubtitlesInv /\ Ask => SubtitlesInv'
<1> SUFFICES ASSUME SubtitlesInv, Ask PROVE SubtitlesInv'
    OBVIOUS
<1>1. UNCHANGED <<directory, mtime>>
    BY DEF Ask
<1>2. CASE UNCHANGED <<cached, build>>
    BY <1>1, <1>2 DEF SubtitlesInv
<1>3. CASE cached' = NoIndex /\ build' = [NoBuild EXCEPT !.at = "listed", !.listed = Present]
  <2>1. build' = Making("listed", DOMAIN directory, EmptyIndex, FALSE)
      BY <1>3, Zenon DEF NoBuild, Making, Present
  <2>2. DOMAIN directory \in SUBSET Subs
      BY DEF SubtitlesInv
  <2>3. MakingOK(build', directory)
      BY <2>1, <2>2, MakingIsOK
  <2> QED BY <1>1, <1>3, <2>3 DEF SubtitlesInv
<1> QED BY <1>2, <1>3 DEF Ask

Built(b, y) == [b EXCEPT !.at = "built", !.index = y]

LEMMA BuildMakes ==
    ASSUME NEW w, NEW listed, NEW index, NEW torn, NEW y
    PROVE  Built(Making(w, listed, index, torn), y) = Making("built", listed, y, torn)
<1> DEFINE m == Making(w, listed, index, torn)
           n == Built(m, y)
           k == Making("built", listed, y, torn)
<1> HIDE DEF m, k
<1>1. m = [x \in {"at", "listed", "index", "raced"} |-> m[x]] /\ k = [x \in {"at", "listed", "index", "raced"} |-> k[x]]
    BY MakingIs DEF m, k
<1>2. n = [x \in {"at", "listed", "index", "raced"} |-> IF x = "index" THEN y ELSE IF x = "at" THEN "built" ELSE m[x]]
    BY <1>1 DEF Built
<1> HIDE DEF n
<1>3. n = [x \in {"at", "listed", "index", "raced"} |-> n[x]]
    BY <1>2
<1>4. \A x \in {"at", "listed", "index", "raced"} : n[x] = k[x]
  <2>1. m["at"] = w /\ m["listed"] = listed /\ m["index"] = index /\ m["raced"] = torn
      BY MakingIs DEF m
  <2>2. k["at"] = "built" /\ k["listed"] = listed /\ k["index"] = y /\ k["raced"] = torn
      BY MakingIs DEF k
  <2>3. n["at"] = "built" /\ n["listed"] = m["listed"] /\ n["index"] = y /\ n["raced"] = m["raced"]
      BY <1>2
  <2> QED BY <2>1, <2>2, <2>3
<1>5. n = k
    BY <1>1, <1>3, <1>4, SameFields
<1> QED BY <1>5 DEF n, m, k

LEMMA BuildingKeeps == SubtitlesInv /\ Build => SubtitlesInv'
<1> SUFFICES ASSUME SubtitlesInv, Build PROVE SubtitlesInv'
    OBVIOUS
<1>1. /\ UNCHANGED <<directory, mtime, cached>> /\ build.at = "listed"
      /\ \E order \in SetToSeqs(build.listed) : build' = Built(build, build_index(order))
    BY Zenon DEF Build, Built
<1>2. PICK w, listed, index, torn :
        /\ build = Making(w, listed, index, torn)
        /\ listed \subseteq Subs
        /\ w = "listed" /\ ~torn => listed = DOMAIN directory
    BY DEF SubtitlesInv, MakingOK
<1>3. w = "listed" /\ build.listed = listed
    BY <1>1, <1>2, MakingFields
<1>4. PICK order \in SetToSeqs(listed) : build' = Making("built", listed, build_index(order), torn)
  <2>1. PICK order \in SetToSeqs(listed) : build' = Built(build, build_index(order))
      BY <1>1, <1>3, Zenon
  <2>2. build' = Making("built", listed, build_index(order), torn)
      BY <1>2, <2>1, BuildMakes
  <2> QED BY <2>2
<1>5. IsFiniteSet(listed)
    BY <1>2, SubtitlesAssumption, FS_Subset
<1>6. order \in Seq(listed) /\ ToSet(order) = listed
    BY <1>5, OrdersHaveAll
<1>7. order \in Seq(Subs)
    BY <1>2, <1>6, ElementsIn
<1>8. /\ IndexInv(build_index(order))
      /\ DOMAIN build_index(order).metadata = listed \cap DOMAIN directory
    BY <1>6, <1>7, BuildIs, BuildKeeps
<1>9. ~torn => HasAll(build_index(order), directory)
    BY <1>2, <1>3, <1>8 DEF HasAll
<1>10. MakingOK(build', directory)
    BY <1>2, <1>4, <1>8, <1>9 DEF MakingOK
<1> QED BY <1>1, <1>10 DEF SubtitlesInv

LEMMA KeepKeeps == SubtitlesInv /\ Keep => SubtitlesInv'
<1> SUFFICES ASSUME SubtitlesInv, Keep PROVE SubtitlesInv'
    OBVIOUS
<1>1. /\ UNCHANGED <<directory, mtime>> /\ build' = NoBuild /\ build.at = "built"
      /\ cached' = Entry(build.index, mtime, build.raced)
    BY DEF Keep, Entry
<1>2. PICK w, listed, index, torn :
        /\ build = Making(w, listed, index, torn)
        /\ w = "built" => IndexInv(index)
        /\ w = "built" /\ ~torn => HasAll(index, directory)
    BY DEF SubtitlesInv, MakingOK
<1>3. w = "built" /\ cached' = Entry(index, mtime, torn)
    BY <1>1, <1>2, MakingFields
<1>4. mtime \in Nat /\ mtime <= mtime
    BY DEF SubtitlesInv
<1>5. EntryOK(cached', directory, mtime)
    BY <1>2, <1>3, <1>4 DEF EntryOK
<1> QED BY <1>1, <1>5, IdleIsOK DEF SubtitlesInv

WithIndex(e, y) == [e EXCEPT !.index = y]

LEMMA AddMakes ==
    ASSUME NEW index, NEW time, NEW torn, NEW y
    PROVE  WithIndex(Entry(index, time, torn), y) = Entry(y, time, torn)
<1> DEFINE m == Entry(index, time, torn)
           n == WithIndex(m, y)
           k == Entry(y, time, torn)
<1> HIDE DEF m, k
<1>1. m = [x \in {"index", "mtime", "raced"} |-> m[x]] /\ k = [x \in {"index", "mtime", "raced"} |-> k[x]]
    BY EntryIs DEF m, k
<1>2. n = [x \in {"index", "mtime", "raced"} |-> IF x = "index" THEN y ELSE m[x]]
    BY <1>1 DEF WithIndex
<1> HIDE DEF n
<1>3. n = [x \in {"index", "mtime", "raced"} |-> n[x]]
    BY <1>2
<1>4. \A x \in {"index", "mtime", "raced"} : n[x] = k[x]
  <2>1. m["index"] = index /\ m["mtime"] = time /\ m["raced"] = torn
      BY EntryIs DEF m
  <2>2. k["index"] = y /\ k["mtime"] = time /\ k["raced"] = torn
      BY EntryIs DEF k
  <2>3. n["index"] = y /\ n["mtime"] = m["mtime"] /\ n["raced"] = m["raced"]
      BY <1>2
  <2> QED BY <2>1, <2>2, <2>3
<1>5. n = k
    BY <1>1, <1>3, <1>4, SameFields
<1> QED BY <1>5 DEF n, m, k

WithBoth(e, y, z) == [e EXCEPT !.index = y, !.raced = z]

LEMMA RemoveMakes ==
    ASSUME NEW index, NEW time, NEW torn, NEW y, NEW z
    PROVE  WithBoth(Entry(index, time, torn), y, z) = Entry(y, time, z)
<1> DEFINE m == Entry(index, time, torn)
           n == WithBoth(m, y, z)
           k == Entry(y, time, z)
<1> HIDE DEF m, k
<1>1. m = [x \in {"index", "mtime", "raced"} |-> m[x]] /\ k = [x \in {"index", "mtime", "raced"} |-> k[x]]
    BY EntryIs DEF m, k
<1>2. n = [x \in {"index", "mtime", "raced"} |-> IF x = "raced" THEN z ELSE IF x = "index" THEN y ELSE m[x]]
    BY <1>1 DEF WithBoth
<1> HIDE DEF n
<1>3. n = [x \in {"index", "mtime", "raced"} |-> n[x]]
    BY <1>2
<1>4. \A x \in {"index", "mtime", "raced"} : n[x] = k[x]
  <2>1. m["index"] = index /\ m["mtime"] = time /\ m["raced"] = torn
      BY EntryIs DEF m
  <2>2. k["index"] = y /\ k["mtime"] = time /\ k["raced"] = z
      BY EntryIs DEF k
  <2>3. n["index"] = y /\ n["mtime"] = m["mtime"] /\ n["raced"] = z
      BY <1>2
  <2> QED BY <2>1, <2>2, <2>3
<1>5. n = k
    BY <1>1, <1>3, <1>4, SameFields
<1> QED BY <1>5 DEF n, m, k

\* The calls of Update, without the old values of EXCEPT.
Updated(f, c) ==
    \/ cached' = WithIndex(c, add_file(c.index, f))
    \/ cached' = WithBoth(c, remove_file(c.index, f), c.raced \/ f \in Present)

LEMMA UpdatingKeeps == SubtitlesInv /\ Update => SubtitlesInv'
<1> SUFFICES ASSUME SubtitlesInv, Update PROVE SubtitlesInv'
    OBVIOUS
<1>1. /\ UNCHANGED <<directory, mtime, build>> /\ cached # NoIndex
      /\ \E f \in Subs : Updated(f, cached)
    BY Zenon DEF Update, Updated, WithIndex, WithBoth
<1>2. PICK index, t, torn :
        /\ cached = Entry(index, t, torn)
        /\ IndexInv(index) /\ t \in Nat /\ t <= mtime
        /\ t = mtime /\ ~torn => HasAll(index, directory)
    BY <1>1 DEF SubtitlesInv, EntryOK
<1>3. PICK f \in Subs :
        \/ cached' = Entry(add_file(index, f), t, torn)
        \/ cached' = Entry(remove_file(index, f), t, torn \/ f \in Present)
  <2>1. PICK f \in Subs : Updated(f, cached)
      BY <1>1
  <2>2. cached.index = index /\ cached.raced = torn
      BY <1>2, EntryFields
  <2>3. \/ cached' = WithIndex(cached, add_file(index, f))
        \/ cached' = WithBoth(cached, remove_file(index, f), torn \/ f \in Present)
      BY <2>1, <2>2, Zenon DEF Updated
  <2> DEFINE grown == add_file(index, f)
             shrunk == remove_file(index, f)
             late == torn \/ f \in Present
  <2> HIDE DEF grown, shrunk, late
  <2>4. /\ WithIndex(cached, grown) = Entry(grown, t, torn)
        /\ WithBoth(cached, shrunk, late) = Entry(shrunk, t, late)
      BY <1>2, AddMakes, RemoveMakes
  <2> QED BY <2>3, <2>4, Zenon DEF grown, shrunk, late
<1>4. CASE cached' = Entry(add_file(index, f), t, torn)
  <2>1. /\ IndexInv(add_file(index, f))
        /\ DOMAIN add_file(index, f).metadata = DOMAIN index.metadata \cup ({f} \cap DOMAIN directory)
      BY <1>2, AddFileIs, AddFileKeeps
  <2>2. t = mtime /\ ~torn => HasAll(add_file(index, f), directory)
      BY <1>2, <2>1 DEF HasAll
  <2>3. EntryOK(cached', directory, mtime)
      BY <1>2, <1>4, <2>1, <2>2 DEF EntryOK
  <2> QED BY <1>1, <2>3 DEF SubtitlesInv
<1>5. CASE cached' = Entry(remove_file(index, f), t, torn \/ f \in Present)
  <2>1. /\ IndexInv(remove_file(index, f))
        /\ DOMAIN remove_file(index, f).metadata = DOMAIN index.metadata \ {f}
      BY <1>2, RemoveFileKeeps
  <2>2. t = mtime /\ ~(torn \/ f \in Present) => HasAll(remove_file(index, f), directory)
      BY <1>2, <2>1 DEF HasAll, Present
  <2>3. EntryOK(cached', directory, mtime)
      BY <1>2, <1>5, <2>1, <2>2 DEF EntryOK
  <2> QED BY <1>1, <2>3 DEF SubtitlesInv
<1> QED BY <1>3, <1>4, <1>5

LEMMA InvalidateKeeps == SubtitlesInv /\ invalidate => SubtitlesInv'
BY DEF SubtitlesInv, invalidate

Raced(b, y) == [b EXCEPT !.raced = y]

LEMMA ChangeMakes ==
    ASSUME NEW w, NEW listed, NEW index, NEW torn, NEW y
    PROVE  Raced(Making(w, listed, index, torn), y) = Making(w, listed, index, y)
<1> DEFINE m == Making(w, listed, index, torn)
           n == Raced(m, y)
           k == Making(w, listed, index, y)
<1> HIDE DEF m, k
<1>1. m = [x \in {"at", "listed", "index", "raced"} |-> m[x]] /\ k = [x \in {"at", "listed", "index", "raced"} |-> k[x]]
    BY MakingIs DEF m, k
<1>2. n = [x \in {"at", "listed", "index", "raced"} |-> IF x = "raced" THEN y ELSE m[x]]
    BY <1>1 DEF Raced
<1> HIDE DEF n
<1>3. n = [x \in {"at", "listed", "index", "raced"} |-> n[x]]
    BY <1>2
<1>4. \A x \in {"at", "listed", "index", "raced"} : n[x] = k[x]
  <2>1. m["at"] = w /\ m["listed"] = listed /\ m["index"] = index /\ m["raced"] = torn
      BY MakingIs DEF m
  <2>2. k["at"] = w /\ k["listed"] = listed /\ k["index"] = index /\ k["raced"] = y
      BY MakingIs DEF k
  <2>3. n["at"] = m["at"] /\ n["listed"] = m["listed"] /\ n["index"] = m["index"] /\ n["raced"] = y
      BY <1>2
  <2> QED BY <2>1, <2>2, <2>3
<1>5. n = k
    BY <1>1, <1>3, <1>4, SameFields
<1> QED BY <1>5 DEF n, m, k

LEMMA ChangeKeeps == SubtitlesInv /\ Change => SubtitlesInv'
<1> SUFFICES ASSUME SubtitlesInv, Change PROVE SubtitlesInv'
    OBVIOUS
<1>1. /\ build' = IF build.at = "idle" THEN build ELSE [build EXCEPT !.raced = TRUE]
      /\ cached' = cached
    BY Zenon DEF Change
<1>2. /\ DOMAIN directory' \subseteq Subs
      /\ \/ mtime' = mtime + 1
         \/ mtime' = mtime /\ DOMAIN directory' = DOMAIN directory
  <2>1. PICK f \in Subs :
          \/ directory' = Restrict(directory, Present \ {f}) /\ mtime' = mtime + 1
          \/ \E c \in Contents :
               /\ directory' = [g \in Present \cup {f} |-> IF g = f THEN c ELSE directory[g]]
               /\ mtime' = IF f \in Present THEN mtime ELSE mtime + 1
      BY Zenon DEF Change
  <2>2. Present \subseteq Subs
      BY DEF SubtitlesInv, Present
  <2>3. CASE directory' = Restrict(directory, Present \ {f}) /\ mtime' = mtime + 1
      BY <2>2, <2>3 DEF Restrict
  <2>4. CASE \E c \in Contents :
               /\ directory' = [g \in Present \cup {f} |-> IF g = f THEN c ELSE directory[g]]
               /\ mtime' = IF f \in Present THEN mtime ELSE mtime + 1
    <3>1. DOMAIN directory' = Present \cup {f} /\ mtime' = IF f \in Present THEN mtime ELSE mtime + 1
        BY <2>4
    <3> QED BY <2>2, <3>1 DEF Present
  <2> QED BY <2>1, <2>3, <2>4
<1>3. mtime \in Nat /\ mtime' \in Nat /\ mtime <= mtime'
    BY <1>2 DEF SubtitlesInv
<1>4. MakingOK(build', directory')
  <2>1. PICK w, listed, index, torn :
          /\ build = Making(w, listed, index, torn)
          /\ listed \subseteq Subs
          /\ w = "built" => IndexInv(index)
      BY DEF SubtitlesInv, MakingOK
  <2>2. build.at = w
      BY <2>1, MakingFields
  <2>3. CASE w = "idle"
    <3>1. build' = Making(w, listed, index, torn)
        BY <1>1, <2>1, <2>2, <2>3
    <3> QED BY <2>1, <2>3, <3>1 DEF MakingOK
  <2>4. CASE w # "idle"
    <3>1. build' = Raced(build, TRUE)
        BY <1>1, <2>2, <2>4, Zenon DEF Raced
    <3>2. build' = Making(w, listed, index, TRUE)
        BY <2>1, <3>1, ChangeMakes, Zenon
    <3> QED BY <2>1, <3>2 DEF MakingOK
  <2> QED BY <2>3, <2>4
<1>5. ASSUME cached # NoIndex PROVE EntryOK(cached, directory', mtime')
  <2>1. PICK index, t, torn :
          /\ cached = Entry(index, t, torn)
          /\ IndexInv(index) /\ t \in Nat /\ t <= mtime
          /\ t = mtime /\ ~torn => HasAll(index, directory)
      BY <1>5 DEF SubtitlesInv, EntryOK
  <2>2. t <= mtime'
      BY <1>3, <2>1
  <2>3. t = mtime' /\ ~torn => HasAll(index, directory')
      BY <1>2, <1>3, <2>1 DEF HasAll
  <2> QED BY <2>1, <2>2, <2>3 DEF EntryOK
<1> QED BY <1>1, <1>2, <1>3, <1>4, <1>5 DEF SubtitlesInv

LEMMA SubtitlesStep == SubtitlesInv /\ [SubtitlesNext]_subtitleVars => SubtitlesInv'
<1> SUFFICES ASSUME SubtitlesInv, [SubtitlesNext]_subtitleVars PROVE SubtitlesInv'
    OBVIOUS
<1>1. CASE UNCHANGED subtitleVars
    BY <1>1 DEF subtitleVars, SubtitlesInv
<1> QED BY <1>1, AskKeeps, BuildingKeeps, KeepKeeps, UpdatingKeeps, InvalidateKeeps, ChangeKeeps, Zenon
        DEF SubtitlesNext

LEMMA SubtitlesInvTrue == SubtitlesInv => SubtitlesFound
<1> SUFFICES ASSUME SubtitlesInv, cached # NoIndex
             PROVE  /\ IndexAgrees(cached.index)
                    /\ \A v \in Videos : FindsAsNamed(cached.index, v)
                    /\ cached.mtime = mtime /\ ~cached.raced =>
                         /\ DOMAIN cached.index.metadata = Present
                         /\ \A v \in Videos :
                              LET fallback == find_matching_subtitles(v, cached.index, "fallback")
                              IN  /\ fallback \subseteq match_legacy(v)
                                  /\ fallback = {} => match_legacy(v) = {}
    BY Zenon DEF SubtitlesFound
<1>1. PICK index, t, torn :
        /\ cached = Entry(index, t, torn)
        /\ IndexInv(index)
        /\ t = mtime /\ ~torn => HasAll(index, directory)
    BY DEF SubtitlesInv, EntryOK
<1>2. cached.index = index /\ cached.mtime = t /\ cached.raced = torn
    BY <1>1, EntryFields
<1>3. IndexAgrees(index) /\ \A v \in Videos : FindsAsNamed(index, v)
    BY <1>1, IndexIsRight, FindsAsTheNamesSay
<1>4. ASSUME t = mtime, ~torn PROVE DOMAIN index.metadata = Present
    BY <1>1, <1>4 DEF HasAll, Present
<1>5. ASSUME t = mtime, ~torn, NEW v \in Videos
      PROVE  LET fallback == find_matching_subtitles(v, index, "fallback")
             IN  fallback \subseteq match_legacy(v) /\ (fallback = {} => match_legacy(v) = {})
  <2> DEFINE chosen == ToSet(match_via_index(v, index))
  <2>1. chosen \subseteq match_legacy(v)
    <3>1. chosen = {f \in ToSet(CandidateSubtitles(v, index)) : matches_video(Stem[f], v)}
        BY <1>1, FoundFacts
    <3>2. ToSet(CandidateSubtitles(v, index)) \subseteq Present
        BY <1>1, <1>4, <1>5, CandidateFacts
    <3> QED BY <3>1, <3>2 DEF match_legacy
  <2>2. find_matching_subtitles(v, index, "fallback") =
          IF chosen = {} THEN match_legacy(v) ELSE chosen
      BY DEF find_matching_subtitles
  <2> HIDE DEF chosen
  <2> QED BY <2>1, <2>2
<1> QED BY <1>2, <1>3, <1>4, <1>5, Zenon

\* A cached index has each file of its tables once and its keys in order, finds
\* for a video what the names allow, and has all the subtitles of a directory
\* that has not changed since: whatever comes and goes meanwhile.
THEOREM SubtitlesFoundAlways == ServicesSpec => []SubtitlesFound
<1>1. ServicesInit => SubtitlesInv
  <2> SUFFICES ASSUME ServicesInit PROVE SubtitlesInv
      OBVIOUS
  <2>1. mtime = 0 /\ cached = NoIndex /\ build = NoBuild /\ DOMAIN directory \subseteq Subs
    <3>1. SubtitlesInit \/ (directory = <<>> /\ mtime = 0 /\ cached = NoIndex /\ build = NoBuild)
        BY DEF ServicesInit
    <3>2. CASE SubtitlesInit
        BY <3>2 DEF SubtitlesInit
    <3>3. CASE directory = <<>> /\ mtime = 0 /\ cached = NoIndex /\ build = NoBuild
        BY <3>3
    <3> QED BY <3>1, <3>2, <3>3
  <2> QED BY <2>1, SubtitlesInitially
<1>2. SubtitlesInv /\ [ServicesNext]_servicesVars => SubtitlesInv'
  <2> SUFFICES ASSUME SubtitlesInv, [ServicesNext]_servicesVars PROVE SubtitlesInv'
      OBVIOUS
  <2>1. [SubtitlesNext]_subtitleVars
      BY DEF ServicesNext, Of, servicesVars
  <2> QED BY <2>1, SubtitlesStep
<1>3. SubtitlesInv => SubtitlesFound
    BY SubtitlesInvTrue
<1> QED BY <1>1, <1>2, <1>3, PTL DEF ServicesSpec
=============================================================================
