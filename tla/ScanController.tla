---------------------------- MODULE ScanController ----------------------------
(***************************************************************************)
(* ScanController of the GUI (anivault/presentation/gui/controllers) and   *)
(* the processes it starts, which run run_scan_in_process of               *)
(* anivault/application/use_cases/scan_use_case.py.                        *)
(*                                                                         *)
(* The GUI thread handles one event at a time, but a scan process goes on  *)
(* while it does: a poll that reads several messages is several steps.     *)
(* Scans are numbered in the order they were started; 0 stands for None.   *)
(***************************************************************************)
EXTENDS Naturals, Sequences

CONSTANTS
    MaxScans,   \* bound of the model: scans that are started
    MaxQueue,   \* bound of the model: messages that wait
    MaxCancels  \* calls of cancel(), which no widget is connected to so far

ASSUME ScanAssumption == MaxScans \in Nat /\ MaxQueue \in Nat /\ MaxCancels \in Nat

VARIABLES
    running,    \* _scan_running
    process,    \* _scan_process, and the scan whose queue is _scan_queue
    timer,      \* _scan_poll_timer is set
    stops,      \* calls of _stop_scan_process put off with singleShot(0, ..)
    gui,        \* what the GUI thread is at
    closed,     \* the window was closed
    scans,      \* history: scans started so far
    cancels,    \* history: calls of cancel() that found a scan
    child, queue, \* each scan's process and the messages it put
    reports,    \* history: what the window was told about each scan
    succeeded   \* history: scans whose process put a RESULT

guiVars == <<running, process, timer, stops, gui, closed, cancels>>
vars    == <<guiVars, scans, child, queue, reports, succeeded>>

Scans   == 1..MaxScans
Kinds   == {"STARTED", "PROGRESS", "RESULT", "ERROR", "DONE"}
Reports == {"finished", "error", "cancelled"}
ChildPCs == {"new", "starting", "scanning", "ending", "leaving", "exited"}

Init ==
    /\ running = FALSE /\ process = 0 /\ timer = FALSE /\ stops = 0
    /\ gui = "idle" /\ closed = FALSE /\ scans = 0 /\ cancels = 0
    /\ child = [s \in Scans |-> "new"] /\ queue = [s \in Scans |-> <<>>]
    /\ reports = [s \in Scans |-> <<>>] /\ succeeded = {}

IsAlive(s) == child[s] \notin {"new", "exited"}

-----------------------------------------------------------------------------
(* run_scan_in_process.                                                      *)

Put(s, kind, pc) ==
    /\ queue' = [queue EXCEPT ![s] = Append(@, kind)]
    /\ child' = [child EXCEPT ![s] = pc]
    /\ UNCHANGED <<guiVars, scans, reports>>

ChildStarts(s) ==
    /\ child[s] = "starting"
    /\ Put(s, "STARTED", "scanning") /\ UNCHANGED succeeded

ChildProgress(s) ==
    /\ child[s] = "scanning" /\ Len(queue[s]) < MaxQueue
    /\ Put(s, "PROGRESS", "scanning") /\ UNCHANGED succeeded

ChildSucceeds(s) ==
    /\ child[s] = "scanning"
    /\ Put(s, "RESULT", "ending") /\ succeeded' = succeeded \cup {s}

ChildFails(s) ==
    /\ child[s] = "scanning"
    /\ Put(s, "ERROR", "ending") /\ UNCHANGED succeeded

ChildIsDone(s) ==
    /\ child[s] = "ending"
    /\ Put(s, "DONE", "leaving") /\ UNCHANGED succeeded

\* The process ends once its messages are in the pipe, or dies before that.
ChildExits(s) ==
    /\ IsAlive(s)
    /\ child' = [child EXCEPT ![s] = "exited"]
    /\ UNCHANGED <<guiVars, scans, queue, reports, succeeded>>

-----------------------------------------------------------------------------
Idle == gui = "idle" /\ ~closed

Report(s, what) == reports' = [reports EXCEPT ![s] = Append(@, what)]

\* _start_scan_process; while a scan is running the request is ignored.
StartScan ==
    /\ Idle /\ ~running /\ scans < MaxScans
    /\ scans' = scans + 1 /\ process' = scans + 1
    /\ child' = [child EXCEPT ![scans + 1] = "starting"]
    /\ running' = TRUE /\ timer' = TRUE
    /\ UNCHANGED <<stops, gui, closed, cancels, queue, reports, succeeded>>

\* Mutant: the join times out and nobody terminates the process.
StopLeavesProcess ==
    /\ UNCHANGED child
    /\ process' = 0 /\ timer' = FALSE /\ running' = FALSE

\* _stop_scan_process: what is still alive after the join is terminated.
Stop ==
    /\ child' = IF process = 0 THEN child ELSE [child EXCEPT ![process] = "exited"]
    /\ process' = 0 /\ timer' = FALSE /\ running' = FALSE

StopDeferred ==
    /\ Idle /\ stops > 0
    /\ stops' = stops - 1
    /\ Stop
    /\ UNCHANGED <<gui, closed, cancels, scans, queue, reports, succeeded>>

cancel ==
    /\ Idle /\ running /\ process # 0 /\ cancels < MaxCancels
    /\ cancels' = cancels + 1
    /\ Stop /\ Report(process, "cancelled")
    /\ UNCHANGED <<stops, gui, closed, scans, queue, succeeded>>

\* closeEvent calls cleanup; no event is handled afterwards.
cleanup ==
    /\ Idle
    /\ closed' = TRUE
    /\ Stop
    /\ UNCHANGED <<stops, gui, cancels, scans, queue, reports, succeeded>>

-----------------------------------------------------------------------------
(* _poll_scan_queue.                                                         *)

PollBegins ==
    /\ Idle /\ timer /\ process # 0
    /\ gui' = "drain"
    /\ UNCHANGED <<running, process, timer, stops, closed, cancels>>
    /\ UNCHANGED <<scans, child, queue, reports, succeeded>>

Get(kind) ==
    /\ gui = "drain" /\ queue[process] # <<>> /\ Head(queue[process]) = kind
    /\ queue' = [queue EXCEPT ![process] = Tail(@)]
    /\ UNCHANGED <<running, process, closed, cancels, scans, child, succeeded>>

GetProgress ==
    /\ \E kind \in {"STARTED", "PROGRESS"} : Get(kind)
    /\ UNCHANGED <<timer, stops, gui, reports>>

\* Mutant: the result is reported while the timer goes on.
GetResultKeepsTimer ==
    /\ Get("RESULT")
    /\ gui' = "idle" /\ stops' = stops + 1
    /\ Report(process, "finished") /\ UNCHANGED timer

\* _stop_poll_timer_only, the report, and a stop for later.
GetResult ==
    /\ Get("RESULT")
    /\ gui' = "idle" /\ timer' = FALSE /\ stops' = stops + 1
    /\ Report(process, "finished")

GetError ==
    /\ Get("ERROR")
    /\ gui' = "idle" /\ timer' = FALSE /\ stops' = stops + 1
    /\ Report(process, "error")

\* Mutant: DONE only stops the timer.
GetDoneForgetsStop ==
    /\ Get("DONE")
    /\ gui' = "idle" /\ timer' = FALSE
    /\ UNCHANGED <<stops, reports>>

\* Mutant: the end of the scan is taken for its success.
GetDoneFinishes ==
    /\ Get("DONE")
    /\ gui' = "idle" /\ timer' = FALSE /\ stops' = stops + 1
    /\ Report(process, "finished")

GetDone ==
    /\ Get("DONE")
    /\ gui' = "idle" /\ timer' = FALSE /\ stops' = stops + 1
    /\ UNCHANGED reports

GetNothing ==
    /\ gui = "drain" /\ queue[process] = <<>>
    /\ gui' = "check"
    /\ UNCHANGED <<running, process, timer, stops, closed, cancels>>
    /\ UNCHANGED <<scans, child, queue, reports, succeeded>>

StillAlive ==
    /\ gui = "check" /\ IsAlive(process)
    /\ gui' = "idle"
    /\ UNCHANGED <<running, process, timer, stops, closed, cancels>>
    /\ UNCHANGED <<scans, child, queue, reports, succeeded>>

\* The process ended meanwhile: a message it left behind is read and dropped.
DeadWithMessage ==
    /\ gui = "check" /\ ~IsAlive(process) /\ queue[process] # <<>>
    /\ gui' = "idle"
    /\ queue' = [queue EXCEPT ![process] = Tail(@)]
    /\ UNCHANGED <<running, process, timer, stops, closed, cancels>>
    /\ UNCHANGED <<scans, child, reports, succeeded>>

DeadAndEmpty ==
    /\ gui = "check" /\ ~IsAlive(process) /\ queue[process] = <<>>
    /\ gui' = "idle"
    /\ Stop /\ Report(process, "error")
    /\ UNCHANGED <<stops, closed, cancels, scans, queue, succeeded>>

-----------------------------------------------------------------------------
Scan(s) == ChildStarts(s) \/ ChildProgress(s) \/ ChildSucceeds(s) \/ ChildFails(s)
             \/ ChildIsDone(s) \/ ChildExits(s)
Poll    == GetProgress \/ GetResult \/ GetError \/ GetDone \/ GetNothing
             \/ StillAlive \/ DeadWithMessage \/ DeadAndEmpty

Next ==
    \/ \E s \in Scans : Scan(s)
    \/ StartScan \/ StopDeferred \/ cancel \/ cleanup \/ PollBegins \/ Poll

Spec == Init /\ [][Next]_vars

(* A scan comes to its end, the event loop gets to a timer that is set and   *)
(* finishes what it began.  Progress is read faster than a scan makes it.    *)
Fairness ==
    /\ \A s \in Scans : WF_vars(ChildExits(s))
    /\ WF_vars(StopDeferred) /\ WF_vars(PollBegins) /\ WF_vars(Poll)

FairSpec == Spec /\ Fairness

-----------------------------------------------------------------------------
TypeOK ==
    /\ running \in BOOLEAN /\ timer \in BOOLEAN /\ closed \in BOOLEAN
    /\ process \in 0..scans /\ scans \in 0..MaxScans /\ cancels \in 0..MaxCancels
    /\ stops \in 0..(cancels + 1) /\ gui \in {"idle", "drain", "check"}
    /\ child \in [Scans -> ChildPCs] /\ queue \in [Scans -> Seq(Kinds)]
    /\ reports \in [Scans -> Seq(Reports)] /\ succeeded \subseteq Scans

(* A controller that is busy has a timer or a put-off stop that will end it: *)
(* whatever messages come, are lost or come too late, it cannot be stuck in  *)
(* "already running" and refuse every further scan.                          *)
NeverStuck == running => process # 0 /\ (timer \/ stops > 0)

(* No process is left behind by a controller that has turned to another scan *)
(* or whose window is closed.                                                *)
OnlyCurrentLives == \A s \in Scans : IsAlive(s) => s = process

\* A scan the window was told has finished did put its result, and the window
\* is told so once.
FinishedIsTrue ==
    \A s \in Scans :
        /\ \A i \in DOMAIN reports[s] : reports[s][i] = "finished" => s \in succeeded
        /\ \A i, j \in DOMAIN reports[s] :
               reports[s][i] = "finished" /\ reports[s][j] = "finished" => i = j

(* As long as nobody calls cancel(), and the window does not, a scan is      *)
(* reported once, be it as a result, as an error or as a process that died.  *)
ReportedOnce == cancels = 0 => \A s \in Scans : Len(reports[s]) <= 1

\* A busy controller becomes free again.
BecomesFree == running ~> ~running
=============================================================================
