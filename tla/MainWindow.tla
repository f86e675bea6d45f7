------------------------------ MODULE MainWindow ------------------------------
(***************************************************************************)
(* MainWindow of the GUI (anivault/presentation/gui/main_window.py) over   *)
(* its GroupsView: the lists of the two tabs, the operations the window    *)
(* starts (scan, match, organize), the loading overlay that covers it, and *)
(* the dialogs that stop the user but not the operations.                  *)
(*                                                                         *)
(* A list of files is a record of GroupsView: what was scanned (paths) and *)
(* what is known of it (meta); Nothing is the empty list and None.  Each   *)
(* handler runs to its end in the GUI thread.                              *)
(***************************************************************************)
EXTENDS GroupsView

CONSTANTS
    MaxScans,   \* bound of the model: scans that are started
    MaxHasty    \* bound of the model: clicks while something is under way

ASSUME WindowAssumption ==
    /\ Paths = {"videos", "subtitles"}
    /\ Metas = {"parsed", "matched", "manual"}
    /\ MaxScans \in Nat /\ MaxHasty \in Nat

VARIABLES
    view,        \* _current_view is the subtitles tab or one of the others
    results,     \* _scan_results and _subtitle_scan_results
    scanTarget, matchTarget, \* _active_scan_target, _active_match_target
    scan,        \* what the scan controller is scanning for
    match,       \* the files of the running MatchWorker
    organizing,  \* an OrganizeWorker is running (always a dry run)
    overlay,     \* the loading overlay is up
    flush,       \* a progress waits in the timer of 150 ms
    last,        \* tasks whose final progress was shown
    autoScan,    \* the start-up timer for the automatic scan is set
    detail,      \* the group in the detail panel
    dialog,      \* the modal dialog that is open, and the files it is about
    scans,       \* history: scans started so far
    hasty        \* history: clicks of the user while something was under way

taskVars   == <<scanTarget, matchTarget, scan, match, organizing, scans>>
screenVars == <<overlay, flush, last>>
userVars   == <<view, autoScan, detail, dialog>>
windowVars == <<viewVars, taskVars, screenVars, userVars, results, hasty>>

Kinds == Paths

\* The tasks that report progress; a build goes by its own number.
MatchTask    == 0
OrganizeTask == MaxBuilds + 1
Tasks        == Builds \cup {MatchTask, OrganizeTask}

WindowInit ==
    /\ ViewInit
    /\ view = "videos" /\ results = [k \in Kinds |-> Nothing]
    /\ scanTarget = "videos" /\ matchTarget = "videos"
    /\ scan = Nothing /\ match = Nothing /\ organizing = FALSE
    /\ overlay = FALSE /\ flush = FALSE /\ last = {}
    /\ autoScan \in BOOLEAN /\ detail = Nothing /\ dialog = Nothing
    /\ scans = 0 /\ hasty = 0

Operating == scan # Nothing \/ match # Nothing \/ organizing
Quiet     == ~Operating /\ Settled /\ ~flush /\ ~autoScan

\* Neither the overlay nor a modal dialog is in the way of a click.
Clickable == ~overlay /\ dialog = Nothing

\* _start_worker and the started handlers: the overlay comes up, and what
\* waits in the timer is forgotten.
Cover == overlay' = TRUE /\ flush' = FALSE

-----------------------------------------------------------------------------
(* The user.                                                                 *)

StartScan(kind) ==
    /\ scans < MaxScans
    /\ scan' = kind /\ scans' = scans + 1
    /\ Cover /\ UNCHANGED last

\* The target is set although a running scan makes the controller refuse.
ScanClicked ==
    /\ Clickable
    /\ scanTarget' = view
    /\ IF scan = Nothing THEN StartScan(view)
                         ELSE UNCHANGED <<scan, scans, screenVars>>
    /\ UNCHANGED <<viewVars, matchTarget, match, organizing, userVars, results>>

\* _trigger_auto_scan, 500 ms after the window was shown.
AutoScan ==
    /\ autoScan /\ autoScan' = FALSE
    /\ IF scan = Nothing THEN StartScan("videos")
                         ELSE UNCHANGED <<scan, scans, screenVars>>
    /\ UNCHANGED <<viewVars, scanTarget, matchTarget, match, organizing>>
    /\ UNCHANGED <<view, detail, dialog, results>>

\* The match controller ignores a request while a match is running.
StartMatch(files) ==
    IF match = Nothing THEN match' = files /\ last' = last \ {MatchTask} /\ Cover
                       ELSE UNCHANGED <<match, screenVars>>

MatchClicked ==
    /\ Clickable /\ results[view] # Nothing
    /\ matchTarget' = view
    /\ StartMatch(results[view])
    /\ UNCHANGED <<viewVars, scanTarget, scan, organizing, scans, userVars>>
    /\ UNCHANGED results

OrganizePreflightClicked ==
    /\ Clickable /\ results[view] # Nothing /\ ~organizing
    /\ organizing' = TRUE /\ last' = last \ {OrganizeTask} /\ Cover
    /\ UNCHANGED <<viewVars, scanTarget, matchTarget, scan, match, scans, userVars>>
    /\ UNCHANGED results

\* All tabs share one view; a tab without results leaves it alone.
ViewChanged(v) ==
    /\ Clickable /\ v # view
    /\ view' = v
    /\ IF results[v] # Nothing THEN set_file_metadata(results[v])
                               ELSE UNCHANGED viewVars
    /\ UNCHANGED <<taskVars, screenVars, autoScan, detail, dialog, results>>

GroupClicked ==
    /\ Clickable /\ shown # Nothing
    /\ detail' = shown
    /\ UNCHANGED <<viewVars, taskVars, screenVars, view, autoScan, dialog, results>>

DetailMatchClicked ==
    /\ Clickable /\ detail # Nothing
    /\ dialog' = [of |-> "manual", files |-> detail]
    /\ UNCHANGED <<viewVars, taskVars, screenVars, view, autoScan, detail, results>>

\* run_organize_execute_flow: the plan is made and shown in a dialog.
OrganizeExecuteClicked ==
    /\ Clickable /\ results[view] # Nothing
    /\ dialog' = [of |-> "plan", files |-> results[view]]
    /\ UNCHANGED <<viewVars, taskVars, screenVars, view, autoScan, detail, results>>

DialogCancelled ==
    /\ dialog # Nothing /\ dialog' = Nothing
    /\ UNCHANGED <<viewVars, taskVars, screenVars, view, autoScan, detail, results>>

-----------------------------------------------------------------------------
\* _merge_updated_metadata_into_results: the files of the dialog replace those
\* of the list that have the same paths.
Merged(files) ==
    IF files # Nothing /\ files.paths = dialog.files.paths
    THEN [files EXCEPT !.meta = "manual"] ELSE files

\* The rest of _on_detail_match_clicked, once the dialog was accepted.
ManualAccepted ==
    /\ dialog # Nothing /\ dialog.of = "manual" /\ dialog' = Nothing
    /\ results' = [results EXCEPT ![view] = Merged(@)]
    /\ set_file_metadata(Merged(results[view]))
    /\ detail' = Nothing
    /\ UNCHANGED <<taskVars, screenVars, view, autoScan>>

\* _refresh_list_after_organize.
RefreshListAfterOrganize ==
    /\ results' = [k \in Kinds |-> Nothing]
    /\ set_file_metadata(Nothing)
    /\ detail' = Nothing

\* The plan is executed in the GUI thread; an exception leaves the lists.
PlanAccepted ==
    /\ dialog # Nothing /\ dialog.of = "plan" /\ dialog' = Nothing
    /\ \/ RefreshListAfterOrganize
       \/ UNCHANGED <<viewVars, results, detail>>
    /\ UNCHANGED <<taskVars, screenVars, view, autoScan>>

-----------------------------------------------------------------------------
(* The operations report.                                                    *)

\* _maybe_update_progress_ui with a progress that is not the final one; a scan
\* never sends a final one, as it does not know its total.
Progress ==
    /\ \/ scan # Nothing
       \/ match # Nothing /\ MatchTask \notin last
       \/ organizing /\ OrganizeTask \notin last
       \/ InFlight \ last # {}
    /\ flush' = TRUE
    /\ UNCHANGED <<viewVars, taskVars, overlay, last, userVars, results>>

\* The final progress is shown at once.
FinalProgress(task) ==
    /\ \/ task = MatchTask /\ match # Nothing
       \/ task = OrganizeTask /\ organizing
       \/ task \in InFlight /\ build[task].pc # "failed"
    /\ task \notin last /\ last' = last \cup {task}
    /\ overlay' = TRUE /\ flush' = FALSE
    /\ UNCHANGED <<viewVars, taskVars, userVars, results>>

FlushPendingProgress ==
    /\ flush /\ flush' = FALSE /\ overlay' = TRUE
    /\ UNCHANGED <<viewVars, taskVars, last, userVars, results>>

Hide == overlay' = FALSE /\ UNCHANGED <<flush, last>>

\* _on_scan_finished and _on_match_finished: the view shows the video list on
\* every tab, the subtitle list only on its own.
Store(target, files) ==
    /\ results' = [results EXCEPT ![target] = files]
    /\ IF target = "videos" \/ view = "subtitles" THEN set_file_metadata(files)
                                                  ELSE UNCHANGED viewVars

\* Mutant: the overlay is hidden last.
ScanFinishedHidesLast(files) ==
    /\ scan # Nothing /\ scan' = Nothing
    /\ files # Nothing => files.paths = scan /\ files.meta = "parsed"
    /\ Store(scanTarget, files)
    /\ IF files # Nothing THEN matchTarget' = scanTarget ELSE UNCHANGED matchTarget
    /\ IF files # Nothing /\ match = Nothing
       THEN match' = files /\ last' = last \ {MatchTask} /\ flush' = FALSE
       ELSE UNCHANGED <<match, last, flush>>
    /\ overlay' = FALSE
    /\ UNCHANGED <<scanTarget, organizing, scans, userVars>>

\* Mutant: the match that follows is stored where the last one was.
ScanFinishedUntargeted(files) ==
    /\ scan # Nothing /\ scan' = Nothing
    /\ files # Nothing => files.paths = scan /\ files.meta = "parsed"
    /\ Store(scanTarget, files)
    /\ IF files # Nothing /\ match = Nothing THEN StartMatch(files)
                                             ELSE Hide /\ UNCHANGED match
    /\ UNCHANGED <<scanTarget, matchTarget, organizing, scans, userVars>>

\* The overlay is hidden; then a list that is not empty goes on to be matched.
ScanFinished(files) ==
    /\ scan # Nothing /\ scan' = Nothing
    /\ files # Nothing => files.paths = scan /\ files.meta = "parsed"
    /\ Store(scanTarget, files)
    /\ IF files # Nothing THEN matchTarget' = scanTarget ELSE UNCHANGED matchTarget
    /\ IF files # Nothing /\ match = Nothing THEN StartMatch(files)
                                             ELSE Hide /\ UNCHANGED match
    /\ UNCHANGED <<scanTarget, organizing, scans, userVars>>

ScanError ==
    /\ scan # Nothing /\ scan' = Nothing /\ Hide
    /\ UNCHANGED <<viewVars, scanTarget, matchTarget, match, organizing, scans>>
    /\ UNCHANGED <<userVars, results>>

\* Files for which nothing was found stay as they were.
MatchFinished ==
    /\ match # Nothing /\ MatchTask \in last
    /\ match' = Nothing /\ Hide
    /\ \E files \in {match, [match EXCEPT !.meta = "matched"]} : Store(matchTarget, files)
    /\ UNCHANGED <<scanTarget, matchTarget, scan, organizing, scans, userVars>>

MatchError ==
    /\ match # Nothing /\ match' = Nothing /\ Hide
    /\ UNCHANGED <<viewVars, scanTarget, matchTarget, scan, organizing, scans>>
    /\ UNCHANGED <<userVars, results>>

\* _on_organize_finished treats the dry run like a run that moved the files.
OrganizeFinished ==
    /\ organizing /\ OrganizeTask \in last
    /\ organizing' = FALSE /\ Hide
    /\ RefreshListAfterOrganize
    /\ UNCHANGED <<scanTarget, matchTarget, scan, match, scans, view, autoScan, dialog>>

OrganizeError ==
    /\ organizing /\ organizing' = FALSE /\ Hide
    /\ UNCHANGED <<viewVars, scanTarget, matchTarget, scan, match, scans>>
    /\ UNCHANGED <<userVars, results>>

-----------------------------------------------------------------------------
\* GroupsView on display, and its signal groups_build_finished.
GroupsBuildFinished(k) ==
    /\ build[k].pc = "built" /\ k \in connected => k \in last
    /\ Deliver(k) /\ Hide
    /\ UNCHANGED <<taskVars, userVars, results>>

ViewWorks(k) ==
    /\ ViewStep(k)
    /\ UNCHANGED <<taskVars, screenVars, userVars, results>>

User ==
    \/ ScanClicked \/ MatchClicked \/ OrganizePreflightClicked \/ OrganizeExecuteClicked
    \/ GroupClicked \/ DetailMatchClicked
    \/ \E v \in Kinds : ViewChanged(v)
    \/ DialogCancelled \/ ManualAccepted \/ PlanAccepted

Report ==
    \/ Progress \/ FlushPendingProgress
    \/ \E task \in Tasks : FinalProgress(task)
    \/ \E files \in Displays : ScanFinished(files)
    \/ ScanError \/ MatchFinished \/ MatchError \/ OrganizeFinished \/ OrganizeError

WindowNext ==
    \/ User /\ IF Quiet THEN UNCHANGED hasty ELSE hasty < MaxHasty /\ hasty' = hasty + 1
    \/ (AutoScan \/ Report) /\ UNCHANGED hasty
    \/ (\E k \in Builds : GroupsBuildFinished(k) \/ ViewWorks(k)) /\ UNCHANGED hasty

WindowSpec == WindowInit /\ [][WindowNext]_windowVars

-----------------------------------------------------------------------------
\* What the window knows of its lists, tasks and dialogs, on top of what the view
\* knows of its builds; a dialog is about files.
WindowTypeOK ==
    /\ ViewTypeOK
    /\ view \in Kinds /\ results \in [Kinds -> Displays]
    /\ scanTarget \in Kinds /\ matchTarget \in Kinds
    /\ scan \in Kinds \cup {Nothing} /\ match \in Displays /\ organizing \in BOOLEAN
    /\ overlay \in BOOLEAN /\ flush \in BOOLEAN /\ last \subseteq Tasks
    /\ autoScan \in BOOLEAN /\ detail \in Displays /\ scans \in 0..MaxScans
    /\ hasty \in 0..MaxHasty
    /\ dialog # Nothing => dialog \in [of : {"manual", "plan"}, files : Lists]

Starts ==
    \/ scan' # scan /\ scan' # Nothing
    \/ match' # match /\ match' # Nothing
    \/ organizing' /\ ~organizing

(* An operation starts under the overlay, and no progress of what ran before *)
(* waits to be shown: also when a scan ends and the match begins that hides  *)
(* and shows the overlay in one handler.                                     *)
StartsCovered == [][Starts => overlay' /\ ~flush']_windowVars

(* As long as the user waits for what is under way, each tab holds the files *)
(* of its own kind, whatever tab is open when an operation that was started  *)
(* on another one ends.                                                      *)
ResultsInPlace ==
    /\ WindowTypeOK
    /\ hasty = 0 => \A k \in Kinds : results[k] # Nothing => results[k].paths = k

(* Under the same condition a choice made by hand is replaced by a match     *)
(* only if the match was asked for it: not by one that began before it.      *)
ManualChoiceKept ==
    [][\A k \in Kinds :
           /\ hasty = 0 /\ results[k] # Nothing /\ results[k].meta = "manual"
           /\ MatchFinished /\ results'[k] # results[k]
           => match = results[k]]_windowVars
=============================================================================
