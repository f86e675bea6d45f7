------------------------------ MODULE GroupsView ------------------------------
(***************************************************************************)
(* GroupsView of the GUI (anivault/presentation/gui/views/groups_view.py): *)
(* the groups on display, built from the list of files it was given last   *)
(* by GroupsBuildWorkers in threads of their own, or, when only metadata   *)
(* changed, on the spot (BuildGroupsUseCase.apply_metadata_update).        *)
(*                                                                         *)
(* A list of files is abstracted to its paths and its metadata, the groups *)
(* to the list they were built from.                                       *)
(***************************************************************************)
EXTENDS Naturals, FiniteSets

CONSTANTS
    Paths,      \* the sets of paths a list may have
    Metas,      \* what its files may be known to be
    MaxBuilds,  \* bound of the model: builds that are started
    Nothing     \* the empty list, and the empty display

ASSUME GroupsAssumption ==
    MaxBuilds \in Nat /\ Nothing \notin [paths : Paths, meta : Metas]

VARIABLES
    shown,      \* GroupsView._groups
    current,    \* _groups_build_worker and its thread, 0 for None
    builds,     \* history: builds started so far
    build,      \* each build: its files and where it is
    connected,  \* builds whose signals still reach the view
    asked,      \* history: the list given to the view last
    overlap     \* history: it was answered at once while a build was under way

viewVars == <<shown, current, builds, build, connected, asked, overlap>>

Lists    == [paths : Paths, meta : Metas]
Displays == Lists \cup {Nothing}
Builds   == 1..MaxBuilds
Over     == {"shown", "blank", "dropped"}
NoBuild  == [files |-> Nothing, pc |-> "none"]

ViewInit ==
    /\ shown = Nothing /\ current = 0 /\ builds = 0
    /\ build = [k \in Builds |-> NoBuild] /\ connected = {}
    /\ asked = Nothing /\ overlap = FALSE

\* A build whose groups may still come on display.
Posted(k)  == build[k].pc \in {"built", "failed"}
Pending(k) == build[k].pc = "building" \/ Posted(k)
InFlight   == {k \in connected : Pending(k)}

-----------------------------------------------------------------------------
(* set_file_metadata.                                                        *)

Empty ==
    /\ shown' = Nothing
    /\ UNCHANGED <<current, builds, build, connected>>

\* apply_metadata_update: the same paths as those on display.
FastPath(files) ==
    /\ shown # Nothing /\ shown.paths = files.paths
    /\ shown' = files
    /\ UNCHANGED <<current, builds, build, connected>>

\* Mutant: the worker before is not disconnected.
StartBuildBeside(files) ==
    /\ builds < MaxBuilds
    /\ builds' = builds + 1 /\ current' = builds + 1
    /\ build' = [build EXCEPT ![builds + 1] = [files |-> files, pc |-> "building"]]
    /\ connected' = connected \cup {builds + 1}
    /\ UNCHANGED shown

\* _cleanup_groups_build_worker, and a new worker in a new thread.
StartBuild(files) ==
    /\ builds < MaxBuilds
    /\ builds' = builds + 1 /\ current' = builds + 1
    /\ build' = [build EXCEPT ![builds + 1] = [files |-> files, pc |-> "building"]]
    /\ connected' = (connected \ {current}) \cup {builds + 1}
    /\ UNCHANGED shown

\* The fast path may also give up, when groups would have to be merged.
set_file_metadata(files) ==
    /\ asked' = files
    /\ \/ /\ files = Nothing /\ Empty
          /\ overlap' = (InFlight # {})
       \/ /\ files # Nothing /\ FastPath(files)
          /\ overlap' = (InFlight # {})
       \/ /\ files # Nothing /\ StartBuild(files)
          /\ overlap' = FALSE

-----------------------------------------------------------------------------
(* GroupsBuildWorker.run in its thread, and its signals in the GUI thread.   *)

Finish(k, pc) ==
    /\ build[k].pc = "building"
    /\ build' = [build EXCEPT ![k].pc = IF k \in connected THEN pc ELSE "dropped"]
    /\ UNCHANGED <<shown, current, builds, connected, asked, overlap>>

BuildDone(k)   == Finish(k, "built")
BuildRaises(k) == Finish(k, "failed")

\* The GUI thread handles what was posted first before what was posted later.
First(k) == \A j \in 1..(k - 1) : ~Posted(j)

\* _on_groups_built or _on_groups_build_error.  What a worker posted before it
\* was disconnected may still be delivered.
Deliver(k) ==
    /\ Posted(k) /\ First(k)
    /\ \/ /\ build[k].pc = "built" /\ shown' = build[k].files
          /\ build' = [build EXCEPT ![k].pc = "shown"]
       \/ /\ build[k].pc = "failed" /\ shown' = Nothing
          /\ build' = [build EXCEPT ![k].pc = "blank"]
    /\ UNCHANGED <<current, builds, connected, asked, overlap>>

DropPosted(k) ==
    /\ Posted(k) /\ k \notin connected
    /\ build' = [build EXCEPT ![k].pc = "dropped"]
    /\ UNCHANGED <<shown, current, builds, connected, asked, overlap>>

\* _on_groups_thread_finished forgets the worker only if it is the current one.
ThreadFinished(k) ==
    /\ build[k].pc \in Over /\ current = k
    /\ current' = 0
    /\ UNCHANGED <<shown, builds, build, connected, asked, overlap>>

ViewStep(k) == BuildDone(k) \/ BuildRaises(k) \/ DropPosted(k) \/ ThreadFinished(k)

-----------------------------------------------------------------------------
\* A build the view has forgotten while it ran does not reach it any more.
ViewTypeOK ==
    /\ shown \in Displays /\ asked \in Displays /\ overlap \in BOOLEAN
    /\ builds \in 0..MaxBuilds /\ current \in 0..builds
    /\ build \in [Builds -> [files : Displays,
                             pc : {"none", "building", "built", "failed"} \cup Over]]
    /\ connected \subseteq 1..builds
    /\ \A k \in connected : Pending(k) => k = current

Settled == \A k \in Builds : ~Pending(k)

(* When all builds are over the display is that of the list the view was     *)
(* given last, whatever builds it replaced, as long as that list was not     *)
(* answered at once beside a build.  A build that raised leaves nothing.     *)
SettledShowsLast ==
    Settled /\ ~overlap =>
        \/ shown = asked
        \/ shown = Nothing /\ \E k \in Builds : build[k].pc = "blank"

=============================================================================
