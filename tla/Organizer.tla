------------------------------ MODULE Organizer ------------------------------
(***************************************************************************)
(* The organizer (anivault/core/organizer): it plans a move for each video *)
(* it was given and for the subtitles beside it (FileOrganizer), executes  *)
(* the plan one operation at a time (FileOperationExecutor) and removes    *)
(* the directories that became empty.                                      *)
(*                                                                         *)
(* A file that is scanned in the organized folder is planned for by its    *)
(* name: Goal stands for the directory PathBuilder derives from its match, *)
(* Matches for SubtitleMatcher.  shutil.move is modelled by what it does:  *)
(* a rename, or a copy and an unlink; neither spares what is at the        *)
(* destination.  The program may be killed, an operation may fail, and     *)
(* others may delete files and empty directories meanwhile.                *)
(***************************************************************************)
EXTENDS Naturals, SequencesExt, FiniteSets

CONSTANTS
    Files,      \* the files there are, each with contents of its own
    Home,       \* where each of them is at first
    Dirs, Top,  \* the directories, and the one above all of them
    Parent,     \* the directory each other one is in
    Source,     \* the directory that is organized
    Names, Goal, \* the names of files, and the directory each has to go to
    Matches,    \* <<video, subtitle>>: names that belong together
    MaxTroubles, \* bound of the model: failures, kills and acts of others
    MaxRuns,    \* bound of the model: runs of the organizer
    Torn,       \* what a copy that was cut off leaves
    Nothing

Locs == [dir : Dirs, name : Names]
Subtitles == {m[2] : m \in Matches}

ASSUME OrganizerAssumption ==
    /\ Home \in [Files -> Locs] /\ Torn \notin Files /\ Nothing \notin Files \cup {Torn}
    /\ IsFiniteSet(Dirs) /\ IsFiniteSet(Names)
    /\ Top \in Dirs /\ Source \in Dirs /\ Parent \in [Dirs \ {Top} -> Dirs]
    /\ Goal \in [Names -> Dirs] /\ Matches \subseteq Names \X Names
    /\ \A f, g \in Files : Home[f] = Home[g] => f = g
    /\ MaxTroubles \in Nat /\ MaxRuns \in Nat

VARIABLES
    disk,       \* what is at each place
    dirs,       \* the directories that exist
    pc,         \* where the organizer is
    todo,       \* videos to plan for; directories the clean-up has yet to visit
    plan, results, \* the operations, and how those that were tried ended
    created,    \* execute_batch's created_dirs
    removed,    \* the clean-up removed a directory in this pass
    runs,       \* history: runs so far
    troubles,   \* history: troubles so far
    troubled,   \* history: there was one in this run
    erased      \* history: files deleted by others

vars == <<disk, dirs, pc, todo, plan, results, created, removed, runs, troubles, troubled, erased>>
runVars == <<runs, troubles, troubled, erased>>

Ops      == [src : Locs, dst : Locs, file : Files \cup {Torn}]
Places   == {"idle", "plan", "validate", "mkdir", "move", "copy", "unlink", "cleanup", "done"}
Present(l) == disk[l] # Nothing

\* What is below each directory: whatever holds what is in it, and what is in
\* its own, holds that too.
Tree == [d \in Dirs |->
           {e \in Dirs \ {Top} :
              \A S \in SUBSET Dirs :
                (\A x \in Dirs \ {Top} : Parent[x] \in S \cup {d} => x \in S) => e \in S}]

Below(d) == Tree[d]
Above(d) == {d} \cup {e \in Dirs : d \in Below(e)}
Within(d) == {d} \cup Below(d)
IsEmpty(d) == /\ \A l \in Locs : l.dir = d => ~Present(l)
              /\ \A e \in dirs \ {Top} : Parent[e] # d

Init ==
    /\ disk = [l \in Locs |-> IF \E f \in Files : Home[f] = l
                              THEN CHOOSE f \in Files : Home[f] = l ELSE Nothing]
    /\ dirs = (UNION {Above(Home[f].dir) : f \in Files})
                 \cup Above(Source) \cup Within(Source) \cup {Top}
    /\ pc = "idle" /\ todo = {} /\ plan = <<>> /\ results = <<>>
    /\ created = {} /\ removed = FALSE
    /\ runs = 0 /\ troubles = 0 /\ troubled = FALSE /\ erased = {}

Trouble ==
    /\ troubles < MaxTroubles
    /\ troubles' = troubles + 1 /\ troubled' = TRUE /\ UNCHANGED runs

-----------------------------------------------------------------------------
(* FileOrganizer.generate_plan, for the videos of a scan.                    *)

Videos == {l \in Locs : l.dir \in Within(Source) /\ l.name \notin Subtitles /\ Present(l)}

\* Mutant: the directories created before are kept for the next batch.
StartKeepsCreated ==
    /\ pc \in {"idle", "done"} /\ runs < MaxRuns
    /\ pc' = "plan" /\ todo' = Videos
    /\ plan' = <<>> /\ results' = <<>> /\ UNCHANGED created
    /\ runs' = runs + 1 /\ troubled' = FALSE
    /\ UNCHANGED <<disk, dirs, removed, troubles, erased>>

Start ==
    /\ pc \in {"idle", "done"} /\ runs < MaxRuns
    /\ pc' = "plan" /\ todo' = Videos
    /\ plan' = <<>> /\ results' = <<>> /\ created' = {}
    /\ runs' = runs + 1 /\ troubled' = FALSE
    /\ UNCHANGED <<disk, dirs, removed, troubles, erased>>

\* build_path: the name is kept.
Destination(l) == [dir |-> Goal[l.name], name |-> l.name]

Move(src, dst) == [src |-> src, dst |-> dst, file |-> disk[src]]

\* find_matching_subtitles: subtitles beside the video that are not in place.
SubtitleMoves(l) ==
    {Move(s, [dir |-> Goal[l.name], name |-> s.name]) :
        s \in {s \in Locs : s.dir = l.dir /\ <<l.name, s.name>> \in Matches /\ Present(s)
                            /\ s.dir # Goal[l.name]}}

\* Directories are read while the plan is made; a video whose subtitles cannot
\* be looked for keeps its own operation.
PlanVideo(l) ==
    /\ pc = "plan" /\ l \in todo
    /\ todo' = todo \ {l}
    /\ IF Present(l)
       THEN /\ \E subs \in SetToSeqs(SubtitleMoves(l)) :
                   plan' = plan \o <<Move(l, Destination(l))>> \o subs
            /\ UNCHANGED runVars
       ELSE UNCHANGED <<plan, runVars>>
    /\ UNCHANGED <<disk, dirs, pc, results, created, removed>>

PlanWithoutSubtitles(l) ==
    /\ pc = "plan" /\ l \in todo /\ Present(l)
    /\ Trouble /\ UNCHANGED erased
    /\ todo' = todo \ {l}
    /\ plan' = Append(plan, Move(l, Destination(l)))
    /\ UNCHANGED <<disk, dirs, pc, results, created, removed>>

PlanIsMade ==
    /\ pc = "plan" /\ todo = {}
    /\ pc' = IF plan = <<>> THEN "done" ELSE "validate"
    /\ UNCHANGED <<disk, dirs, todo, plan, results, created, removed, runVars>>

-----------------------------------------------------------------------------
(* FileOperationExecutor.execute_batch.  An operation that fails is noted    *)
(* and the next one is tried.                                                *)

op == plan[Len(results) + 1]

\* cleanup_empty_dirs_for_paths follows unless nothing succeeded.
Note(result) ==
    LET rs == Append(results, result) IN
    /\ results' = rs
    /\ pc' = IF Len(rs) < Len(plan) THEN "validate"
             ELSE IF \E i \in DOMAIN rs : rs[i] THEN "cleanup" ELSE "done"
    /\ todo' = IF pc' = "cleanup" THEN Below(Source) ELSE {}
    /\ removed' = FALSE

ValidateFails ==
    /\ pc = "validate" /\ ~Present(op.src)
    /\ Note(FALSE)
    /\ UNCHANGED <<disk, dirs, plan, created, runVars>>

Validated ==
    /\ pc = "validate" /\ Present(op.src)
    /\ pc' = "mkdir"
    /\ UNCHANGED <<disk, dirs, todo, plan, results, created, removed, runVars>>

\* A directory created before in the batch is not looked at again.
EnsureDestinationDirectory ==
    /\ pc = "mkdir" /\ pc' = "move"
    /\ IF op.dst.dir \in created
       THEN UNCHANGED <<dirs, created>>
       ELSE dirs' = dirs \cup Above(op.dst.dir) /\ created' = created \cup {op.dst.dir}
    /\ UNCHANGED <<disk, todo, plan, results, removed, runVars>>

Movable == Present(op.src) /\ op.dst.dir \in dirs

Rename ==
    /\ pc = "move" /\ Movable
    /\ disk' = [disk EXCEPT ![op.src] = Nothing, ![op.dst] = disk[op.src]]
    /\ Note(TRUE)
    /\ UNCHANGED <<dirs, plan, created, runVars>>

\* To another file system, or over a file that refuses the rename.
StartCopy ==
    /\ pc = "move" /\ Movable /\ op.src # op.dst
    /\ disk' = [disk EXCEPT ![op.dst] = Torn]
    /\ pc' = "copy"
    /\ UNCHANGED <<dirs, todo, plan, results, created, removed, runVars>>

MoveFails ==
    /\ pc = "move" /\ ~Movable
    /\ Note(FALSE)
    /\ UNCHANGED <<disk, dirs, plan, created, runVars>>

\* Mutant: the source is deleted although the copy is not complete.
CopyDropsSource ==
    /\ pc = "copy" /\ Present(op.src) /\ op.dst.dir \in dirs
    /\ disk' = [disk EXCEPT ![op.src] = Nothing]
    /\ pc' = "unlink"
    /\ UNCHANGED <<dirs, todo, plan, results, created, removed, runVars>>

CopyDone ==
    /\ pc = "copy" /\ Present(op.src) /\ op.dst.dir \in dirs
    /\ disk' = [disk EXCEPT ![op.dst] = disk[op.src]]
    /\ pc' = "unlink"
    /\ UNCHANGED <<dirs, todo, plan, results, created, removed, runVars>>

Unlink ==
    /\ pc = "unlink"
    /\ disk' = [disk EXCEPT ![op.src] = Nothing]
    /\ Note(TRUE)
    /\ UNCHANGED <<dirs, plan, created, runVars>>

\* No directory, no space, no permission: also to unlink what was copied.
OperationFails ==
    /\ pc \in {"mkdir", "move", "copy", "unlink"}
    /\ Trouble /\ UNCHANGED erased
    /\ Note(FALSE)
    /\ UNCHANGED <<disk, dirs, plan, created>>

-----------------------------------------------------------------------------
(* cleanup_empty_dirs_for_paths: passes from the leaves up to the directory  *)
(* that was organized, until one removes nothing.                            *)

\* Mutant: the passes visit each directory before those below it.
VisitTopDown(d) ==
    /\ pc = "cleanup" /\ d \in todo /\ (\A e \in todo : d \notin Below(e))
    /\ todo' = todo \ {d}
    /\ IF d \in dirs /\ IsEmpty(d) THEN dirs' = dirs \ {d} ELSE UNCHANGED dirs
    /\ UNCHANGED <<removed, disk, pc, plan, results, created, runVars>>

\* _try_remove_empty_dir: rmdir refuses a directory that is not empty.
Visit(d) ==
    /\ pc = "cleanup" /\ d \in todo /\ todo \cap Below(d) = {}
    /\ todo' = todo \ {d}
    /\ IF d \in dirs /\ IsEmpty(d)
       THEN dirs' = dirs \ {d} /\ removed' = TRUE
       ELSE UNCHANGED <<dirs, removed>>
    /\ UNCHANGED <<disk, pc, plan, results, created, runVars>>

NextPass ==
    /\ pc = "cleanup" /\ todo = {}
    /\ IF removed THEN todo' = Below(Source) \cap dirs /\ removed' = FALSE /\ UNCHANGED pc
                  ELSE pc' = "done" /\ UNCHANGED <<todo, removed>>
    /\ UNCHANGED <<disk, dirs, plan, results, created, runVars>>

-----------------------------------------------------------------------------
\* The program is killed.
Killed ==
    /\ pc \notin {"idle", "done"}
    /\ Trouble /\ UNCHANGED erased
    /\ pc' = "idle" /\ todo' = {} /\ plan' = <<>> /\ results' = <<>> /\ created' = {}
    /\ UNCHANGED <<disk, dirs, removed>>

\* Others leave a file alone while it is written.
FileDeleted(l) ==
    /\ Present(l) /\ (pc = "copy" => l # op.dst)
    /\ Trouble /\ erased' = erased \cup ({disk[l]} \cap Files)
    /\ disk' = [disk EXCEPT ![l] = Nothing]
    /\ UNCHANGED <<dirs, pc, todo, plan, results, created, removed>>

DirectoryRemoved(d) ==
    /\ d \in dirs \ {Top, Source} /\ IsEmpty(d)
    /\ Trouble /\ UNCHANGED erased
    /\ dirs' = dirs \ {d}
    /\ UNCHANGED <<disk, pc, todo, plan, results, created, removed>>

-----------------------------------------------------------------------------
Plan    == (\E l \in Locs : PlanVideo(l) \/ PlanWithoutSubtitles(l)) \/ PlanIsMade
Execute == \/ ValidateFails \/ Validated \/ EnsureDestinationDirectory
           \/ Rename \/ StartCopy \/ MoveFails \/ CopyDone \/ Unlink \/ OperationFails
Cleanup == (\E d \in Dirs : Visit(d)) \/ NextPass
Others  == (\E l \in Locs : FileDeleted(l)) \/ (\E d \in Dirs : DirectoryRemoved(d))

Next == Start \/ Plan \/ Execute \/ Cleanup \/ Killed \/ Others

Spec == Init /\ [][Next]_vars

-----------------------------------------------------------------------------
\* Files are in directories that exist, and those in one another.
TypeOK ==
    /\ disk \in [Locs -> Files \cup {Torn, Nothing}] /\ dirs \subseteq Dirs
    /\ pc \in Places /\ todo \subseteq Locs \cup Dirs
    /\ plan \in Seq(Ops) /\ results \in Seq(BOOLEAN) /\ Len(results) <= Len(plan)
    /\ created \subseteq Dirs /\ removed \in BOOLEAN /\ runs \in 0..MaxRuns
    /\ troubles \in 0..MaxTroubles /\ troubled \in BOOLEAN /\ erased \subseteq Files
    /\ \A l \in Locs : Present(l) => l.dir \in dirs
    /\ \A d \in dirs \ {Top} : Parent[d] \in dirs

(* However often the program is killed, whatever fails and whoever else is   *)
(* at work: each file nobody deleted is complete in some place.              *)
NothingLost == \A f \in Files \ erased : \E l \in Locs : disk[l] = f

Undisturbed == pc = "done" /\ ~troubled

(* A run that nothing disturbed leaves each video where it belongs, one that *)
(* a run before it left half copied included; and at all times the disk is a *)
(* tree, whose files are in directories that exist.                          *)
VideosInPlace ==
    /\ TypeOK
    /\ Undisturbed =>
         \A l \in Locs : l.dir \in Within(Source) /\ l.name \notin Subtitles /\ Present(l)
             => /\ l.dir = Goal[l.name]
                /\ disk[l] = Torn => \E f \in erased : Home[f].name = l.name

(* An operation that is reported done has its file at the destination, and   *)
(* nothing is left at the source, when the run is over.                      *)
DoneIsDone ==
    Undisturbed =>
        \A i \in DOMAIN results : results[i] =>
            /\ plan[i].file # Torn => disk[plan[i].dst] = plan[i].file
            /\ plan[i].src # plan[i].dst => ~Present(plan[i].src)

\* No subtitle is left behind where a video it belongs to was.
SubtitlesFollow ==
    Undisturbed =>
        \A i \in DOMAIN plan : \A s \in Locs :
            /\ plan[i].src.name \notin Subtitles /\ <<plan[i].src.name, s.name>> \in Matches
            /\ s.dir = plan[i].src.dir /\ Present(s)
            => s.dir = Goal[plan[i].src.name]

\* After a run that nothing disturbed the library is in order.
LibraryInOrder == VideosInPlace /\ DoneIsDone /\ SubtitlesFollow

\* The clean-up leaves no empty directory, also not one that held only others.
NoEmptyDirectories ==
    Undisturbed /\ (\E i \in DOMAIN results : results[i]) =>
        \A d \in dirs \cap Below(Source) : ~IsEmpty(d)
=============================================================================
