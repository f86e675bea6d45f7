--------------------------- MODULE MainWindowProofs ---------------------------
(* Proofs about MainWindow and the GroupsView it shows its lists in, for any *)
(* number of builds, of scans and of clicks.                                 *)
EXTENDS MainWindow, TLAPS

-----------------------------------------------------------------------------
(* The view.                                                                 *)

\* The build that was started last is connected until it is delivered, and is
\* delivered after all others; then the view shows its files, or those it was
\* given since.
DisplayInv ==
    /\ ViewTypeOK
    /\ current \in {0, builds}
    /\ builds > 0 => builds \in connected
    /\ \A k \in Builds : k > builds => build[k].pc = "none"
    /\ builds > 0 /\ build[builds].pc \in Over => \A k \in Builds : ~Posted(k)
    /\ ~overlap =>
         \/ builds > 0 /\ Pending(builds) /\ build[builds].files = asked
         \/ /\ builds > 0 => build[builds].pc \in Over
            /\ shown = asked \/ (shown = Nothing /\ \E k \in Builds : build[k].pc = "blank")
    /\ builds > 0 => build[builds].pc # "none"

\* What a user does who waits for the window: nothing is asked of it while
\* something is under way, so operations do not meet.
OneAtATime ==
    hasty = 0 =>
      /\ autoScan => scanTarget = "videos" /\ scan = Nothing /\ match = Nothing /\ ~organizing
      /\ scan # Nothing => scan = scanTarget /\ match = Nothing /\ ~organizing
      /\ match # Nothing => match = results[matchTarget] /\ ~organizing
      /\ \A k \in Kinds : results[k] # Nothing => results[k].paths = k

WindowInv == DisplayInv /\ WindowTypeOK /\ OneAtATime

LEMMA ViewInitially == ViewInit => DisplayInv
<1> SUFFICES ASSUME ViewInit PROVE DisplayInv
    OBVIOUS
<1> USE DEF ViewInit
<1>1. ViewTypeOK
  <2>1. Nothing \in Displays /\ builds \in 0 .. MaxBuilds /\ current \in 0 .. builds
      BY GroupsAssumption DEF Displays
  <2>2. NoBuild \in [files : Displays, pc : {"none", "building", "built", "failed"} \cup Over]
      BY <2>1 DEF NoBuild
  <2> QED BY <2>1, <2>2 DEF ViewTypeOK
<1> QED BY <1>1, GroupsAssumption DEF DisplayInv, Builds, NoBuild

\* The list is shown at once: there is no build left, or it will not show it.
LEMMA ShowKeeps ==
    ASSUME DisplayInv, NEW files \in Displays, asked' = files, shown' = files,
           overlap' = (InFlight # {}), UNCHANGED <<current, builds, build, connected>>
    PROVE  DisplayInv'
<1>1. ViewTypeOK'
    BY DEF DisplayInv, ViewTypeOK, Pending, Posted
<1>2. ASSUME InFlight = {}, builds > 0 PROVE build[builds].pc \in Over
  <2>1. builds \in Builds /\ builds \in connected /\ build[builds].pc # "none" /\ ~Pending(builds)
      BY <1>2, GroupsAssumption DEF DisplayInv, ViewTypeOK, InFlight, Builds
  <2>2. build[builds].pc \in {"none", "building", "built", "failed"} \cup Over
      BY <2>1 DEF DisplayInv, ViewTypeOK
  <2> QED BY <2>1, <2>2 DEF Pending, Posted
<1>3. ~overlap' => (builds > 0 => build[builds].pc \in Over)
    BY <1>2
<1> QED BY <1>1, <1>3 DEF DisplayInv, Posted

\* A new build takes the place of the one before.
LEMMA StartBuildKeeps ==
    ASSUME DisplayInv, NEW files \in Displays, asked' = files, overlap' = FALSE, StartBuild(files)
    PROVE  DisplayInv'
<1> DEFINE new == builds + 1
<1>1. builds \in 0 .. MaxBuilds /\ builds < MaxBuilds /\ new \in Builds /\ builds' = new /\ current' = new
    BY GroupsAssumption DEF DisplayInv, ViewTypeOK, StartBuild, Builds
<1>2. connected' = (connected \ {current}) \cup {new} /\ connected \subseteq 1 .. builds
      /\ shown' = shown
    BY DEF StartBuild, DisplayInv, ViewTypeOK
<1>3. /\ build'[new] = [files |-> files, pc |-> "building"]
      /\ \A k \in Builds : k # new => build'[k] = build[k]
    BY <1>1 DEF StartBuild, DisplayInv, ViewTypeOK
<1>4. build' \in [Builds -> [files : Displays, pc : {"none", "building", "built", "failed"} \cup Over]]
  <2>1. [files |-> files, pc |-> "building"]
        \in [files : Displays, pc : {"none", "building", "built", "failed"} \cup Over]
      OBVIOUS
  <2> QED BY <2>1, <1>1 DEF StartBuild, DisplayInv, ViewTypeOK
<1>5. ASSUME NEW k \in connected', Pending(k)' PROVE k = current'
  <2>1. CASE k = new
      BY <1>1, <2>1
  <2>2. CASE k # new
    <3>1. k \in connected /\ k # current /\ k \in Builds
        BY <1>1, <1>2, <1>5, <2>2, GroupsAssumption DEF Builds
    <3>2. Pending(k)
        BY <1>3, <1>5, <2>2, <3>1 DEF Pending, Posted
    <3> QED BY <3>1, <3>2 DEF DisplayInv, ViewTypeOK
  <2> QED BY <2>1, <2>2
<1>6. ViewTypeOK'
  <2>1. current' \in 0 .. builds' /\ builds' \in 0 .. MaxBuilds /\ connected' \subseteq 1 .. builds'
    <3>1. MaxBuilds \in Nat /\ builds \in Nat /\ new <= MaxBuilds /\ new \in Nat
        BY <1>1, GroupsAssumption
    <3>2. connected \subseteq 1 .. new /\ new \in 1 .. new
        BY <1>2, <3>1
    <3>3. new \in 0 .. new /\ new \in 0 .. MaxBuilds
        BY <3>1
    <3> HIDE DEF new
    <3> QED BY <1>1, <1>2, <3>2, <3>3
  <2>2. shown' \in Displays /\ asked' \in Displays /\ overlap' \in BOOLEAN
      BY <1>2 DEF DisplayInv, ViewTypeOK
  <2> QED BY <1>4, <1>5, <2>1, <2>2 DEF ViewTypeOK
<1>7. \A k \in Builds : k > builds' => build'[k].pc = "none"
    BY <1>1, <1>3, GroupsAssumption DEF DisplayInv, Builds
<1>8. build'[builds'].pc = "building" /\ build'[builds'].files = asked'
    BY <1>1, <1>3
<1> QED BY <1>1, <1>2, <1>6, <1>7, <1>8 DEF DisplayInv, Over, Pending

LEMMA SetKeeps ==
    ASSUME DisplayInv, NEW files \in Displays, set_file_metadata(files)
    PROVE  DisplayInv'
<1>1. CASE files = Nothing /\ Empty /\ overlap' = (InFlight # {}) /\ asked' = files
    BY <1>1, ShowKeeps DEF Empty
<1>2. CASE FastPath(files) /\ overlap' = (InFlight # {}) /\ asked' = files
    BY <1>2, ShowKeeps DEF FastPath
<1>3. CASE StartBuild(files) /\ overlap' = FALSE /\ asked' = files
    BY <1>3, StartBuildKeeps
<1> QED BY <1>1, <1>2, <1>3 DEF set_file_metadata

\* A build of which pc is known goes on.
LEMMA BuildMoves ==
    ASSUME DisplayInv, NEW k \in Builds, Pending(k),
           NEW pc \in {"built", "failed"} \cup Over, build' = [build EXCEPT ![k].pc = pc],
           shown' \in Displays, k \notin connected => pc \in Over,
           UNCHANGED <<current, builds, connected, asked, overlap>>
    PROVE  /\ ViewTypeOK'
           /\ k <= builds /\ (builds > 0) /\ builds \in Builds
           /\ build'[k].pc = pc /\ build'[k].files = build[k].files
           /\ \A j \in Builds : j # k => build'[j] = build[j]
           /\ \A j \in Builds : j > builds' => build'[j].pc = "none"
           /\ build'[builds].pc # "none"
<1>1. build[k].pc # "none" /\ builds \in 0 .. MaxBuilds
    BY DEF Pending, Posted, DisplayInv, ViewTypeOK
<1>2. k <= builds /\ (builds > 0) /\ builds \in Builds
    BY <1>1, GroupsAssumption DEF DisplayInv, Builds
<1>3. build'[k].pc = pc /\ build'[k].files = build[k].files
      /\ \A j \in Builds : j # k => build'[j] = build[j]
    BY DEF DisplayInv, ViewTypeOK
<1>4. build' \in [Builds -> [files : Displays, pc : {"none", "building", "built", "failed"} \cup Over]]
    BY DEF DisplayInv, ViewTypeOK
<1>5. ASSUME NEW j \in connected, Pending(j)' PROVE j = current
  <2>1. j \in Builds
      BY GroupsAssumption DEF DisplayInv, ViewTypeOK, Builds
  <2>2. Pending(j)
      BY <1>3, <1>5, <2>1 DEF Pending, Posted
  <2> QED BY <2>2 DEF DisplayInv, ViewTypeOK
<1>6. ViewTypeOK'
    BY <1>4, <1>5 DEF DisplayInv, ViewTypeOK
<1>7. \A j \in Builds : j > builds' => build'[j].pc = "none"
    BY <1>2, <1>3, GroupsAssumption DEF DisplayInv, Builds
<1>8. build'[builds].pc # "none"
    BY <1>2, <1>3 DEF DisplayInv, Over
<1> QED BY <1>2, <1>3, <1>6, <1>7, <1>8

\* Builds are over, delivered or dropped.
LEMMA ViewStepKeeps ==
    ASSUME DisplayInv, NEW k \in Builds, ViewStep(k) \/ Deliver(k)
    PROVE  DisplayInv'
<1>1. CASE BuildDone(k) \/ BuildRaises(k)
  <2>1. PICK pc \in {"built", "failed"} : Finish(k, pc)
      BY <1>1 DEF BuildDone, BuildRaises
  <2> DEFINE next == IF k \in connected THEN pc ELSE "dropped"
  <2>2. /\ build[k].pc = "building" /\ build' = [build EXCEPT ![k].pc = next]
        /\ UNCHANGED <<shown, current, builds, connected, asked, overlap>>
        /\ next \in {"built", "failed"} \cup Over /\ (k \notin connected => next \in Over)
        /\ k \in connected => next = pc
      BY <2>1 DEF Finish, Over
  <2> HIDE DEF next
  <2>3. Pending(k) /\ shown' \in Displays
      BY <2>2 DEF Pending, DisplayInv, ViewTypeOK
  <2>4. /\ ViewTypeOK' /\ k <= builds /\ builds > 0 /\ builds \in Builds
        /\ build'[k].pc = next /\ build'[k].files = build[k].files
        /\ \A j \in Builds : j # k => build'[j] = build[j]
        /\ \A j \in Builds : j > builds' => build'[j].pc = "none"
        /\ build'[builds].pc # "none"
      BY <2>2, <2>3, BuildMoves
  <2>5. CASE k = builds
    <3>1. k \in connected /\ next = pc
        BY <2>2, <2>4, <2>5 DEF DisplayInv
    <3>2. Pending(builds)' /\ Pending(builds) /\ build[builds].pc \notin Over
        BY <2>2, <2>3, <2>4, <2>5, <3>1 DEF Pending, Posted, Over
    <3>3. build'[builds].pc \notin Over
        BY <2>4, <2>5, <3>1 DEF Over
    <3> QED BY <2>2, <2>4, <2>5, <3>2, <3>3 DEF DisplayInv
  <2>6. CASE k # builds
    <3>1. k \notin connected /\ next \in Over
      <4>1. k \in connected => k = builds
          BY <2>3, <2>4 DEF DisplayInv, ViewTypeOK, Builds
      <4> QED BY <2>2, <2>6, <4>1
    <3>2. build'[builds] = build[builds] /\ (Pending(builds) => Pending(builds)')
        BY <2>2, <2>4, <2>6 DEF Pending, Posted
    <3>3. \A j \in Builds : Posted(j)' => Posted(j)
        BY <2>4, <3>1 DEF Posted, Over
    <3>4. \A j \in Builds : build[j].pc = "blank" => build'[j].pc = "blank"
        BY <2>2, <2>4
    <3>5. builds' = builds /\ overlap' = overlap /\ asked' = asked /\ shown' = shown
          /\ current' = current /\ connected' = connected
        BY <2>2
    <3> QED BY <2>4, <3>2, <3>3, <3>4, <3>5 DEF DisplayInv
  <2> QED BY <2>5, <2>6
<1>2. CASE Deliver(k)
  <2>1. PICK pc \in {"shown", "blank"} :
           /\ build' = [build EXCEPT ![k].pc = pc]
           /\ \/ build[k].pc = "built" /\ pc = "shown" /\ shown' = build[k].files
              \/ build[k].pc = "failed" /\ pc = "blank" /\ shown' = Nothing
      BY <1>2 DEF Deliver
  <2>2. Posted(k) /\ First(k) /\ UNCHANGED <<current, builds, connected, asked, overlap>>
      BY <1>2 DEF Deliver
  <2>3. Pending(k) /\ shown' \in Displays /\ pc \in {"built", "failed"} \cup Over /\ pc \in Over
      BY <2>1, <2>2 DEF Pending, DisplayInv, ViewTypeOK, Displays, Over
  <2>4. /\ ViewTypeOK' /\ k <= builds /\ builds > 0 /\ builds \in Builds
        /\ build'[k].pc = pc /\ build'[k].files = build[k].files
        /\ \A j \in Builds : j # k => build'[j] = build[j]
        /\ \A j \in Builds : j > builds' => build'[j].pc = "none"
        /\ build'[builds].pc # "none"
      BY <2>1, <2>2, <2>3, BuildMoves
  <2>5. CASE k = builds
    <3>1. ASSUME NEW j \in Builds PROVE ~Posted(j)'
      <4>1. CASE j = k
          BY <2>1, <2>4, <4>1 DEF Posted
      <4>2. CASE j < k
          BY <2>2, <2>4, <4>2 DEF Posted, First, Builds
      <4>3. CASE j > k
          BY <2>2, <2>4, <2>5, <4>3 DEF Posted
      <4> QED BY <4>1, <4>2, <4>3 DEF Builds
    <3>2. build'[builds].pc \in Over
        BY <2>3, <2>4, <2>5
    <3>3. ~overlap => shown' = asked \/ (shown' = Nothing /\ build'[k].pc = "blank")
      <4>1. ~overlap => build[builds].files = asked
          BY <2>2, <2>4, <2>5 DEF DisplayInv, Posted, Over
      <4> QED BY <2>1, <2>4, <2>5, <4>1
    <3>4. builds' = builds /\ overlap' = overlap /\ asked' = asked
          /\ current' = current /\ connected' = connected
        BY <2>2
    <3> QED BY <2>4, <3>1, <3>2, <3>3, <3>4 DEF DisplayInv
  <2>6. CASE k # builds
    <3>1. build'[builds] = build[builds] /\ (Pending(builds) => Pending(builds)')
        BY <2>2, <2>4, <2>6 DEF Pending, Posted
    <3>2. build[builds].pc \notin Over
        BY <2>2, <2>4 DEF DisplayInv
    <3>3. builds' = builds /\ overlap' = overlap /\ asked' = asked
          /\ current' = current /\ connected' = connected
        BY <2>2
    <3> QED BY <2>4, <3>1, <3>2, <3>3 DEF DisplayInv
  <2> QED BY <2>5, <2>6
<1>3. CASE DropPosted(k)
  <2>1. /\ build' = [build EXCEPT ![k].pc = "dropped"] /\ Posted(k) /\ k \notin connected
        /\ UNCHANGED <<shown, current, builds, connected, asked, overlap>>
      BY <1>3 DEF DropPosted
  <2>2. Pending(k) /\ shown' \in Displays /\ "dropped" \in Over
        /\ "dropped" \in {"built", "failed"} \cup Over
      BY <2>1 DEF Pending, DisplayInv, ViewTypeOK, Over
  <2>3. /\ ViewTypeOK' /\ k <= builds /\ builds > 0 /\ builds \in Builds
        /\ build'[k].pc = "dropped" /\ build'[k].files = build[k].files
        /\ \A j \in Builds : j # k => build'[j] = build[j]
        /\ \A j \in Builds : j > builds' => build'[j].pc = "none"
        /\ build'[builds].pc # "none"
      BY <2>1, <2>2, BuildMoves
  <2>4. k # builds
      BY <2>1, <2>3 DEF DisplayInv
  <2>5. build'[builds] = build[builds] /\ (Pending(builds) => Pending(builds)')
      BY <2>1, <2>3, <2>4 DEF Pending, Posted
  <2>6. build[builds].pc \notin Over
      BY <2>1, <2>3 DEF DisplayInv
  <2>7. builds' = builds /\ overlap' = overlap /\ asked' = asked
        /\ current' = current /\ connected' = connected
      BY <2>1
  <2> QED BY <2>3, <2>5, <2>6, <2>7 DEF DisplayInv
<1>4. CASE ThreadFinished(k)
  <2>1. /\ build[k].pc \in Over /\ current = k /\ current' = 0
        /\ UNCHANGED <<shown, builds, build, connected, asked, overlap>>
      BY <1>4 DEF ThreadFinished
  <2>2. ASSUME NEW j \in connected, Pending(j) PROVE FALSE
    <3>1. j = k
        BY <2>1, <2>2 DEF DisplayInv, ViewTypeOK
    <3> QED BY <2>1, <2>2, <3>1 DEF Pending, Posted, Over
  <2>3. ViewTypeOK'
    <3>1. builds \in Nat
        BY GroupsAssumption DEF DisplayInv, ViewTypeOK
    <3>2. current' \in 0 .. builds'
        BY <2>1, <3>1
    <3>3. \A j \in connected' : ~Pending(j)'
        BY <2>1, <2>2 DEF Pending, Posted
    <3> QED BY <2>1, <3>2, <3>3 DEF DisplayInv, ViewTypeOK
  <2>4. \A j \in Builds : (Posted(j)' <=> Posted(j)) /\ (Pending(j)' <=> Pending(j))
      BY <2>1 DEF Posted, Pending
  <2>5. builds > 0 => (Pending(builds)' <=> Pending(builds))
      BY <2>1 DEF Posted, Pending
  <2>6. current' \in {0, builds'}
      BY <2>1
  <2> QED BY <2>1, <2>3, <2>4, <2>5, <2>6 DEF DisplayInv
<1> QED BY <1>1, <1>2, <1>3, <1>4 DEF ViewStep

\* A display that is settled shows what it was given last.
LEMMA DisplaySettled == DisplayInv => SettledShowsLast
<1> SUFFICES ASSUME DisplayInv, Settled, ~overlap
             PROVE  shown = asked \/ (shown = Nothing /\ \E k \in Builds : build[k].pc = "blank")
    BY DEF SettledShowsLast
<1>1. builds > 0 => builds \in Builds
    BY GroupsAssumption DEF DisplayInv, ViewTypeOK, Builds
<1> QED BY <1>1 DEF DisplayInv, Settled

-----------------------------------------------------------------------------
(* The window.                                                               *)

\* A list whose files are set to another state is a list of the same files.
LEMMA ListsTyped ==
    ASSUME NEW list \in Displays, list # Nothing
    PROVE  /\ list \in Lists /\ list.paths \in Kinds
           /\ \A m \in Metas : /\ [list EXCEPT !.meta = m] \in Displays
                               /\ [list EXCEPT !.meta = m] # Nothing
                               /\ [list EXCEPT !.meta = m].paths = list.paths
                               /\ [list EXCEPT !.meta = m].meta = m
<1>1. list \in Lists /\ list.paths \in Kinds
    BY DEF Displays, Lists, Kinds
<1>2. ASSUME NEW m \in Metas
      PROVE  /\ [list EXCEPT !.meta = m] \in Lists
             /\ [list EXCEPT !.meta = m].paths = list.paths
             /\ [list EXCEPT !.meta = m].meta = m
    BY <1>1 DEF Lists
<1>3. Nothing \notin Lists
    BY GroupsAssumption DEF Lists
<1> QED BY <1>1, <1>2, <1>3 DEF Displays

\* What the handlers make of a list is one.
LEMMA MergedTyped ==
    ASSUME NEW list \in Displays
    PROVE  /\ Merged(list) \in Displays
           /\ list = Nothing <=> Merged(list) = Nothing
           /\ list # Nothing => Merged(list).paths = list.paths
<1>1. CASE list # Nothing /\ list.paths = dialog.files.paths
  <2>1. "manual" \in Metas
      BY WindowAssumption
  <2>2. Merged(list) = [list EXCEPT !.meta = "manual"]
      BY <1>1 DEF Merged
  <2> QED BY <1>1, <2>1, <2>2, ListsTyped
<1>2. CASE ~(list # Nothing /\ list.paths = dialog.files.paths)
    BY <1>2 DEF Merged
<1> QED BY <1>1, <1>2

\* The lists that a match may end with.
Matches == {match, [match EXCEPT !.meta = "matched"]}

LEMMA MatchesTyped ==
    ASSUME WindowTypeOK, match # Nothing, NEW files \in Matches
    PROVE  files \in Displays /\ files # Nothing /\ files.paths = match.paths
<1>1. "matched" \in Metas /\ match \in Displays
    BY WindowAssumption DEF WindowTypeOK
<1> QED BY <1>1, ListsTyped DEF Matches

\* What the steps of the window do to the view.
LEMMA ViewMoves ==
    ASSUME WindowTypeOK, [WindowNext]_windowVars
    PROVE  \/ UNCHANGED viewVars
           \/ \E files \in Displays : set_file_metadata(files)
           \/ \E k \in Builds : ViewStep(k) \/ Deliver(k)
<1>0. Nothing \in Displays /\ results \in [Kinds -> Displays] /\ view \in Kinds
    BY DEF Displays, WindowTypeOK
<1>1. ASSUME NEW target, NEW files \in Displays, Store(target, files)
      PROVE  UNCHANGED viewVars \/ set_file_metadata(files)
    BY <1>1 DEF Store
<1>2. CASE User
  <2>1. CASE \E v \in Kinds : ViewChanged(v)
      BY <1>0, <2>1 DEF ViewChanged
  <2>2. CASE ManualAccepted
      BY <1>0, <2>2, MergedTyped DEF ManualAccepted
  <2>3. CASE PlanAccepted
      BY <1>0, <2>3 DEF PlanAccepted, RefreshListAfterOrganize, viewVars
  <2> QED BY <1>2, <2>1, <2>2, <2>3
          DEF User, ScanClicked, MatchClicked, OrganizePreflightClicked, OrganizeExecuteClicked,
              GroupClicked, DetailMatchClicked, DialogCancelled
<1>3. CASE AutoScan \/ Report
  <2>1. CASE \E files \in Displays : ScanFinished(files)
      BY <1>1, <2>1 DEF ScanFinished
  <2>2. CASE MatchFinished
    <3>1. match # Nothing /\ \E files \in Matches : Store(matchTarget, files)
        BY <2>2 DEF MatchFinished, Matches
    <3> QED BY <1>1, <3>1, MatchesTyped
  <2>3. CASE OrganizeFinished
      BY <1>0, <2>3 DEF OrganizeFinished, RefreshListAfterOrganize
  <2> QED BY <1>3, <2>1, <2>2, <2>3
          DEF AutoScan, Report, Progress, FlushPendingProgress, FinalProgress, ScanError, MatchError,
              OrganizeError
<1>4. CASE \E k \in Builds : GroupsBuildFinished(k) \/ ViewWorks(k)
    BY <1>4 DEF GroupsBuildFinished, ViewWorks
<1>5. CASE UNCHANGED windowVars
    BY <1>5 DEF windowVars
<1> QED BY <1>2, <1>3, <1>4, <1>5 DEF WindowNext

LEMMA DisplayKeeps == DisplayInv /\ WindowTypeOK /\ [WindowNext]_windowVars => DisplayInv'
<1> SUFFICES ASSUME DisplayInv, WindowTypeOK, [WindowNext]_windowVars PROVE DisplayInv'
    OBVIOUS
<1>1. CASE UNCHANGED viewVars
    BY <1>1 DEF viewVars, DisplayInv, ViewTypeOK, Pending, Posted
<1> QED BY <1>1, ViewMoves, SetKeeps, ViewStepKeeps

\* Clicks are counted.
LEMMA HastyKept ==
    ASSUME WindowTypeOK, [WindowNext]_windowVars
    PROVE  hasty' \in 0 .. MaxHasty /\ (hasty' = 0 => hasty = 0)
<1>1. hasty \in 0 .. MaxHasty /\ MaxHasty \in Nat
    BY WindowAssumption DEF WindowTypeOK
<1>2. hasty' = hasty \/ (hasty < MaxHasty /\ hasty' = hasty + 1)
    BY DEF WindowNext, windowVars
<1> QED BY <1>1, <1>2

\* What the window keeps beside the view and the count of clicks.
WindowTyped ==
    /\ view \in Kinds /\ results \in [Kinds -> Displays]
    /\ scanTarget \in Kinds /\ matchTarget \in Kinds
    /\ scan \in Kinds \cup {Nothing} /\ match \in Displays /\ organizing \in BOOLEAN
    /\ overlay \in BOOLEAN /\ flush \in BOOLEAN /\ last \subseteq Tasks
    /\ autoScan \in BOOLEAN /\ detail \in Displays /\ scans \in 0..MaxScans
    /\ dialog # Nothing => dialog \in [of : {"manual", "plan"}, files : Lists]

LEMMA SetTyped ==
    ASSUME WindowInv
    PROVE  /\ WindowTyped /\ Nothing \in Displays
           /\ MatchTask \in Tasks /\ OrganizeTask \in Tasks /\ Builds \subseteq Tasks
           /\ \A s \in 0 .. MaxScans : s < MaxScans => s + 1 \in 0 .. MaxScans
           /\ \A list \in Displays : list # Nothing => list \in Lists
           /\ \A list \in Lists, of \in {"manual", "plan"} :
                [of |-> of, files |-> list] \in [of : {"manual", "plan"}, files : Lists]
           /\ shown \in Displays
<1>1. WindowTyped /\ shown \in Displays
    BY DEF WindowInv, WindowTypeOK, WindowTyped, ViewTypeOK
<1>2. \A s \in 0 .. MaxScans : s < MaxScans => s + 1 \in 0 .. MaxScans
    BY WindowAssumption
<1> QED BY <1>1, <1>2 DEF Displays, Tasks

\* A click in the quiet leaves at most one operation, on what it was started on.
LEMMA UserKeeps ==
    ASSUME WindowInv, User
    PROVE  WindowTyped' /\ (Quiet /\ hasty' = hasty => OneAtATime')
<1> USE SetTyped
<1>1. CASE ScanClicked
  <2>1. WindowTyped'
      BY <1>1 DEF WindowTyped, ScanClicked, StartScan, Cover, screenVars, userVars
  <2>2. Quiet /\ hasty' = hasty => OneAtATime'
      BY <1>1 DEF ScanClicked, StartScan, Quiet, Operating, OneAtATime, WindowInv, userVars
  <2> QED BY <2>1, <2>2
<1>2. CASE MatchClicked
  <2>1. WindowTyped'
    <3>1. match' \in {match, results[view]} /\ last' \subseteq last
          /\ overlay' \in {overlay, TRUE} /\ flush' \in {flush, FALSE}
        BY <1>2 DEF MatchClicked, StartMatch, Cover, screenVars
    <3>2. results[view] \in Displays
        BY DEF WindowTyped
    <3>3. matchTarget' = view /\ UNCHANGED <<scanTarget, scan, organizing, scans, userVars, results>>
        BY <1>2 DEF MatchClicked
    <3> QED BY <3>1, <3>2, <3>3 DEF WindowTyped, userVars
  <2>2. Quiet /\ hasty' = hasty => OneAtATime'
      BY <1>2 DEF MatchClicked, StartMatch, Quiet, Operating, OneAtATime, WindowInv, userVars
  <2> QED BY <2>1, <2>2
<1>3. CASE OrganizePreflightClicked
  <2>1. WindowTyped'
      BY <1>3 DEF WindowTyped, OrganizePreflightClicked, Cover, userVars
  <2>2. Quiet /\ hasty' = hasty => OneAtATime'
      BY <1>3 DEF OrganizePreflightClicked, Quiet, Operating, OneAtATime, WindowInv, userVars
  <2> QED BY <2>1, <2>2
<1>4. CASE OrganizeExecuteClicked \/ GroupClicked \/ DetailMatchClicked \/ DialogCancelled
           \/ \E v \in Kinds : ViewChanged(v)
  <2>1. WindowTyped'
    <3>1. CASE OrganizeExecuteClicked
        BY <3>1 DEF WindowTyped, OrganizeExecuteClicked, taskVars, screenVars
    <3>2. CASE GroupClicked
        BY <3>2 DEF WindowTyped, GroupClicked, taskVars, screenVars
    <3>3. CASE DetailMatchClicked
        BY <3>3 DEF WindowTyped, DetailMatchClicked, taskVars, screenVars
    <3>4. CASE DialogCancelled
        BY <3>4 DEF WindowTyped, DialogCancelled, taskVars, screenVars
    <3>5. CASE \E v \in Kinds : ViewChanged(v)
        BY <3>5 DEF WindowTyped, ViewChanged, taskVars, screenVars
    <3> QED BY <1>4, <3>1, <3>2, <3>3, <3>4, <3>5
  <2>2. UNCHANGED <<taskVars, autoScan, results>>
      BY <1>4 DEF OrganizeExecuteClicked, GroupClicked, DetailMatchClicked, DialogCancelled, ViewChanged
  <2>3. Quiet /\ hasty' = hasty => OneAtATime'
      BY <2>2 DEF OneAtATime, WindowInv, taskVars
  <2> QED BY <2>1, <2>3
<1>5. CASE ManualAccepted
  <2>1. results' = [results EXCEPT ![view] = Merged(results[view])] /\ results[view] \in Displays
        /\ detail' = Nothing /\ dialog' = Nothing /\ UNCHANGED <<taskVars, screenVars, view, autoScan>>
      BY <1>5 DEF ManualAccepted, WindowTyped
  <2>2. Merged(results[view]) \in Displays
        /\ (results[view] = Nothing <=> Merged(results[view]) = Nothing)
        /\ (results[view] # Nothing => Merged(results[view]).paths = results[view].paths)
      BY <2>1, MergedTyped
  <2>3. WindowTyped'
      BY <2>1, <2>2 DEF WindowTyped, taskVars, screenVars
  <2>4. Quiet /\ hasty' = hasty => OneAtATime'
      BY <2>1, <2>2 DEF Quiet, Operating, OneAtATime, WindowInv, WindowTyped, taskVars
  <2> QED BY <2>3, <2>4
<1>6. CASE PlanAccepted
  <2>1. WindowTyped'
      BY <1>6 DEF PlanAccepted, RefreshListAfterOrganize, WindowTyped, taskVars, screenVars
  <2>2. Quiet /\ hasty' = hasty => OneAtATime'
      BY <1>6 DEF PlanAccepted, RefreshListAfterOrganize, Quiet, Operating, OneAtATime, WindowInv,
                  taskVars
  <2> QED BY <2>1, <2>2
<1> QED BY <1>1, <1>2, <1>3, <1>4, <1>5, <1>6 DEF User

\* The operations and their reports do not meet, if their starts do not.
LEMMA ReportKeeps ==
    ASSUME WindowInv, AutoScan \/ Report, hasty' = hasty
    PROVE  WindowTyped' /\ OneAtATime'
<1> USE SetTyped
<1>1. CASE AutoScan
  <2>1. WindowTyped'
      BY <1>1, WindowAssumption DEF WindowTyped, AutoScan, StartScan, Cover, screenVars, Kinds
  <2>2. OneAtATime'
      BY <1>1 DEF AutoScan, StartScan, OneAtATime, WindowInv
  <2> QED BY <2>1, <2>2
<1>2. CASE Progress \/ FlushPendingProgress \/ \E task \in Tasks : FinalProgress(task)
  <2>1. WindowTyped'
    <3>1. CASE Progress
        BY <3>1 DEF WindowTyped, Progress, taskVars, userVars
    <3>2. CASE FlushPendingProgress
        BY <3>2 DEF WindowTyped, FlushPendingProgress, taskVars, userVars
    <3>3. CASE \E task \in Tasks : FinalProgress(task)
        BY <3>3 DEF WindowTyped, FinalProgress, taskVars, userVars
    <3> QED BY <1>2, <3>1, <3>2, <3>3
  <2>2. UNCHANGED <<taskVars, autoScan, results>>
      BY <1>2 DEF Progress, FlushPendingProgress, FinalProgress, userVars
  <2> QED BY <2>1, <2>2 DEF OneAtATime, WindowInv, taskVars
<1>3. CASE \E files \in Displays : ScanFinished(files)
  <2>1. PICK files \in Displays : ScanFinished(files)
      BY <1>3
  <2>2. results' = [results EXCEPT ![scanTarget] = files] /\ scan # Nothing /\ scan' = Nothing
        /\ (files # Nothing => files.paths = scan)
        /\ UNCHANGED <<scanTarget, organizing, scans, userVars>>
      BY <2>1 DEF ScanFinished, Store
  <2>3. WindowTyped'
    <3>1. last' \subseteq Tasks /\ overlay' \in BOOLEAN /\ flush' \in BOOLEAN /\ match' \in Displays
          /\ matchTarget' \in Kinds
        BY <2>1 DEF ScanFinished, StartMatch, Cover, Hide, screenVars, WindowTyped
    <3> QED BY <2>2, <3>1 DEF WindowTyped, userVars
  <2>4. CASE files # Nothing /\ match = Nothing
    <3>1. match' = files /\ matchTarget' = scanTarget
        BY <2>1, <2>4 DEF ScanFinished, StartMatch
    <3> QED BY <2>2, <2>3, <2>4, <3>1 DEF OneAtATime, WindowInv, WindowTyped, userVars
  <2>5. CASE ~(files # Nothing /\ match = Nothing)
    <3>1. match' = match
        BY <2>1, <2>5 DEF ScanFinished
    <3> QED BY <2>2, <2>3, <2>5, <3>1 DEF OneAtATime, WindowInv, WindowTyped, userVars
  <2> QED BY <2>4, <2>5
<1>4. CASE MatchFinished
  <2>1. PICK files \in Matches : Store(matchTarget, files)
      BY <1>4 DEF MatchFinished, Matches
  <2>2. match # Nothing /\ match' = Nothing /\ Hide
        /\ UNCHANGED <<scanTarget, matchTarget, scan, organizing, scans, userVars>>
      BY <1>4 DEF MatchFinished
  <2>3. files \in Displays /\ files # Nothing /\ files.paths = match.paths
      BY <2>2, MatchesTyped DEF WindowInv
  <2>4. results' = [results EXCEPT ![matchTarget] = files]
      BY <2>1 DEF Store
  <2>5. WindowTyped'
      BY <2>2, <2>3, <2>4 DEF WindowTyped, Hide, userVars
  <2>6. OneAtATime'
      BY <2>2, <2>3, <2>4 DEF OneAtATime, WindowInv, WindowTyped, userVars
  <2> QED BY <2>5, <2>6
<1>5. CASE OrganizeFinished
  <2>1. WindowTyped'
      BY <1>5 DEF OrganizeFinished, RefreshListAfterOrganize, Hide, WindowTyped
  <2>2. OneAtATime'
      BY <1>5 DEF OrganizeFinished, RefreshListAfterOrganize, OneAtATime, WindowInv
  <2> QED BY <2>1, <2>2
<1>6. CASE ScanError \/ MatchError \/ OrganizeError
  <2>1. WindowTyped'
      BY <1>6 DEF ScanError, MatchError, OrganizeError, Hide, WindowTyped, userVars
  <2>2. OneAtATime'
      BY <1>6 DEF ScanError, MatchError, OrganizeError, OneAtATime, WindowInv, userVars
  <2> QED BY <2>1, <2>2
<1> QED BY <1>1, <1>2, <1>3, <1>4, <1>5, <1>6 DEF Report

LEMMA WindowInitially == WindowInit => WindowInv
<1> SUFFICES ASSUME WindowInit PROVE WindowInv
    OBVIOUS
<1>1. DisplayInv
    BY ViewInitially DEF WindowInit
<1>2. OneAtATime
    BY DEF WindowInit, OneAtATime
<1>3. Nothing \in Displays /\ {"videos", "subtitles"} \subseteq Kinds /\ 0 \in 0 .. MaxScans
      /\ 0 \in 0 .. MaxHasty
    BY WindowAssumption DEF Displays, Kinds
<1>4. WindowTypeOK
    BY <1>1, <1>3 DEF WindowInit, WindowTypeOK, DisplayInv
<1> QED BY <1>1, <1>2, <1>4 DEF WindowInv

LEMMA WindowStepKeeps == WindowInv /\ [WindowNext]_windowVars => WindowInv'
<1> SUFFICES ASSUME WindowInv, [WindowNext]_windowVars PROVE WindowInv'
    OBVIOUS
<1>1. DisplayInv' /\ ViewTypeOK'
    BY DisplayKeeps DEF WindowInv, DisplayInv
<1>2. hasty' \in 0 .. MaxHasty /\ (hasty' = 0 => hasty = 0)
    BY HastyKept DEF WindowInv
<1>3. WindowTyped' /\ OneAtATime'
  <2>1. CASE User /\ IF Quiet THEN UNCHANGED hasty ELSE hasty < MaxHasty /\ hasty' = hasty + 1
    <3>1. CASE Quiet
        BY <2>1, <3>1, UserKeeps
    <3>2. CASE ~Quiet
      <4>1. hasty' # 0
          BY <2>1, <3>2, WindowAssumption DEF WindowInv, WindowTypeOK
      <4> QED BY <2>1, <4>1, UserKeeps DEF OneAtATime
    <3> QED BY <3>1, <3>2
  <2>2. CASE (AutoScan \/ Report) /\ UNCHANGED hasty
      BY <2>2, ReportKeeps
  <2>3. CASE (\E k \in Builds : GroupsBuildFinished(k) \/ ViewWorks(k)) /\ UNCHANGED hasty
    <3>1. UNCHANGED <<taskVars, userVars, results, hasty>>
        BY <2>3 DEF GroupsBuildFinished, ViewWorks
    <3>2. overlay' \in BOOLEAN /\ flush' \in BOOLEAN /\ last' \subseteq Tasks
        BY <2>3, SetTyped DEF GroupsBuildFinished, ViewWorks, Hide, screenVars, WindowTyped
    <3> QED BY <3>1, <3>2, SetTyped DEF WindowTyped, OneAtATime, WindowInv, taskVars, userVars
  <2>4. CASE UNCHANGED windowVars
      BY <2>4, SetTyped
         DEF windowVars, taskVars, screenVars, userVars, WindowTyped, OneAtATime, WindowInv
  <2> QED BY <2>1, <2>2, <2>3, <2>4 DEF WindowNext
<1>4. WindowTypeOK'
    BY <1>1, <1>2, <1>3 DEF WindowTypeOK, WindowTyped
<1> QED BY <1>1, <1>3, <1>4 DEF WindowInv

LEMMA WindowAlways == WindowSpec => []WindowInv
BY WindowInitially, WindowStepKeeps, PTL DEF WindowSpec

\* Builds replace each other in any order: once they are over the view shows
\* what it was given last, unless that was shown at once beside a build.
THEOREM ShowsLast == WindowSpec => []SettledShowsLast
<1>1. WindowInv => SettledShowsLast
    BY DisplaySettled DEF WindowInv
<1> QED BY <1>1, WindowAlways, PTL

\* A tab never holds the files of the other, as long as the user waits.
THEOREM ResultsStayInPlace == WindowSpec => []ResultsInPlace
<1>1. WindowInv => ResultsInPlace
    BY DEF WindowInv, OneAtATime, ResultsInPlace
<1> QED BY <1>1, WindowAlways, PTL

\* No operation starts uncovered, also not the match that follows a scan.
THEOREM StartsAreCovered == WindowSpec => StartsCovered
<1>1. [WindowNext]_windowVars => [Starts => overlay' /\ ~flush']_windowVars
  <2> SUFFICES ASSUME [WindowNext]_windowVars, Starts PROVE overlay' /\ ~flush'
      OBVIOUS
  <2>0. ~UNCHANGED <<scan, match, organizing>>
      BY DEF Starts
  <2>1. CASE User
      BY <2>0, <2>1
         DEF User, Starts, ScanClicked, MatchClicked, OrganizePreflightClicked,
             OrganizeExecuteClicked, GroupClicked, DetailMatchClicked, ViewChanged,
             DialogCancelled, ManualAccepted, PlanAccepted, StartScan, StartMatch, Cover, taskVars
  <2>2. CASE AutoScan \/ Report
    <3>1. CASE AutoScan
        BY <2>0, <3>1 DEF Starts, AutoScan, StartScan, Cover
    <3>2. CASE \E files \in Displays : ScanFinished(files)
        BY <2>0, <3>2 DEF Starts, ScanFinished, StartMatch, Cover
    <3> QED BY <2>0, <2>2, <3>1, <3>2
            DEF Report, Starts, Progress, FlushPendingProgress, FinalProgress, ScanError, MatchFinished,
                MatchError, OrganizeFinished, OrganizeError, taskVars
  <2>3. CASE \E k \in Builds : GroupsBuildFinished(k) \/ ViewWorks(k)
      BY <2>0, <2>3 DEF GroupsBuildFinished, ViewWorks, taskVars
  <2>4. CASE UNCHANGED windowVars
      BY <2>0, <2>4 DEF windowVars, taskVars
  <2> QED BY <2>1, <2>2, <2>3, <2>4 DEF WindowNext
<1> QED BY <1>1, PTL DEF WindowSpec, StartsCovered

\* No match that began before replaces a choice made by hand.
THEOREM ManualChoiceStays == WindowSpec => ManualChoiceKept
<1> DEFINE Kept == \A k \in Kinds :
              /\ hasty = 0 /\ results[k] # Nothing /\ results[k].meta = "manual"
              /\ MatchFinished /\ results'[k] # results[k]
              => match = results[k]
<1>1. WindowInv => Kept
  <2> SUFFICES ASSUME WindowInv, NEW k \in Kinds, hasty = 0, MatchFinished, results'[k] # results[k]
               PROVE  match = results[k]
      OBVIOUS
  <2>1. PICK files : results' = [results EXCEPT ![matchTarget] = files]
      BY DEF MatchFinished, Store
  <2>2. k = matchTarget
      BY <2>1 DEF WindowInv, WindowTypeOK
  <2> QED BY <2>2 DEF MatchFinished, WindowInv, OneAtATime
<1>2. WindowInv => [Kept]_windowVars
    BY <1>1
<1> QED BY <1>2, WindowAlways, PTL DEF WindowSpec, ManualChoiceKept
=============================================================================
