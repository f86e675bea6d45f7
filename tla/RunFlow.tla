------------------------------- MODULE RunFlow -------------------------------
(* RunUseCase.execute: scan, match and organize, one after the other, each   *)
(* of which may be skipped or fail, while files of the directory disappear.  *)
(* With it what it calls of ScanUseCase, MatchUseCase and OrganizeUseCase.   *)
(*                                                                           *)
(* A list of files is a function from the files to what is known of them:    *)
(* "parsed" is their name alone, "matched" a match, "failed" an error.       *)
EXTENDS Naturals, Sequences, FiniteSets, SequencesExt, Functions

CONSTANTS
    Library, Ending,    \* the files there may be, and their suffix
    ExtensionLists,     \* what the option extensions may be
    CLI_VIDEO_EXTENSIONS,
    NoFiles             \* None, for a list of files

VARIABLES
    asked,     \* [skip, dry_run, extensions, benchmark]: the options
    step,      \* the step that is next or under way, or "done"
    present,   \* files in the directory
    scanned, matched, plan, \* lists of files, or NoFiles
    results,   \* [file -> did it move], of the operations carried out
    timers,    \* steps that were timed
    outcome    \* [steps, success, exit_code, benchmark, extra]: RunResult

runVars == <<asked, step, present, scanned, matched, plan, results, timers, outcome>>

Step == <<"scan", "match", "organize">>
After(s) == CASE s = "scan" -> "match" [] s = "match" -> "organize" [] OTHER -> "done"

Moved == {f \in DOMAIN results : results[f]}
NothingYet ==
    [steps |-> <<>>, success |-> TRUE, exit_code |-> 0, benchmark |-> {}, extra |-> <<>>]

RunInit ==
    /\ asked \in [skip : SUBSET ToSet(Step), dry_run : BOOLEAN, extensions : ExtensionLists,
                  benchmark : BOOLEAN]
    /\ step = "scan" /\ present = Library
    /\ scanned = NoFiles /\ matched = NoFiles /\ plan = NoFiles
    /\ results = <<>> /\ timers = {} /\ outcome = NothingYet
-----------------------------------------------------------------------------
\* The timers of the steps that are in the result.
collect_benchmark(steps, timed) ==
    IF asked.benchmark THEN {steps[i].step : i \in DOMAIN steps} \cap timed ELSE {}

timing_end == timers' = IF asked.benchmark THEN timers \cup {step} ELSE timers

\* _append_step: a step that failed is the last one.
append_step(status, extra) ==
    LET steps == Append(outcome.steps, [step |-> step, status |-> status])
        last == status = "error" \/ step = "organize"
    IN  /\ outcome' = [steps     |-> steps,
                       success   |-> outcome.success /\ status # "error",
                       exit_code |-> IF status = "error" THEN 1 ELSE outcome.exit_code,
                       benchmark |-> IF last THEN collect_benchmark(steps, timers') ELSE {},
                       extra     |-> extra]
        /\ step' = IF last THEN "done" ELSE After(step)

Skip ==
    /\ step \in asked.skip
    /\ UNCHANGED <<asked, present, scanned, matched, plan, results, timers>>
    /\ append_step("skipped", <<>>)

\* An exception of a step, also after some of the files were moved.
StepRaises ==
    /\ step \in ToSet(Step) \ asked.skip
    /\ timing_end /\ append_step("error", <<>>)
    /\ UNCHANGED <<asked, present, scanned, matched, plan, results>>

Ended(endings) == {f \in present : Ending[f] \in endings}

\* The pipeline leaves out the files whose parser failed.
run_scan_step ==
    /\ step = "scan" /\ "scan" \notin asked.skip
    /\ \E S \in SUBSET Ended(asked.extensions) : scanned' = [f \in S |-> "parsed"]
    /\ timing_end /\ append_step("success", <<>>)
    /\ UNCHANGED <<asked, present, matched, plan, results>>

\* From the files scanned, or from the directory by the endings of the match
\* command; a file without a match stays in the list.
run_match_step ==
    /\ step = "match" /\ "match" \notin asked.skip
    /\ IF scanned # NoFiles
       THEN matched' \in [DOMAIN scanned -> {"parsed", "matched"}]
       ELSE matched' \in [Ended(CLI_VIDEO_EXTENSIONS) -> {"parsed", "matched", "failed"}]
    /\ timing_end /\ append_step("success", <<>>)
    /\ UNCHANGED <<asked, present, scanned, plan, results>>

\* Mutant: "matched or scanned", and an empty list is no list.
PickNotEmpty == IF matched \notin {NoFiles, <<>>} THEN matched ELSE scanned

pick_organize_files == IF matched # NoFiles THEN matched ELSE scanned

\* A plan has an operation for each file whose destination can be told; of no
\* files there is none.
PlanOf(list) == {[f \in S |-> list[f]] : S \in SUBSET DOMAIN list}

build_organize_plan ==
    /\ step = "organize" /\ "organize" \notin asked.skip /\ plan = NoFiles
    /\ \E list \in IF pick_organize_files # NoFiles THEN {pick_organize_files}
                   ELSE {[f \in S |-> "parsed"] : S \in SUBSET Ended(asked.extensions)} :
         IF list = <<>>
         THEN /\ timing_end /\ append_step("success", [moved |-> 0, total |-> 0])
              /\ UNCHANGED plan
         ELSE /\ plan' \in PlanOf(list)
              /\ IF asked.dry_run
                 THEN /\ timing_end
                      /\ append_step("success",
                                     [moved |-> 0, total |-> Cardinality(DOMAIN plan')])
                 ELSE UNCHANGED <<step, timers, outcome>>
    /\ UNCHANGED <<asked, present, scanned, matched, results>>

Executing == step = "organize" /\ plan # NoFiles

\* One operation of execute_plan, which may fail.
Operate(f) ==
    /\ Executing /\ f \in DOMAIN plan \ DOMAIN results
    /\ \E ok \in IF f \in present THEN BOOLEAN ELSE {FALSE} :
         /\ results' = [g \in DOMAIN results \cup {f} |-> IF g = f THEN ok ELSE results[g]]
         /\ present' = IF ok THEN present \ {f} ELSE present
    /\ UNCHANGED <<asked, step, scanned, matched, plan, timers, outcome>>

\* The step ends well, whatever became of the single operations.
OrganizeEnds ==
    /\ Executing /\ DOMAIN results = DOMAIN plan
    /\ timing_end
    /\ append_step("success", [moved |-> Cardinality(Moved), total |-> Cardinality(DOMAIN plan)])
    /\ UNCHANGED <<asked, present, scanned, matched, plan, results>>

Vanish(f) ==
    /\ step # "done" /\ f \in present /\ present' = present \ {f}
    /\ UNCHANGED <<asked, step, scanned, matched, plan, results, timers, outcome>>

RunStep ==
    \/ Skip \/ StepRaises \/ run_scan_step \/ run_match_step \/ build_organize_plan
    \/ (\E f \in Library : Operate(f)) \/ OrganizeEnds

RunNext == RunStep \/ \E f \in Library : Vanish(f)

RunSpec == RunInit /\ [][RunNext]_runVars
-----------------------------------------------------------------------------
\* A file is moved by what the last list says of it: that of the match if there
\* was one, else that of the scan; and a file that a list leaves out stays.
MovedAsListed ==
    \A f \in Moved :
      LET list == IF matched # NoFiles THEN matched ELSE scanned
      IN  list # NoFiles => f \in DOMAIN list /\ plan[f] = list[f]

\* Nothing is moved in a dry run, when organize is skipped, or after a step
\* that failed.
MovedOnlyIfAsked ==
    Moved # {} =>
      /\ ~asked.dry_run /\ "organize" \notin asked.skip
      /\ \A i \in DOMAIN outcome.steps :
           outcome.steps[i].status = "error" => outcome.steps[i].step = "organize"

\* What a run says of itself when it is over is so.
ToldTrue ==
    LET steps == outcome.steps
        Status(i) == steps[i].status
        ran == {steps[i].step : i \in {j \in DOMAIN steps : Status(j) # "skipped"}}
    IN  /\ \A i \in DOMAIN steps :
             /\ steps[i].step = Step[i]
             /\ Status(i) = "skipped" <=> Step[i] \in asked.skip
             /\ Status(i) = "error" => i = Len(steps)
        /\ step = "done" =>
             /\ outcome.success <=> \A i \in DOMAIN steps : Status(i) # "error"
             /\ outcome.success <=> outcome.exit_code = 0
             /\ outcome.success => Len(steps) = 3
             /\ outcome.benchmark = IF asked.benchmark THEN ran ELSE {}
             /\ outcome.extra # <<>> =>
                  /\ outcome.extra.moved = Cardinality(Moved)
                  /\ outcome.extra.moved <= outcome.extra.total
                  /\ plan # NoFiles => outcome.extra.total = Cardinality(DOMAIN plan)

RunSound == MovedAsListed /\ MovedOnlyIfAsked /\ ToldTrue
=============================================================================
