------------------------------- MODULE Commands -------------------------------
(* A command of the command line, from the main callback to its exit code:   *)
(* the wrappers of typer_app.py, setup_handler, the handler of the command,  *)
(* handle_cli_errors.  The use cases may fail at any of their calls; what    *)
(* they do is in RunFlow, MatchFiles, Pipeline and Organizer.                *)
EXTENDS Naturals, Sequences, FiniteSets, SequencesExt

CONSTANTS
    Wired,           \* commands whose module get_container wires
    NormalizedToList \* setup_handler makes a list of an extensions string

VARIABLES
    call,     \* what was typed: see Calls
    stage,    \* of the command, or "exited"
    out,      \* what standard output got: "success" and "error" are JSON
              \* documents, "text" is a message of a failed command
    answer,   \* of the user, if asked
    moved,    \* files were moved
    verified, \* [component -> is it well], for the verify command
    exit,     \* the exit code
    fault     \* history: something failed that the command depends on

commandVars == <<call, stage, out, answer, moved, verified, exit, fault>>

Names == {"scan", "match", "organize", "run", "verify", "log"}
Handled(names) == call.command \in names

\* json and verbose are those before the command, json_option that after it.
Calls == [command : Names, json : BOOLEAN, json_option : BOOLEAN, verbose : BOOLEAN,
          dry_run : BOOLEAN, yes : BOOLEAN, argument : {"none", "tmdb", "all", "list", "output"}]

CommandInit ==
    /\ call \in Calls
    /\ stage = "callback" /\ out = <<>> /\ answer = "none" /\ moved = FALSE
    /\ verified = <<>> /\ exit = 0 /\ fault = FALSE
-----------------------------------------------------------------------------
\* The option of scan and of run is not passed on: its place is taken by the
\* default, an object that counts as true.  verify and log have none.
json_output ==
    CASE Handled({"scan", "run"}) -> TRUE
      [] Handled({"match", "organize"}) -> call.json_option
      [] OTHER -> FALSE

HasJsonOutput == ~Handled({"verify", "log"})

\* Whether the handler writes JSON: two go by their own option.
is_json_output == IF Handled({"match", "organize"}) THEN call.json_option ELSE call.json

Emit(kind) == out' = IF is_json_output THEN Append(out, kind) ELSE out

GoTo(s) ==
    /\ stage' = s
    /\ UNCHANGED <<call, out, answer, moved, verified, exit, fault>>

\* return EXIT_SUCCESS, after the result has been written.
Succeed == stage' = "exited" /\ Emit("success") /\ exit' = 0

\* log_command catches the Exit of its own, too, and says so.
LogSays(o) == IF Handled({"log"}) /\ is_json_output THEN Append(o, "text") ELSE o

Exits(o) == stage' = "exited" /\ out' = LogSays(o) /\ exit' = 1

\* Mutant: the error is written and the command goes on to its end.
ErrorSwallowed ==
    /\ stage' = "exited" /\ exit' = 0
    /\ out' = Append(out, IF HasJsonOutput THEN "error" ELSE "text")

\* Options without json_output count as text; any other value, also False,
\* gets a document.  The error is raised again, which no command catches.
handle_cli_errors == Exits(Append(out, IF HasJsonOutput THEN "error" ELSE "text"))

\* A call that fails inside the handler.
Fails(stages) ==
    /\ stage \in stages /\ fault' = TRUE
    /\ handle_cli_errors
    /\ UNCHANGED <<call, answer, verified>>
-----------------------------------------------------------------------------
(* Before the handler.                                                       *)

main ==
    /\ stage = "callback"
    /\ \/ GoTo("options")
       \/ /\ fault' = TRUE /\ stage' = "exited" /\ exit' = 1
          /\ out' = IF call.json THEN Append(out, "error") ELSE out
          /\ UNCHANGED <<call, answer, moved, verified>>

\* The options are checked by their models: a ValueError is told on stderr.
MakeOptions ==
    /\ stage = "options"
    /\ \/ GoTo("setup")
       \/ /\ fault' = TRUE /\ Exits(out)
          /\ UNCHANGED <<call, answer, moved, verified>>

\* Mutant: --dry-run may be used with --yes.
OnlyJsonConsistent == ~(json_output /\ call.verbose)

ensure_json_mode_consistency ==
    ~(json_output /\ call.verbose) /\ ~(call.dry_run /\ call.yes)

Consistent == Handled({"organize", "run"}) => ensure_json_mode_consistency

\* setup_handler is outside handle_cli_errors: what it raises is not handled.
setup_handler ==
    /\ stage = "setup"
    /\ \/ Consistent /\ GoTo("body")
       \/ /\ \/ Handled({"organize", "run"}) /\ ~ensure_json_mode_consistency
             \/ Handled({"scan", "match", "organize", "run"}) \* no such directory
          /\ fault' = TRUE /\ Exits(out)
          /\ UNCHANGED <<call, answer, moved, verified>>
-----------------------------------------------------------------------------
(* Handlers.                                                                 *)

\* Provide stays a mark in a module that is not wired, and has no methods; but
\* verify without an argument does not need it.
NotInjected ==
    /\ stage = "body" /\ call.command \notin Wired \cup {"log"}
    /\ Handled({"verify"}) => call.argument \in {"tmdb", "all"}
    /\ handle_cli_errors
    /\ UNCHANGED <<call, answer, moved, verified, fault>>

Body(name) ==
    /\ stage = "body" /\ call.command = name
    /\ name \in Wired \cup {"log"} \/ (name = "verify" /\ call.argument \notin {"tmdb", "all"})

\* No files found, or all of them are to be enriched.
HandleScan ==
    /\ Body("scan")
    /\ \/ Succeed /\ UNCHANGED <<call, answer, moved, verified, fault>>
       \/ GoTo("enrich")

\* The results are shown before they are saved.
Enriched ==
    /\ stage = "enrich"
    /\ IF call.argument = "output" /\ ~is_json_output
       THEN GoTo("save")
       ELSE Succeed /\ UNCHANGED <<call, answer, moved, verified, fault>>

Saved ==
    /\ stage = "save" /\ Succeed
    /\ UNCHANGED <<call, answer, moved, verified, fault>>

HandleMatch ==
    /\ Body("match") /\ Succeed
    /\ UNCHANGED <<call, answer, moved, verified, fault>>

\* The extensions are split like a string.
SplitFails ==
    /\ Body("organize") /\ NormalizedToList
    /\ handle_cli_errors
    /\ UNCHANGED <<call, answer, moved, verified, fault>>

\* No files, a dry run, or a plan to ask about.
HandleOrganize ==
    /\ Body("organize") /\ ~NormalizedToList
    /\ \/ Succeed /\ UNCHANGED <<call, answer, moved, verified, fault>>
       \/ /\ ~call.dry_run
          /\ GoTo(IF call.yes \/ is_json_output THEN "execute" ELSE "confirm")

\* A key press that interrupts counts as no.
Confirm ==
    /\ stage = "confirm"
    /\ \/ /\ answer' = "yes" /\ stage' = "execute" /\ UNCHANGED <<out, exit>>
       \/ answer' = "no" /\ Succeed
    /\ UNCHANGED <<call, moved, verified, fault>>

\* Saving the log of the plan may fail without a word.
Execute ==
    /\ stage = "execute" /\ moved' \in BOOLEAN /\ Succeed
    /\ UNCHANGED <<call, answer, verified, fault>>

\* RunResult: a step that failed is told in a document of the handler's own.
HandleRun ==
    /\ Body("run") /\ moved' \in IF call.dry_run THEN {FALSE} ELSE BOOLEAN
    /\ \/ Succeed /\ UNCHANGED fault
       \/ /\ fault' = TRUE /\ stage' = "exited" /\ exit' = 1 /\ Emit("error")
    /\ UNCHANGED <<call, answer, verified>>

\* verify_all catches what any of the components raises.
verify_all(well) ==
    [c \in DOMAIN well \cup {"all_components"} |->
       IF c = "all_components" THEN \A d \in DOMAIN well : well[d] ELSE well[c]]

\* verification_status of the document.
verification_status ==
    IF verified = <<>> THEN "SUCCESS"
    ELSE IF \E c \in DOMAIN verified : ~verified[c] THEN "FAILED" ELSE "SUCCESS"

HandleVerify ==
    /\ Body("verify")
    /\ CASE call.argument = "all" ->
              \E well \in [{"tmdb_api", "settings", "cache"} -> BOOLEAN] :
                 verified' = verify_all(well)
         [] call.argument = "tmdb" -> verified' = [c \in {"tmdb_api"} |-> TRUE]
         [] OTHER -> UNCHANGED verified
    /\ Succeed
    /\ UNCHANGED <<call, answer, moved, fault>>

\* The handler tells itself that the TMDB cannot be reached.
VerifyFails ==
    /\ Body("verify") /\ call.argument = "tmdb"
    /\ fault' = TRUE /\ stage' = "exited" /\ exit' = 1 /\ Emit("error")
    /\ UNCHANGED <<call, answer, moved, verified>>

\* Of list, show and tail only the first is there.
HandleLog ==
    /\ Body("log")
    /\ \/ /\ call.argument = "list" /\ Succeed /\ UNCHANGED fault
       \/ /\ call.argument = "list" /\ ~is_json_output /\ fault' = TRUE /\ Exits(out)
       \/ /\ call.argument # "list" /\ UNCHANGED fault
          /\ Exits(IF is_json_output THEN Append(out, "error") ELSE out)
    /\ UNCHANGED <<call, answer, moved, verified>>

CallFails ==
    \/ Body("scan") /\ Fails({"body"}) /\ UNCHANGED moved
    \/ Body("match") /\ Fails({"body"}) /\ UNCHANGED moved
    \/ Body("organize") /\ ~NormalizedToList /\ Fails({"body"}) /\ UNCHANGED moved
    \/ Body("log") /\ call.argument = "list" /\ is_json_output /\ Fails({"body"}) /\ UNCHANGED moved
    \/ Fails({"enrich", "save"}) /\ UNCHANGED moved
    \/ moved' \in BOOLEAN /\ Fails({"execute"})

CommandNext ==
    \/ main \/ MakeOptions \/ setup_handler \/ NotInjected
    \/ HandleScan \/ Enriched \/ Saved \/ HandleMatch \/ SplitFails \/ HandleOrganize \/ Confirm
    \/ Execute \/ HandleRun \/ HandleVerify \/ VerifyFails \/ HandleLog \/ CallFails

CommandSpec == CommandInit /\ [][CommandNext]_commandVars
-----------------------------------------------------------------------------
\* Where in the output the JSON documents are.
Documents == {i \in DOMAIN out : out[i] # "text"}

\* A command writes one JSON document at most; its success is that of the exit
\* code, and a command that writes JSON and exits well has written one.
OneDocument ==
    /\ \A i, j \in Documents : i = j
    /\ stage = "exited" =>
         /\ exit = 0 => "error" \notin ToSet(out)
         /\ exit = 1 => "success" \notin ToSet(out)
         /\ exit = 0 /\ is_json_output => \E i \in Documents : out[i] = "success"

\* Files are moved by two commands only, not in a dry run, and organize moves
\* none that the user was not asked about unless --yes or --json says so.  No
\* one answers for a command that writes JSON.
MovedWithConsent ==
    /\ moved =>
         /\ Handled({"organize", "run"}) /\ ~call.dry_run
         /\ Handled({"organize"}) => call.yes \/ call.json_option \/ answer = "yes"
    /\ answer # "none" => ~is_json_output /\ ~call.yes
    /\ Handled({"organize", "run"}) /\ call.yes /\ call.dry_run => stage # "body"

\* The status told of all components is that of the worst of them.
VerifiedTrue ==
    verified # <<>> =>
      (verification_status = "SUCCESS" <=> \A c \in {"tmdb_api", "settings", "cache"} :
                                             c \in DOMAIN verified => verified[c])

CommandsSound == OneDocument /\ MovedWithConsent /\ VerifiedTrue

\* organize fails only if something fails that it depends on.
OrganizeWorks == Handled({"organize"}) /\ exit = 1 => fault
=============================================================================
