------------------------------ MODULE Settings ------------------------------
(* The configuration of the GUI: config/loader.py, AutoScanner's             *)
(* update_folder_settings and the settings dialog, over the .env file, the   *)
(* environment and the configuration files.  Inside the program there are    *)
(* two of it: the loader's _instance, which the TMDB clients use, and        *)
(* AppContext's, which the windows use.                                      *)
(*                                                                           *)
(* A save runs on the GUI's thread, one file after the other; threads that   *)
(* make a TMDB client may come in between, and a write may fail before it    *)
(* has touched the file, or leave it torn.                                   *)
EXTENDS Naturals

CONSTANTS
    ApiKeys,   \* what may be typed as a key
    Folders,   \* folder settings
    KeyLength,
    BadFolders,  \* the folder settings that do not validate
    Torn, Empty, \* a torn configuration file; a .env without a key in it
    None,
    MaxSaves, MaxErrors  \* bounds

VARIABLES
    env_file,  \* .env: its key, Empty or None, when there is no such file
    environ,   \* TMDB_API_KEY
    files,     \* the configuration files, in the order they are looked for
    instance,  \* SettingsLoader._instance
    settings,  \* AppContext.settings
    dialog,    \* [at, key, folders]: the save under way and what was typed
    saves, errors,
    behind     \* history: files changed since, or not, as _instance says

vars == <<env_file, environ, files, instance, settings, dialog, saves, errors, behind>>

Paths == DOMAIN files
Defaults == [key |-> Empty, folders |-> None]
Closed == [at |-> "closed", key |-> None, folders |-> None]

Init ==
    /\ env_file \in ApiKeys \cup {Empty, None} /\ environ \in {k \in ApiKeys : KeyLength[k] >= 20} \cup {None}
    /\ files \in [1 .. 2 -> {None} \cup [key : {Empty}, folders : Folders \ BadFolders]]
    /\ instance = None /\ settings = None /\ dialog = Closed
    /\ saves = 0 /\ errors = 0 /\ behind = FALSE

Error == errors < MaxErrors /\ errors' = errors + 1
-----------------------------------------------------------------------------
(* Loading.                                                                  *)

\* _load_env_file: the file goes before the environment.
EnvLoaded == IF env_file \in {None, Empty} THEN environ ELSE env_file

\* _check_env_file_exists, _validate_api_key.
EnvFails == EnvLoaded = None \/ KeyLength[EnvLoaded] < 20

\* The first of the default paths there is; its key and folders may be torn.
FirstFile == {p \in Paths : files[p] # None /\ \A q \in 1 .. p - 1 : files[q] = None}

\* load_settings().
Loaded == IF FirstFile = {} THEN Defaults ELSE files[CHOOSE p \in FirstFile : TRUE]

LoadFails == EnvFails \/ Loaded = Torn

\* AppContext; without a configuration the program does not start.
Start ==
    /\ settings = None /\ ~LoadFails
    /\ settings' = Loaded /\ environ' = EnvLoaded
    /\ UNCHANGED <<env_file, files, instance, dialog, saves, errors, behind>>

\* get_config, by a thread that makes a TMDB client.
get_config ==
    /\ settings # None /\ instance = None
    /\ environ' = EnvLoaded
    /\ instance' = IF LoadFails THEN None ELSE Loaded
    /\ UNCHANGED <<env_file, files, settings, dialog, saves, errors, behind>>

Stop ==
    /\ settings # None
    /\ instance' = None /\ settings' = None /\ dialog' = Closed /\ behind' = FALSE
    /\ UNCHANGED <<env_file, environ, files, saves, errors>>
-----------------------------------------------------------------------------
(* SettingsDialog._on_save.                                                  *)

At(step) == dialog' = [dialog EXCEPT !.at = step]

\* A short key is turned away; without one, the one that is there remains.
Save(key, folders) ==
    /\ settings # None /\ dialog.at = "closed" /\ saves < MaxSaves
    /\ key # None => KeyLength[key] >= 10
    /\ saves' = saves + 1
    /\ dialog' = [at |-> IF key = None THEN "folders" ELSE "env", key |-> key, folders |-> folders]
    /\ UNCHANGED <<env_file, environ, files, instance, settings, errors, behind>>

\* _save_api_key_to_env_file.
SaveEnv(outcome) ==
    /\ dialog.at = "env"
    /\ env_file' = CASE outcome = "done" -> dialog.key [] outcome = "torn" -> Empty
                     [] outcome = "failed" -> env_file
    /\ IF outcome = "done" THEN At("key") /\ environ' = dialog.key /\ UNCHANGED errors
       ELSE At("closed") /\ UNCHANGED environ /\ Error
    /\ UNCHANGED <<files, instance, settings, saves, behind>>

\* What is to be changed: with the first configuration there is, all of it is
\* saved, at the path that comes first.
Current == IF instance = None THEN Loaded ELSE instance

Updated ==
    IF dialog.at = "key" THEN [Current EXCEPT !.key = dialog.key]
    ELSE [Current EXCEPT !.folders = dialog.folders]

UpdateFails == (instance = None /\ LoadFails) \/ Updated.folders \in BadFolders

\* Mutant: what is being saved is in force before it is saved.
InForceEarly(outcome) == IF UpdateFails THEN Current ELSE Updated

\* _instance after an update that did not fail before the file was to be written.
InForce(outcome) == IF outcome = "done" /\ ~UpdateFails THEN Updated ELSE Current

\* update_and_save_config, with _lock held.
update_and_save_config(outcome) ==
    /\ dialog.at \in {"key", "folders"}
    /\ environ' = IF instance = None THEN EnvLoaded ELSE environ
    /\ instance' = IF instance = None /\ LoadFails THEN None ELSE InForce(outcome)
    /\ IF UpdateFails THEN outcome = "done" /\ At("closed") /\ UNCHANGED <<files, errors, behind>>
       ELSE CASE outcome = "done" -> /\ At(IF dialog.at = "key" THEN "folders" ELSE "reload")
                                     /\ files' = [files EXCEPT ![1] = Updated]
                                     /\ behind' = FALSE /\ UNCHANGED errors
              [] outcome = "torn" -> /\ At("closed") /\ Error /\ behind' = TRUE
                                     /\ files' = [files EXCEPT ![1] = Torn]
              [] outcome = "failed" -> At("closed") /\ Error /\ UNCHANGED <<files, behind>>
    /\ UNCHANGED <<env_file, settings, saves>>

\* The window's settings are read anew, from that path.
Reload ==
    /\ dialog.at = "reload"
    /\ environ' = EnvLoaded
    /\ IF EnvFails \/ files[1] \in {None, Torn} THEN At("closed") /\ UNCHANGED settings
       ELSE At("saved") /\ settings' = files[1]
    /\ UNCHANGED <<env_file, files, instance, saves, errors, behind>>

Dismiss ==
    /\ dialog.at = "saved" /\ dialog' = Closed
    /\ UNCHANGED <<env_file, environ, files, instance, settings, saves, errors, behind>>

\* _load_organize_settings reads them anew, too; an error there is unhandled.
_load_organize_settings ==
    /\ settings # None /\ dialog.at \in {"closed", "saved"}
    /\ environ' = EnvLoaded
    /\ settings' = IF EnvFails \/ files[1] \in {None, Torn} THEN settings ELSE files[1]
    /\ UNCHANGED <<env_file, files, instance, dialog, saves, errors, behind>>

\* Somebody edits the file, or a run of the command line saves it.
Edited(folders) ==
    /\ files[1] \notin {None, Torn} /\ files[1].folders # folders /\ dialog.at = "closed" /\ Error
    /\ files' = [files EXCEPT ![1].folders = folders] /\ behind' = (instance # None)
    /\ UNCHANGED <<env_file, environ, instance, settings, dialog, saves>>

Saving ==
    \/ \E key \in ApiKeys \cup {None}, folders \in Folders : Save(key, folders)
    \/ \E outcome \in {"done", "failed", "torn"} : SaveEnv(outcome) \/ update_and_save_config(outcome)
    \/ Reload \/ Dismiss

Next ==
    \/ Start \/ get_config \/ Stop \/ Saving \/ _load_organize_settings
    \/ \E folders \in Folders \ BadFolders : Edited(folders)

Spec == Init /\ [][Next]_vars
-----------------------------------------------------------------------------
TypeOK ==
    /\ env_file \in ApiKeys \cup {Empty, None} /\ environ \in ApiKeys \cup {None}
    /\ dialog.at \in {"closed", "env", "key", "folders", "reload", "saved"}

\* The TMDB clients' configuration is that of the files, through every save that
\* succeeds or fails, unless a file was torn or edited meanwhile.
CacheIsTrue == instance # None /\ ~behind => Loaded = instance

\* When the dialog says that all is saved, the file, the clients and the windows
\* have what was typed, and the next start has it, too.
SavedIsInForce ==
    dialog.at = "saved" =>
      /\ dialog.key # None => environ = dialog.key /\ env_file = dialog.key
                              /\ instance.key = dialog.key
      /\ files[1] = instance /\ settings = instance /\ settings.folders = dialog.folders
      /\ ~LoadFails

\* A program that runs would start again, unless a file was torn or a key saved
\* that is too short for the loader, though not for the dialog.
StartsAgain ==
    settings # None /\ LoadFails =>
      \/ Torn \in {files[p] : p \in Paths} \/ env_file = Empty
      \/ KeyLength[env_file] < 20

SettingsAgree == TypeOK /\ CacheIsTrue /\ SavedIsInForce /\ StartsAgain
=============================================================================
