------------------------------ MODULE ScanCache ------------------------------
(* Repeated scans of one folder over the directory cache                     *)
(* (core/pipeline/components/scanner.py, directory_cache.py).                *)
(*                                                                           *)
(* run_pipeline makes a scanner and a cache for every scan.  The scanner     *)
(* loads the cache file, walks the tree depth first, takes the names of a    *)
(* directory from the cache when its modification time is the one noted, and *)
(* saves the cache at the end.  Meanwhile, and between scans, others change  *)
(* the tree, and the process may be killed.                                  *)
(*                                                                           *)
(* A time is a tick of the clock that stamps the files; what a directory is  *)
(* changed to within one tick has one modification time.  Names stand for    *)
(* files of a valid extension (run_pipeline gives the scanner no filter).    *)
EXTENDS Naturals, SequencesExt, FiniteSetsExt

CONSTANTS
    Dirs, Root,     \* the directories there may be, the scanned one
    Parent,         \* [Dirs \ {Root} -> Dirs]
    Names,          \* names of files in a directory
    NoEntry,        \* what the cache has of a directory it does not know
    Missing,        \* a cache file that does not exist
    Damaged,        \* a cache file cut off in writing
    MaxScans, MaxTime, MaxChanges, MaxFaults  \* bounds

ASSUME TreeAssumption ==
    /\ IsFiniteSet(Dirs) /\ Names \cap Dirs = {}
    /\ Root \in Dirs /\ Parent \in [Dirs \ {Root} -> Dirs]
    \* All directories are below the scanned one: going up ends there.
    /\ \A D \in SUBSET Dirs :
         D # {} /\ (\A d \in D \ {Root} : Parent[d] \in D) => Root \in D
    /\ {MaxScans, MaxTime, MaxChanges, MaxFaults} \subseteq Nat /\ MaxTime > 0

VARIABLES
    live,       \* the directories that exist
    content,    \* the files in each of them
    mtime,      \* their modification times
    now,        \* the clock
    saved,      \* the cache file
    cache,      \* DirectoryCacheManager._cache
    pc,         \* what the scanner does: idle, load, walk, list, record, save, write
    todo,       \* the directories still to visit, a stack
    read,       \* the modification time that Visit read
    listing,    \* what scandir gave
    found,      \* the files put into the queue, as <<directory, name>>
    stopped,    \* the scanner's stop event
    scans, changes, faults,  \* counters for the bounds
    \* History, for the properties only.
    steady,     \* the files that were there all through this scan
    erred,      \* the directories this scan had an error with
    noted,      \* directories unchanged since the cache in memory learnt them
    settled     \* directories unchanged since the saved cache learnt them

tree == <<live, content, mtime, changes>>
scan == <<pc, todo, read, listing, found, stopped, erred>>
vars == <<tree, now, saved, cache, scan, scans, faults, steady, noted, settled>>

Kids(d) == {k \in live \ {Root} : Parent[k] = d}

FilesIn(d) == {<<d, n>> : n \in content[d]}

Empty == [d \in Dirs |-> NoEntry]

\* One more fault within the bound.
Fault == faults < MaxFaults /\ faults' = faults + 1

\* The tree is full at first: others take from it and put back.
Init ==
    /\ live = Dirs /\ content = [d \in Dirs |-> Names]
    /\ mtime = [d \in Dirs |-> 0] /\ now = 1 /\ saved = Missing /\ cache = Empty
    /\ pc = "idle" /\ todo = <<>> /\ read = 0 /\ listing = NoEntry
    /\ found = {} /\ stopped = FALSE /\ scans = 0 /\ changes = 0 /\ faults = 0
    /\ steady = {} /\ erred = {} /\ noted = {} /\ settled = {}
-----------------------------------------------------------------------------
(* The world.                                                                *)

Tick ==
    /\ now < MaxTime /\ now' = now + 1
    /\ UNCHANGED <<tree, saved, cache, scan, scans, faults, steady, noted, settled>>

Touched(D) == [d \in Dirs |-> IF d \in D THEN now ELSE mtime[d]]

\* Somebody changes directories D.
Change(D) ==
    /\ changes < MaxChanges /\ changes' = changes + 1
    /\ mtime' = Touched(D) /\ noted' = noted \ D /\ settled' = settled \ D
    /\ UNCHANGED <<now, saved, cache, scan, scans, faults>>

AddFile(d, n) ==
    /\ d \in live /\ n \notin content[d]
    /\ content' = [content EXCEPT ![d] = @ \cup {n}]
    /\ Change({d}) /\ UNCHANGED <<live, steady>>

RemoveFile(d, n) ==
    /\ n \in content[d]
    /\ content' = [content EXCEPT ![d] = @ \ {n}]
    /\ steady' = steady \ {<<d, n>>}
    /\ Change({d}) /\ UNCHANGED live

MakeDir(d) ==
    /\ d \notin live /\ Parent[d] \in live /\ live' = live \cup {d}
    /\ Change({d, Parent[d]}) /\ UNCHANGED <<content, steady>>

RemoveDir(d) ==
    /\ d \in live \ {Root} /\ Kids(d) = {} /\ live' = live \ {d}
    /\ content' = [content EXCEPT ![d] = {}]
    /\ steady' = steady \ FilesIn(d)
    /\ Change({d, Parent[d]})
-----------------------------------------------------------------------------
(* A scan.                                                                   *)

\* The scan is over: its scanner and its cache are dropped.
Over ==
    /\ pc' = "idle" /\ todo' = <<>> /\ read' = 0 /\ listing' = NoEntry
    /\ found' = {} /\ stopped' = FALSE /\ cache' = Empty
    /\ steady' = {} /\ erred' = {} /\ noted' = {}
    /\ UNCHANGED <<tree, now, scans>>

Start ==
    /\ pc = "idle" /\ scans < MaxScans /\ scans' = scans + 1
    /\ pc' = "load" /\ todo' = <<Root>>
    /\ steady' = UNION {FilesIn(d) : d \in live}
    /\ UNCHANGED <<tree, now, saved, cache, read, listing, found, stopped, erred,
                   faults, noted, settled>>

\* load_cache: a file that is missing or damaged, and one that cannot be read
\* for another reason than its permissions, is an empty cache.
Load ==
    /\ pc = "load" /\ pc' = "walk"
    /\ \/ /\ saved \notin {Missing, Damaged} /\ cache' = saved /\ noted' = settled
          /\ UNCHANGED faults
       \/ /\ saved \in {Missing, Damaged} /\ UNCHANGED <<cache, noted, faults>>
       \/ saved # Missing /\ Fault /\ UNCHANGED <<cache, noted>>
    /\ UNCHANGED <<tree, now, saved, todo, read, listing, found, stopped, erred,
                   scans, steady, settled>>

\* load_cache, PermissionError: the scan finds nothing.
LoadDenied ==
    pc = "load" /\ saved # Missing /\ Fault /\ Over /\ UNCHANGED <<saved, settled>>

Walking == pc = "walk" /\ todo # <<>> /\ ~stopped

\* A directory that is gone or that raises is passed over.
Passed(d) ==
    /\ pc' = "walk" /\ todo' = Tail(todo)
    /\ \/ d \notin live /\ UNCHANGED <<faults, erred>>
       \/ Fault /\ erred' = erred \cup {d}
    /\ UNCHANGED <<tree, now, saved, cache, read, listing, found, stopped, scans,
                   steady, settled>>

StatFails == Walking /\ Passed(Head(todo)) /\ UNCHANGED noted

IsCached(d) == cache[d] # NoEntry /\ cache[d].mtime = mtime[d]

\* The names and the subdirectories of d go where they are wanted.
Yield(d, files, subs) ==
    /\ found' = found \cup {<<d, n>> : n \in files}
    /\ todo' = subs \o Tail(todo)

HitWholeTree ==  \* mutant: an unchanged directory vouches for all below it
    /\ Walking /\ Head(todo) \in live /\ IsCached(Head(todo))
    /\ Yield(Head(todo), cache[Head(todo)].files, <<>>)
    /\ UNCHANGED <<tree, now, saved, cache, pc, read, listing, stopped, erred,
                   scans, faults, steady, noted, settled>>

Hit ==
    /\ Walking /\ Head(todo) \in live /\ IsCached(Head(todo))
    /\ Yield(Head(todo), cache[Head(todo)].files, cache[Head(todo)].subs)
    /\ UNCHANGED <<tree, now, saved, cache, pc, read, listing, stopped, erred,
                   scans, faults, steady, noted, settled>>

Miss ==
    /\ Walking /\ Head(todo) \in live /\ ~IsCached(Head(todo))
    /\ pc' = "list" /\ read' = mtime[Head(todo)]
    /\ noted' = noted \cup {Head(todo)}
    /\ UNCHANGED <<tree, now, saved, cache, todo, listing, found, stopped, erred,
                   scans, faults, steady, settled>>

ListFails ==
    /\ pc = "list" /\ ~stopped /\ Passed(Head(todo))
    /\ noted' = noted \ {Head(todo)}

\* scandir: an entry whose kind cannot be told is left out, the listing is kept.
\* at and lost are history.
List ==
    /\ pc = "list" /\ ~stopped /\ Head(todo) \in live /\ pc' = "record"
    /\ LET d == Head(todo)
       IN  \E lost \in SUBSET (content[d] \cup Kids(d)) :
             /\ IF lost = {} THEN UNCHANGED faults ELSE Fault
             /\ \E subs \in SetToSeqs(Kids(d) \ lost) :
                  listing' = [mtime |-> read, files |-> content[d] \ lost, subs |-> subs,
                              at |-> now, lost |-> lost]
    /\ UNCHANGED <<tree, now, saved, cache, todo, read, found, stopped, erred, scans,
                   steady, noted, settled>>

RecordLate ==  \* mutant: the modification time is read after the listing
    /\ pc = "record" /\ pc' = "walk"
    /\ cache' = [cache EXCEPT ![Head(todo)] = [listing EXCEPT !.mtime = mtime[Head(todo)]]]
    /\ Yield(Head(todo), listing.files, listing.subs)
    /\ read' = 0 /\ listing' = NoEntry
    /\ UNCHANGED <<tree, now, saved, stopped, erred, scans, faults, steady, noted,
                   settled>>

\* update_directory_data, then the files and the subdirectories.
Record ==
    /\ pc = "record" /\ pc' = "walk"
    /\ cache' = [cache EXCEPT ![Head(todo)] = listing]
    /\ Yield(Head(todo), listing.files, listing.subs)
    /\ read' = 0 /\ listing' = NoEntry
    /\ UNCHANGED <<tree, now, saved, stopped, erred, scans, faults,
                   steady, noted, settled>>

Stop ==
    /\ pc # "idle" /\ ~stopped /\ stopped' = TRUE
    /\ UNCHANGED <<tree, now, saved, cache, pc, todo, read, listing, found, erred,
                   scans, faults, steady, noted, settled>>

\* The walk is over or was stopped; a directory being listed is forgotten.
EndWalk ==
    /\ \/ pc = "walk" /\ todo = <<>> /\ UNCHANGED noted
       \/ pc = "walk" /\ stopped /\ UNCHANGED noted
       \/ pc = "list" /\ stopped /\ noted' = noted \ {Head(todo)}
    /\ pc' = "save" /\ todo' = <<>>
    /\ UNCHANGED <<tree, now, saved, cache, read, listing, found, stopped, erred,
                   scans, faults, steady, settled>>

\* save_cache opens the file: what it held is gone, and a new file changes the
\* scanned directory.
Truncate ==
    /\ pc = "save" /\ pc' = "write" /\ saved' = Damaged /\ settled' = {}
    /\ IF saved = Missing
       THEN mtime' = Touched({Root}) /\ noted' = noted \ {Root}
       ELSE UNCHANGED <<mtime, noted>>
    /\ UNCHANGED <<live, content, changes, now, cache, todo, read, listing, found,
                   stopped, erred, scans, faults, steady>>

WriteFound ==  \* mutant: a directory without files is not saved
    /\ pc = "write" /\ settled' = noted /\ Over /\ UNCHANGED faults
    /\ saved' = [d \in Dirs |-> IF \E n \in Names : <<d, n>> \in found
                               THEN cache[d] ELSE NoEntry]

Write ==
    pc = "write" /\ saved' = cache /\ settled' = noted /\ Over /\ UNCHANGED faults

\* An error in opening or in writing the file ends the scan as it is.
SaveFails ==
    pc \in {"save", "write"} /\ Fault /\ Over /\ UNCHANGED <<saved, settled>>

\* The process is killed.
Crash ==
    pc # "idle" /\ Fault /\ Over /\ UNCHANGED <<saved, settled>>

World ==
    \/ Tick
    \/ \E d \in Dirs, n \in Names : AddFile(d, n) \/ RemoveFile(d, n)
    \/ \E d \in Dirs \ {Root} : MakeDir(d) \/ RemoveDir(d)

Scanner ==
    \/ Start \/ Load \/ LoadDenied
    \/ StatFails \/ Hit \/ Miss \/ ListFails \/ List \/ Record \/ EndWalk
    \/ Truncate \/ Write \/ SaveFails

Next == World \/ Scanner \/ Stop \/ Crash

Spec == Init /\ [][Next]_vars
-----------------------------------------------------------------------------
(* Properties.                                                               *)

Entry == [mtime : 0 .. MaxTime, files : SUBSET Names, subs : Seq(Dirs),
          at : 0 .. MaxTime, lost : SUBSET (Names \cup Dirs)]

ASSUME EntryAssumption == NoEntry \notin Entry

TypeOK ==
    /\ live \subseteq Dirs /\ content \in [Dirs -> SUBSET Names]
    /\ mtime \in [Dirs -> 0 .. now] /\ now \in 0 .. MaxTime
    /\ cache \in [Dirs -> Entry \cup {NoEntry}]
    /\ saved \in [Dirs -> Entry \cup {NoEntry}] \cup {Missing, Damaged}
    /\ todo \in Seq(Dirs) /\ listing \in Entry \cup {NoEntry}
    /\ found \subseteq Dirs \X Names

\* A listing of the tick in which its directory was changed may be older than
\* that change.
Racy(entry) == entry.at = entry.mtime

\* An entry that would be used, in the cache or in its file, is what the
\* directory holds, beside the names that raised when it was listed: whatever
\* changes come between the stat, the scandir and the update
\* (scanner.py:192-232), however a save ends.  Except for racy listings.
EntryTrue(entries) ==
    \A d \in live :
      LET e == entries[d]
      IN  e # NoEntry /\ e.mtime = mtime[d] /\ ~Racy(e) =>
            /\ e.files \cup (e.lost \cap Names) = content[d]
            /\ ToSet(e.subs) \cup (e.lost \cap Dirs) = Kids(d)

EntriesTrue ==
    /\ TypeOK
    /\ EntryTrue(cache) /\ (saved \notin {Missing, Damaged} => EntryTrue(saved))

\* A directory and those it is in.
Above[d \in Dirs] == {d} \cup IF d = Root THEN {} ELSE Above[Parent[d]]

\* What a scan that was not stopped must not be blamed for: errors of this
\* scan, and entries that are racy or that lost names to an error.
Excused(d) ==
    \/ d \in erred
    \/ cache[d] # NoEntry /\ (Racy(cache[d]) \/ cache[d].lost # {})

\* A scan that ran to its end found every file that was there all the time,
\* under unchanged directories too, whose subdirectories may have changed
\* (scanner.py:200-214).
ScanFindsAll ==
    pc = "save" /\ ~stopped =>
      \A f \in steady : (f \in found \/ \E d \in Above[f[1]] : Excused(d))

\* "enabling fast incremental scans by skipping unchanged directories"
\* (directory_cache.py:38-40): what the saved cache learnt, in whichever
\* earlier scan, and nobody changed since, is not listed again.
NotListedAgain ==
    [][pc = "walk" /\ pc' = "list" => Head(todo) \notin noted]_vars
=============================================================================
