----------------------------- MODULE SearchStore -----------------------------
(* SQLiteCacheDB (infrastructure/cache/sqlite_cache_db.py and sqlite_cache/): *)
(* the caches of several processes, or several in one process, over one       *)
(* folder.  Each opens the database of its path; when that cannot be opened   *)
(* it is deleted, and when it cannot be deleted another name is taken, made   *)
(* of the time.  Such files are cleaned up when a cache is opened.            *)
(*                                                                            *)
(* A database is told by the times it was made at, since a file that was      *)
(* deleted goes on to exist for those who have it open.                       *)
EXTENDS Naturals, FiniteSets

CONSTANTS
    Users,      \* the caches
    Keys, Types, Data,
    Main,       \* the name of the database; the others are times
    Ttls,       \* ttl_seconds
    None,
    MaxTime, MaxSteps, MaxFaults  \* bounds: the clock, opened caches, faults

VARIABLES
    file,    \* [name -> the database of that name]
    rows,    \* [database -> [key -> row]]
    made,    \* how many databases were made
    phase,   \* of each cache: closed, probing, waiting, opening, open
    path,    \* its db_path
    conn,    \* the database it is connected to
    now, opened, faults,
    undeleted, \* history: names the last clean-up could not delete
    shared     \* history: no cache was ever forced off the database of its path

vars == <<file, rows, made, phase, path, conn, now, opened, faults, undeleted, shared>>

Names == {Main} \cup 0 .. MaxTime
Bases == 1 .. MaxSteps
NoRows == [k \in Keys |-> None]
Alternatives == {n \in Names \ {Main} : file[n] # None}

Init ==
    /\ file = [n \in Names |-> None] /\ rows = [b \in Bases |-> NoRows] /\ made = 0
    /\ phase = [u \in Users |-> "closed"] /\ path = [u \in Users |-> Main]
    /\ conn = [u \in Users |-> None]
    /\ now = 0 /\ opened = 0 /\ faults = 0 /\ undeleted = {} /\ shared = TRUE

Fault == faults < MaxFaults /\ faults' = faults + 1
-----------------------------------------------------------------------------
(* Opening.                                                                  *)

\* _cleanup_old_db_files deletes every file it can: not one is kept.
Open(u) ==
    /\ phase[u] = "closed" /\ opened < MaxSteps /\ opened' = opened + 1
    /\ \E stuck \in SUBSET Alternatives :
         /\ IF stuck = {} THEN UNCHANGED faults ELSE Fault
         /\ undeleted' = stuck
         /\ file' = [n \in Names |-> IF n \in Alternatives \ stuck
                                     THEN None ELSE file[n]]
    /\ phase' = [phase EXCEPT ![u] = "probing"] /\ path' = [path EXCEPT ![u] = Main]
    /\ UNCHANGED <<rows, made, conn, now, shared>>

To(u, p) == phase' = [phase EXCEPT ![u] = p]

\* Mutant: a database that is there is always replaced.
ProbeAnew(u) ==
    /\ phase[u] = "probing" /\ To(u, "opening")
    /\ file' = [file EXCEPT ![Main] = None]
    /\ UNCHANGED <<rows, made, path, conn, now, opened, faults, undeleted, shared>>

\* No database yet, or the test connection succeeds.
Probe(u) ==
    /\ phase[u] = "probing" /\ To(u, "opening")
    /\ UNCHANGED <<file, rows, made, path, conn, now, opened, faults, undeleted, shared>>

\* sqlite3.OperationalError: the database is deleted, ...
ProbeFails(u) ==
    /\ phase[u] = "probing" /\ file[Main] # None /\ Fault /\ shared' = FALSE
    /\ \/ To(u, "opening") /\ file' = [file EXCEPT ![Main] = None]
       \/ To(u, "waiting") /\ UNCHANGED file
    /\ UNCHANGED <<rows, made, path, conn, now, opened, undeleted>>

\* ... after a while if need be, ...
Retry(u) ==
    /\ phase[u] = "waiting" /\ To(u, "opening")
    /\ file' = [file EXCEPT ![Main] = None]
    /\ UNCHANGED <<rows, made, path, conn, now, opened, faults, undeleted, shared>>

\* ... or left where it is.
TakeAlternative(u) ==
    /\ phase[u] = "waiting" /\ Fault /\ To(u, "opening")
    /\ path' = [path EXCEPT ![u] = now]
    /\ UNCHANGED <<file, rows, made, conn, now, opened, undeleted, shared>>

Dead(row) == row # None /\ row.expires < now
Purged(table) == [k \in Keys |-> IF Dead(table[k]) THEN None ELSE table[k]]

\* Connecting makes the file; then the tables, and purge_expired.
Connect(u) ==
    /\ phase[u] = "opening" /\ To(u, "open")
    /\ LET b == IF file[path[u]] = None THEN made + 1 ELSE file[path[u]]
       IN  /\ file' = [file EXCEPT ![path[u]] = b]
           /\ made' = IF b > made THEN b ELSE made
           /\ conn' = [conn EXCEPT ![u] = b]
           /\ rows' = [rows EXCEPT ![b] = Purged(@)]
    /\ UNCHANGED <<path, now, opened, faults, undeleted, shared>>

\* InfrastructureError, or the process is killed.
OpenFails(u) ==
    /\ phase[u] \in {"probing", "waiting", "opening"} /\ Fault /\ To(u, "closed")
    /\ UNCHANGED <<file, rows, made, path, conn, now, opened, undeleted, shared>>

Close(u) ==
    /\ phase[u] = "open" /\ To(u, "closed") /\ conn' = [conn EXCEPT ![u] = None]
    /\ UNCHANGED <<file, rows, made, path, now, opened, faults, undeleted, shared>>
-----------------------------------------------------------------------------
(* Using it.                                                                 *)

Table(u) == rows[conn[u]]

Change(u, table) ==
    /\ phase[u] = "open" /\ table # Table(u)
    /\ rows' = [rows EXCEPT ![conn[u]] = table]
    /\ UNCHANGED <<file, made, phase, path, conn, now, opened, faults, undeleted, shared>>

\* INSERT OR REPLACE: a key is unique, whatever the type.
set_cache(u, k, type, d, ttl) ==
    Change(u, [Table(u) EXCEPT ![k] = [type |-> type, data |-> d, expires |-> now + ttl]])

delete(u, k, type) ==
    /\ phase[u] = "open" /\ Table(u)[k] # None /\ Table(u)[k].type = type
    /\ Change(u, [Table(u) EXCEPT ![k] = None])

purge_expired(u) == phase[u] = "open" /\ Change(u, Purged(Table(u)))

\* Of one type or, with None, of all.
clear(u, type) ==
    /\ phase[u] = "open"
    /\ Change(u, [k \in Keys |-> IF Table(u)[k] # None /\ type \in {None, Table(u)[k].type}
                                 THEN None ELSE Table(u)[k]])

\* What get answers; an entry is over at the moment it expires.
get(u, k, type) ==
    LET row == Table(u)[k]
    IN  IF row = None \/ row.type # type \/ now >= row.expires THEN None ELSE row.data

\* Mutant: an entry is still valid at the moment it expires.
ValidEntriesLate(u) == {k \in Keys : Table(u)[k] # None /\ Table(u)[k].expires >= now}

\* get_cache_info: SELECT COUNT(...) WHERE expires_at > now.
ValidEntries(u) == {k \in Keys : Table(u)[k] # None /\ Table(u)[k].expires > now}

Tick ==
    /\ now < MaxTime /\ now' = now + 1
    /\ UNCHANGED <<file, rows, made, phase, path, conn, opened, faults, undeleted, shared>>

Opening(u) ==
    Open(u) \/ Probe(u) \/ ProbeFails(u) \/ Retry(u) \/ TakeAlternative(u) \/ Connect(u)
      \/ OpenFails(u) \/ Close(u)

Using(u) ==
    \/ \E k \in Keys, type \in Types : delete(u, k, type) \/
         \E d \in Data, ttl \in Ttls : set_cache(u, k, type, d, ttl)
    \/ purge_expired(u)
    \/ \E type \in Types \cup {None} : clear(u, type)

Next == Tick \/ \E u \in Users : Opening(u) \/ (phase[u] = "open" /\ Using(u))

Spec == Init /\ [][Next]_vars
-----------------------------------------------------------------------------
TypeOK ==
    /\ file \in [Names -> Bases \cup {None}] /\ made \in 0 .. MaxSteps
    /\ \A u \in Users : phase[u] = "open" <=> conn[u] # None

\* Unless a database could not be opened, all caches are over the same one.
OneDatabase == shared => \A u \in Users : phase[u] = "open" => conn[u] = file[Main]

\* Databases under other names do not pile up: each is the one of a cache that
\* has not been opened again, or its deletion failed at the last opening.
NoneLeftBehind == Alternatives \subseteq {path[u] : u \in Users} \cup undeleted

\* What get_cache_info calls valid is what get answers, whatever the type.
InfoAgrees ==
    \A u \in Users : phase[u] = "open" =>
      ValidEntries(u) = {k \in Keys : \E type \in Types : get(u, k, type) # None}

\* However the caches open, close and fail in between.
StoreSound == TypeOK /\ OneDatabase /\ NoneLeftBehind /\ InfoAgrees
=============================================================================
