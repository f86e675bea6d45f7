--------------------------- MODULE ScanCacheProofs ---------------------------
(* Proofs about ScanCache, for any finite tree of directories and any        *)
(* numbers of scans, changes and faults: no entry of the cache or of its     *)
(* file vouches for a directory that was changed since it was listed, what   *)
(* was not changed is not listed again, and a scan finds what was there.     *)
EXTENDS ScanCache, FiniteSetTheorems, TLAPS

-----------------------------------------------------------------------------
(* The inductive invariant.  An entry was listed no earlier than the time it *)
(* notes, and that is no later than its directory's; and as long as it is    *)
(* the directory's own and the listing is not racy, the listing is right.    *)
(* The same goes for the listing a scan has not recorded yet.                *)

KidsIn(d, dirs) == {k \in dirs \ {Root} : Parent[k] = d}

\* Entry e of directory d, were the tree (dirs, files, times) at time t.
Good(e, d, dirs, files, times, t) ==
    e # NoEntry =>
        /\ e \in Entry
        /\ e.mtime <= times[d] /\ e.mtime <= e.at /\ e.at <= t
        /\ d \in dirs /\ e.mtime = times[d] /\ e.at # e.mtime =>
             /\ e.files \cup (e.lost \cap Names) = files[d]
             /\ ToSet(e.subs) \cup (e.lost \cap Dirs) = KidsIn(d, dirs)

GoodNow(e, d) == Good(e, d, live, content, mtime, now)

CacheOK == \A d \in Dirs : GoodNow(cache[d], d)
SavedOK == saved \notin {Missing, Damaged} => \A d \in Dirs : GoodNow(saved[d], d)
ScanOK ==
    /\ pc \in {"list", "record"} => todo # <<>>
    /\ read \in 0 .. now
    /\ pc = "list" => read <= mtime[Head(todo)]
    /\ pc = "record" => listing \in Entry /\ GoodNow(listing, Head(todo))

CacheInv == TypeOK /\ CacheOK /\ SavedOK /\ ScanOK
-----------------------------------------------------------------------------
(* Entries stay good.                                                        *)

\* What happens to a directory d between two states of the tree, now and then
\* later: nothing, or it is stamped with the time.
Follows(d, dirs, files, times, t, dirs2, files2, times2, t2) ==
    \/ /\ times2[d] = times[d] /\ files2[d] = files[d] /\ t <= t2
       /\ KidsIn(d, dirs2) = KidsIn(d, dirs) /\ (d \in dirs2 => d \in dirs)
    \/ times2[d] = t /\ times[d] <= t /\ t2 = t

\* An entry is good also after its directory was changed: it is out of date or
\* racy then.
LEMMA GoodStays ==
    ASSUME NEW e, NEW d \in Dirs,
           NEW dirs, NEW files, NEW times \in [Dirs -> Nat], NEW t \in Nat,
           NEW dirs2, NEW files2, NEW times2 \in [Dirs -> Nat], NEW t2 \in Nat,
           Good(e, d, dirs, files, times, t),
           Follows(d, dirs, files, times, t, dirs2, files2, times2, t2)
    PROVE  Good(e, d, dirs2, files2, times2, t2)
<1> SUFFICES ASSUME e # NoEntry PROVE Good(e, d, dirs2, files2, times2, t2)
    BY DEF Good
<1>1. /\ e \in Entry /\ e.mtime \in Nat /\ e.at \in Nat
      /\ e.mtime <= times[d] /\ e.mtime <= e.at /\ e.at <= t
    BY TreeAssumption DEF Good, Entry
<1>2. times[d] \in Nat /\ times2[d] \in Nat
    OBVIOUS
<1>3. CASE /\ times2[d] = times[d] /\ files2[d] = files[d] /\ t <= t2
           /\ KidsIn(d, dirs2) = KidsIn(d, dirs) /\ (d \in dirs2 => d \in dirs)
  <2>1. e.at <= t2
      BY <1>1, <1>3
  <2> QED BY <1>1, <1>3, <2>1 DEF Good
<1>4. CASE times2[d] = t /\ times[d] <= t /\ t2 = t
  <2>1. e.mtime <= times2[d] /\ e.at <= t2
      BY <1>1, <1>2, <1>4
  <2>2. ~(e.mtime = times2[d] /\ e.at # e.mtime)
      BY <1>1, <1>2, <1>4
  <2> QED BY <1>1, <2>1, <2>2 DEF Good
<1> QED BY <1>3, <1>4 DEF Follows

\* The subdirectories of a listing are those it was made of.
LEMMA SubsListed ==
    ASSUME NEW S, IsFiniteSet(S), NEW subs \in SetToSeqs(S)
    PROVE  subs \in Seq(S) /\ ToSet(subs) = S
<1>1. Cardinality(S) \in Nat
    BY FS_CardinalityType
<1>2. /\ subs \in [1..Cardinality(S) -> S]
      /\ \A i, j \in 1..Cardinality(S) : i # j => subs[i] # subs[j]
    BY DEF SetToSeqs
<1>3. subs \in Injection(1..Cardinality(S), S)
    BY <1>2 DEF Injection, IsInjective
<1>4. Cardinality(1..Cardinality(S)) = Cardinality(S)
    BY <1>1, FS_Interval
<1>5. subs \in Surjection(1..Cardinality(S), S)
    BY <1>3, <1>4, FS_Injection
<1>6. \A x \in S : \E i \in 1..Cardinality(S) : subs[i] = x
    BY <1>5 DEF Surjection, Range
<1> QED BY <1>1, <1>2, <1>6 DEF ToSet
-----------------------------------------------------------------------------
\* At first there are no entries.
LEMMA CacheInit == Init => CacheInv
<1> SUFFICES ASSUME Init PROVE CacheInv
    OBVIOUS
<1>1. TypeOK
  <2>1. mtime \in [Dirs -> 0 .. now] /\ now \in 0 .. MaxTime
      BY TreeAssumption DEF Init
  <2> QED BY <2>1, TreeAssumption DEF Init, TypeOK, Empty
<1>2. CacheOK
    BY DEF Init, Empty, CacheOK, GoodNow, Good
<1>3. SavedOK /\ ScanOK
    BY DEF Init, SavedOK, ScanOK
<1> QED BY <1>1, <1>2, <1>3 DEF CacheInv

\* The types of the tree and the clock, and how each directory fares.
TreeType ==
    /\ live \subseteq Dirs /\ content \in [Dirs -> SUBSET Names]
    /\ mtime \in [Dirs -> 0 .. now] /\ now \in 0 .. MaxTime
TreeFollows ==
    \A d \in Dirs : Follows(d, live, content, mtime, now, live', content', mtime', now')

\* A step that changes the tree, the clock or the history of a scan only.
LEMMA TreeStep ==
    ASSUME CacheInv, TreeFollows, TreeType', now <= now',
           UNCHANGED <<cache, saved, pc, todo, read, listing, found>>
    PROVE  CacheInv'
<1>1. /\ now \in Nat /\ now' \in Nat
      /\ mtime \in [Dirs -> Nat] /\ mtime' \in [Dirs -> Nat]
    BY TreeAssumption DEF CacheInv, TypeOK, TreeType
<1>2. \A d \in Dirs : mtime[d] <= mtime'[d]
    BY <1>1 DEF TreeFollows, Follows
<1>3. ASSUME NEW e, NEW d \in Dirs, Good(e, d, live, content, mtime, now)
      PROVE  Good(e, d, live', content', mtime', now')
    BY <1>1, <1>3, GoodStays DEF TreeFollows
<1>4. TypeOK'
    BY DEF CacheInv, TypeOK, TreeType
<1>5. CacheOK'
    BY <1>3 DEF CacheInv, CacheOK, GoodNow
<1>6. SavedOK'
    BY <1>3 DEF CacheInv, SavedOK, GoodNow
<1>7. ScanOK'
  <2>1. pc \in {"list", "record"} => Head(todo) \in Dirs
      BY DEF CacheInv, TypeOK, ScanOK
  <2>2. read' \in 0 .. now' /\ (pc' = "list" => read' <= mtime'[Head(todo')])
      BY <1>1, <1>2, <2>1 DEF CacheInv, ScanOK
  <2>3. pc' = "record" => listing' \in Entry /\ GoodNow(listing, Head(todo))'
      BY <1>3, <2>1 DEF CacheInv, ScanOK, GoodNow
  <2> QED BY <2>2, <2>3 DEF CacheInv, ScanOK
<1> QED BY <1>4, <1>5, <1>6, <1>7 DEF CacheInv

\* Nobody's change goes unnoticed: it stamps the directories it changes.
LEMMA ChangeStep ==
    ASSUME CacheInv, NEW D \in SUBSET Dirs, Change(D),
           live' \subseteq Dirs, content' \in [Dirs -> SUBSET Names],
           \A d \in Dirs \ D : /\ content'[d] = content[d]
                               /\ KidsIn(d, live') = KidsIn(d, live)
                               /\ d \in live' => d \in live
    PROVE  CacheInv'
<1>1. /\ now \in Nat /\ now' = now /\ now \in 0 .. MaxTime
      /\ mtime \in [Dirs -> 0 .. now]
    BY TreeAssumption DEF CacheInv, TypeOK, Change
<1>2. mtime' = [d \in Dirs |-> IF d \in D THEN now ELSE mtime[d]]
    BY DEF Change, Touched
<1>3. mtime' \in [Dirs -> 0 .. now']
    BY <1>1, <1>2
<1>4. TreeFollows
  <2> SUFFICES ASSUME NEW d \in Dirs
               PROVE  Follows(d, live, content, mtime, now, live', content', mtime', now')
      BY DEF TreeFollows
  <2>1. CASE d \in D
      BY <1>1, <1>2, <2>1 DEF Follows
  <2>2. CASE d \notin D
      BY <1>1, <1>2, <2>2 DEF Follows
  <2> QED BY <2>1, <2>2
<1>5. TreeType' /\ now <= now'
    BY <1>1, <1>3 DEF TreeType
<1>6. UNCHANGED <<cache, saved, pc, todo, read, listing, found>>
    BY DEF Change, scan
<1> QED BY <1>4, <1>5, <1>6, TreeStep

LEMMA WorldStep ==
    ASSUME CacheInv, World
    PROVE  CacheInv'
<1> USE TreeAssumption
<1>1. live \subseteq Dirs /\ content \in [Dirs -> SUBSET Names]
    BY DEF CacheInv, TypeOK
<1>2. ASSUME Tick PROVE CacheInv'
  <2>1. TreeFollows
      BY <1>2 DEF Tick, tree, TreeFollows, Follows, CacheInv, TypeOK
  <2>2. TreeType' /\ now <= now'
      BY <1>2 DEF Tick, tree, TreeType, CacheInv, TypeOK
  <2>3. UNCHANGED <<cache, saved, pc, todo, read, listing, found>>
      BY <1>2 DEF Tick, scan
  <2> QED BY <2>1, <2>2, <2>3, TreeStep
<1>3. ASSUME NEW d \in Dirs, NEW n \in Names, AddFile(d, n) PROVE CacheInv'
    BY <1>1, <1>3, ChangeStep DEF AddFile
<1>4. ASSUME NEW d \in Dirs, NEW n \in Names, RemoveFile(d, n) PROVE CacheInv'
    BY <1>1, <1>4, ChangeStep DEF RemoveFile
<1>5. ASSUME NEW d \in Dirs \ {Root}, MakeDir(d) PROVE CacheInv'
  <2>1. {d, Parent[d]} \in SUBSET Dirs
      OBVIOUS
  <2>2. \A b \in Dirs \ {d, Parent[d]} : KidsIn(b, live') = KidsIn(b, live)
      BY <1>5 DEF MakeDir, KidsIn
  <2> QED BY <1>1, <1>5, <2>1, <2>2, ChangeStep DEF MakeDir
<1>6. ASSUME NEW d \in Dirs \ {Root}, RemoveDir(d) PROVE CacheInv'
  <2>1. {d, Parent[d]} \in SUBSET Dirs
      OBVIOUS
  <2>2. \A b \in Dirs \ {d, Parent[d]} : KidsIn(b, live') = KidsIn(b, live)
      BY <1>6 DEF RemoveDir, KidsIn
  <2>3. live' \subseteq Dirs /\ content' \in [Dirs -> SUBSET Names]
      BY <1>1, <1>6 DEF RemoveDir
  <2>4. \A b \in Dirs \ {d, Parent[d]} :
            content'[b] = content[b] /\ (b \in live' => b \in live)
      BY <1>1, <1>6 DEF RemoveDir
  <2> QED BY <1>6, <2>1, <2>2, <2>3, <2>4, ChangeStep DEF RemoveDir
<1> QED BY <1>2, <1>3, <1>4, <1>5, <1>6 DEF World
-----------------------------------------------------------------------------
(* The scan.                                                                 *)

\* A step that leaves the tree and the clock alone, and moves entries between
\* the cache and its file at most.
LEMMA MoveStep ==
    ASSUME CacheInv, UNCHANGED <<live, content, mtime, now>>,
           cache' \in {cache, Empty} \/ (saved \notin {Missing, Damaged} /\ cache' = saved),
           saved' \in {saved, cache, Damaged},
           todo' \in Seq(Dirs), listing' \in Entry \cup {NoEntry},
           found' \subseteq Dirs \X Names, ScanOK'
    PROVE  CacheInv'
<1>1. Empty \in [Dirs -> Entry \cup {NoEntry}]
    BY DEF Empty
<1>2. TypeOK'
    BY <1>1 DEF CacheInv, TypeOK
<1>3. \A d \in Dirs : GoodNow(Empty[d], d)
    BY DEF Empty, GoodNow, Good
<1>4. CacheOK'
    BY <1>3 DEF CacheInv, CacheOK, SavedOK, GoodNow
<1>5. SavedOK'
    BY DEF CacheInv, CacheOK, SavedOK, GoodNow
<1> QED BY <1>2, <1>4, <1>5 DEF CacheInv

\* A scan that ends, however it does, leaves a file with good entries, or none.
LEMMA OverStep ==
    ASSUME CacheInv, Over, saved' \in {saved, cache}
    PROVE  CacheInv'
<1>1. UNCHANGED <<live, content, mtime, now>>
    BY DEF Over, tree
<1>2. ScanOK'
    BY TreeAssumption DEF Over, ScanOK, CacheInv, TypeOK
<1> QED BY <1>1, <1>2, MoveStep DEF Over

\* Where the scanner is while it has a directory at hand.
LEMMA AtHand ==
    ASSUME CacheInv, todo # <<>>
    PROVE  Head(todo) \in Dirs /\ Tail(todo) \in Seq(Dirs)
BY DEF CacheInv, TypeOK

LEMMA PassedStep ==
    ASSUME CacheInv, todo # <<>>, Passed(Head(todo))
    PROVE  CacheInv'
<1>1. UNCHANGED <<live, content, mtime, now, saved, cache, read, listing, found>>
    BY DEF Passed, tree
<1>2. ScanOK' /\ todo' \in Seq(Dirs)
    BY <1>1, AtHand DEF Passed, ScanOK, CacheInv
<1> QED BY <1>1, <1>2, MoveStep DEF CacheInv, TypeOK

\* What a directory yields is of the right kind.
LEMMA YieldType ==
    ASSUME CacheInv, todo # <<>>, NEW e \in Entry,
           Yield(Head(todo), e.files, e.subs)
    PROVE  todo' \in Seq(Dirs) /\ found' \subseteq Dirs \X Names
<1>1. e.subs \in Seq(Dirs) /\ e.files \subseteq Names
    BY DEF Entry
<1>2. todo' \in Seq(Dirs)
    BY <1>1, AtHand DEF Yield
<1>3. found \subseteq Dirs \X Names
    BY DEF CacheInv, TypeOK
<1>4. found' \subseteq Dirs \X Names
    BY <1>1, <1>3, AtHand DEF Yield
<1> QED BY <1>2, <1>4

\* scandir gives what the directory holds at this moment, whatever the time of
\* the modification time that was read before.
LEMMA ListStep ==
    ASSUME CacheInv, List
    PROVE  CacheInv'
<1> DEFINE d == Head(todo)
<1>1. /\ todo # <<>> /\ d \in Dirs /\ d \in live /\ read \in 0 .. now
      /\ read <= mtime[d] /\ now \in 0 .. MaxTime /\ live \subseteq Dirs
      /\ content[d] \subseteq Names
    BY AtHand DEF CacheInv, TypeOK, ScanOK, List
<1>2. /\ UNCHANGED <<live, content, mtime, now, saved, cache, todo, read, found>>
      /\ pc' = "record"
    BY DEF List, tree
<1>3. PICK lost \in SUBSET (content[d] \cup Kids(d)) :
        \E subs \in SetToSeqs(Kids(d) \ lost) :
          listing' = [mtime |-> read, files |-> content[d] \ lost, subs |-> subs,
                      at |-> now, lost |-> lost]
    BY DEF List
<1>4. PICK subs \in SetToSeqs(Kids(d) \ lost) :
        listing' = [mtime |-> read, files |-> content[d] \ lost, subs |-> subs,
                    at |-> now, lost |-> lost]
    BY <1>3
<1>5. Kids(d) \subseteq Dirs /\ Kids(d) = KidsIn(d, live)
    BY <1>1 DEF Kids, KidsIn
<1>6. IsFiniteSet(Kids(d) \ lost)
    BY <1>5, TreeAssumption, FS_Subset
<1>7. subs \in Seq(Kids(d) \ lost) /\ ToSet(subs) = Kids(d) \ lost
    BY <1>6, SubsListed
<1>8. subs \in Seq(Dirs)
    BY <1>5, <1>7
<1>9. listing' \in Entry
  <2>1. lost \subseteq Names \cup Dirs
      BY <1>1, <1>5
  <2>2. read \in 0 .. MaxTime
      BY <1>1, TreeAssumption
  <2> QED BY <1>1, <1>4, <1>8, <2>1, <2>2 DEF Entry
<1>10. (content[d] \ lost) \cup (lost \cap Names) = content[d]
    BY <1>1, <1>5, TreeAssumption
<1>11. (Kids(d) \ lost) \cup (lost \cap Dirs) = Kids(d)
    BY <1>1, <1>5, TreeAssumption
<1>12. /\ listing'.mtime = read /\ listing'.at = now /\ listing'.lost = lost
       /\ listing'.files = content[d] \ lost /\ listing'.subs = subs
    BY <1>4
<1>13. GoodNow(listing, Head(todo))'
  <2>1. Good(listing', d, live, content, mtime, now)
      BY <1>1, <1>5, <1>7, <1>9, <1>10, <1>11, <1>12 DEF Good
  <2> QED BY <1>2, <2>1 DEF GoodNow
<1>14. ScanOK'
    BY <1>1, <1>2, <1>9, <1>13 DEF ScanOK
<1> QED BY <1>2, <1>9, <1>14, MoveStep DEF CacheInv, TypeOK

\* Opening a new cache file changes the scanned directory; the old one is lost.
LEMMA TruncateStep ==
    ASSUME CacheInv, Truncate
    PROVE  CacheInv'
<1>1. /\ UNCHANGED <<live, content, now, cache, todo, read, listing, found>>
      /\ pc' = "write" /\ saved' = Damaged
    BY DEF Truncate
<1>2. now \in Nat /\ now \in 0 .. MaxTime /\ mtime \in [Dirs -> 0 .. now]
    BY TreeAssumption DEF CacheInv, TypeOK
<1>3. mtime' = mtime \/ mtime' = [d \in Dirs |-> IF d = Root THEN now ELSE mtime[d]]
    BY DEF Truncate, Touched
<1>4. mtime' \in [Dirs -> 0 .. now]
    BY <1>2, <1>3
<1>5. ASSUME NEW e, NEW d \in Dirs, GoodNow(e, d)
      PROVE  Good(e, d, live', content', mtime', now')
  <2>1. Follows(d, live, content, mtime, now, live', content', mtime', now')
      BY <1>1, <1>2, <1>3 DEF Follows
  <2>2. mtime \in [Dirs -> Nat] /\ mtime' \in [Dirs -> Nat]
      BY <1>2, <1>4
  <2> QED BY <1>1, <1>2, <1>5, <2>1, <2>2, GoodStays DEF GoodNow
<1>6. TypeOK'
    BY <1>1, <1>4 DEF CacheInv, TypeOK
<1>7. CacheOK'
    BY <1>1, <1>5 DEF CacheInv, CacheOK, GoodNow
<1>8. SavedOK' /\ ScanOK'
    BY <1>1 DEF CacheInv, SavedOK, ScanOK
<1> QED BY <1>6, <1>7, <1>8 DEF CacheInv

\* The entry recorded is the listing.
LEMMA RecordStep ==
    ASSUME CacheInv, Record
    PROVE  CacheInv'
<1> DEFINE d == Head(todo)
<1>1. /\ todo # <<>> /\ d \in Dirs /\ listing \in Entry /\ GoodNow(listing, d)
    BY AtHand DEF CacheInv, ScanOK, Record
<1>2. /\ UNCHANGED <<live, content, mtime, now, saved>> /\ read' = 0
      /\ pc' = "walk" /\ cache' = [cache EXCEPT ![d] = listing] /\ listing' = NoEntry
    BY DEF Record, tree
<1>3. todo' \in Seq(Dirs) /\ found' \subseteq Dirs \X Names
    BY <1>1, YieldType DEF Record
<1>4. cache \in [Dirs -> Entry \cup {NoEntry}]
    BY DEF CacheInv, TypeOK
<1>5. TypeOK'
    BY <1>1, <1>2, <1>3, <1>4 DEF CacheInv, TypeOK
<1>6. CacheOK'
    BY <1>1, <1>2, <1>4 DEF CacheInv, CacheOK, GoodNow
<1>7. SavedOK'
    BY <1>2 DEF CacheInv, SavedOK, GoodNow
<1>8. ScanOK'
    BY <1>2, TreeAssumption DEF CacheInv, TypeOK, ScanOK
<1> QED BY <1>5, <1>6, <1>7, <1>8 DEF CacheInv

LEMMA ScannerStep ==
    ASSUME CacheInv, Scanner
    PROVE  CacheInv'
<1>0. /\ todo \in Seq(Dirs) /\ listing \in Entry \cup {NoEntry}
      /\ found \subseteq Dirs \X Names /\ ScanOK /\ Root \in Dirs
    BY TreeAssumption DEF CacheInv, TypeOK
<1>1. CASE Start
  <2>1. UNCHANGED <<live, content, mtime, now, saved, cache, read, listing, found>>
      BY <1>1 DEF Start, tree
  <2>2. ScanOK' /\ todo' \in Seq(Dirs)
      BY <1>0, <1>1, <2>1 DEF Start, ScanOK
  <2> QED BY <1>0, <2>1, <2>2, MoveStep
<1>2. CASE Load
  <2>1. UNCHANGED <<live, content, mtime, now, saved, todo, read, listing, found>>
      BY <1>2 DEF Load, tree
  <2>2. ScanOK'
      BY <1>0, <1>2, <2>1 DEF Load, ScanOK
  <2>3. cache' = cache \/ (saved \notin {Missing, Damaged} /\ cache' = saved)
      BY <1>2 DEF Load
  <2> QED BY <1>0, <2>1, <2>2, <2>3, MoveStep
<1>3. CASE LoadDenied
    BY <1>3, OverStep DEF LoadDenied
<1>4. CASE StatFails
    BY <1>4, PassedStep DEF StatFails, Walking
<1>5. CASE Hit
  <2>1. /\ UNCHANGED <<live, content, mtime, now, saved, cache, read, listing>>
        /\ pc' = "walk"
      BY <1>5 DEF Hit, tree, Walking
  <2>2. todo # <<>> /\ cache[Head(todo)] \in Entry
      BY <1>5, AtHand DEF Hit, Walking, IsCached, CacheInv, TypeOK
  <2>3. todo' \in Seq(Dirs) /\ found' \subseteq Dirs \X Names
      BY <1>5, <2>2, YieldType DEF Hit
  <2>4. ScanOK'
      BY <1>0, <2>1 DEF ScanOK
  <2> QED BY <1>0, <2>1, <2>3, <2>4, MoveStep
<1>6. CASE Miss
  <2>1. /\ UNCHANGED <<live, content, mtime, now, saved, cache, todo, listing, found>>
        /\ pc' = "list" /\ read' = mtime[Head(todo)] /\ todo # <<>>
      BY <1>6 DEF Miss, tree, Walking
  <2>2. mtime[Head(todo)] \in 0 .. now /\ now \in Nat
      BY <2>1, AtHand, TreeAssumption DEF CacheInv, TypeOK
  <2>3. ScanOK'
      BY <2>1, <2>2 DEF ScanOK
  <2> QED BY <1>0, <2>1, <2>3, MoveStep
<1>7. CASE ListFails
    BY <1>0, <1>7, PassedStep DEF ListFails, ScanOK
<1>8. CASE List
    BY <1>8, ListStep
<1>9. CASE Record
    BY <1>9, RecordStep
<1>10. CASE EndWalk
  <2>1. /\ UNCHANGED <<live, content, mtime, now, saved, cache, read, listing, found>>
        /\ pc' = "save" /\ todo' = <<>>
      BY <1>10 DEF EndWalk, tree
  <2>2. ScanOK'
      BY <1>0, <2>1 DEF ScanOK
  <2> QED BY <1>0, <2>1, <2>2, MoveStep
<1>11. CASE Truncate
    BY <1>11, TruncateStep
<1>12. CASE Write
    BY <1>12, OverStep DEF Write
<1>13. CASE SaveFails
    BY <1>13, OverStep DEF SaveFails
<1> QED
    BY <1>1, <1>2, <1>3, <1>4, <1>5, <1>6, <1>7, <1>8, <1>9, <1>10, <1>11, <1>12,
       <1>13 DEF Scanner
-----------------------------------------------------------------------------
\* Every step keeps the invariant.
LEMMA CacheNext ==
    ASSUME CacheInv, [Next]_vars
    PROVE  CacheInv'
<1>1. CASE World
    BY <1>1, WorldStep
<1>2. CASE Scanner
    BY <1>2, ScannerStep
<1>3. CASE Stop
  <2>1. UNCHANGED <<live, content, mtime, now, saved, cache, pc, todo, read, listing,
                    found>>
      BY <1>3 DEF Stop, tree
  <2> QED BY <2>1 DEF CacheInv, TypeOK, CacheOK, SavedOK, ScanOK, GoodNow
<1>4. CASE Crash
    BY <1>4, OverStep DEF Crash
<1>5. CASE UNCHANGED vars
  <2>1. UNCHANGED <<live, content, mtime, now, saved, cache, pc, todo, read, listing,
                    found>>
      BY <1>5 DEF vars, tree, scan
  <2> QED BY <2>1 DEF CacheInv, TypeOK, CacheOK, SavedOK, ScanOK, GoodNow
<1> QED BY <1>1, <1>2, <1>3, <1>4, <1>5 DEF Next

\* Good entries are true ones.
LEMMA GoodIsTrue == CacheInv => EntriesTrue
<1> SUFFICES ASSUME CacheInv PROVE EntriesTrue
    OBVIOUS
<1>1. \A d \in Dirs : Kids(d) = KidsIn(d, live)
    BY DEF Kids, KidsIn
<1>2. live \subseteq Dirs
    BY DEF CacheInv, TypeOK
<1>3. EntryTrue(cache)
    BY <1>1, <1>2 DEF EntryTrue, Racy, CacheInv, CacheOK, GoodNow, Good
<1>4. saved \notin {Missing, Damaged} => EntryTrue(saved)
    BY <1>1, <1>2 DEF EntryTrue, Racy, CacheInv, SavedOK, GoodNow, Good
<1> QED BY <1>3, <1>4 DEF EntriesTrue, CacheInv

\* Whatever changes come between the stat of a directory, its listing and the
\* update of its entry, and however a save ends, an entry that would be used,
\* in the cache or in its file, is what the directory holds, but for racy
\* listings and for names that raised (scanner.py:192-232).
THEOREM EntriesTrueAlways == Spec => []EntriesTrue
<1>1. Init => CacheInv
    BY CacheInit
<1>2. CacheInv /\ [Next]_vars => CacheInv'
    BY CacheNext
<1>3. CacheInv => EntriesTrue
    BY GoodIsTrue
<1> QED BY <1>1, <1>2, <1>3, PTL DEF Spec

-----------------------------------------------------------------------------
(* What is not listed again.  A directory that nobody changed since the      *)
(* cache learnt it has an entry that is used; one that is being listed will. *)

NotedInv ==
    /\ \A d \in noted : IsCached(d) \/ (pc \in {"list", "record"} /\ d = Head(todo))
    /\ pc = "list" /\ Head(todo) \in noted => read = mtime[Head(todo)]
    /\ pc = "record" /\ Head(todo) \in noted => listing.mtime = mtime[Head(todo)]
    /\ saved \notin {Missing, Damaged} =>
         \A d \in settled : saved[d] # NoEntry /\ saved[d].mtime = mtime[d]
    /\ noted \subseteq Dirs /\ settled \subseteq Dirs

\* Who changes directories is noticed.
LEMMA NotedChange ==
    ASSUME NotedInv, NEW D, mtime' = Touched(D), noted' = noted \ D, settled' = settled \ D,
           UNCHANGED <<saved, cache, pc, todo, read, listing>>
    PROVE  NotedInv'
<1>1. \A d \in Dirs \ D : mtime'[d] = mtime[d]
    BY DEF Touched
<1> QED BY <1>1 DEF NotedInv, IsCached

LEMMA NotedStep == CacheInv /\ NotedInv /\ [Next]_vars => NotedInv'
<1> SUFFICES ASSUME CacheInv, NotedInv, [Next]_vars PROVE NotedInv'
    OBVIOUS
<1>1. CASE World
  <2>1. CASE Tick
      BY <2>1 DEF Tick, tree, scan, NotedInv, IsCached
  <2>2. ASSUME NEW D, Change(D) PROVE NotedInv'
      BY <2>2, NotedChange DEF Change, scan
  <2> QED BY <1>1, <2>1, <2>2 DEF World, AddFile, RemoveFile, MakeDir, RemoveDir
<1>2. ASSUME Over, \/ saved' = saved /\ settled' = settled
                   \/ pc = "write" /\ saved' = cache /\ settled' = noted
      PROVE  NotedInv'
    BY <1>2 DEF Over, tree, NotedInv, IsCached
<1>3. CASE Start
  <2>1. UNCHANGED <<mtime, saved, cache, noted, settled>> /\ pc = "idle" /\ pc' = "load"
      BY <1>3 DEF Start, tree
  <2> QED BY <2>1 DEF NotedInv, IsCached
<1>4. CASE Load
  <2>1. UNCHANGED <<mtime, saved, settled>> /\ pc = "load" /\ pc' = "walk"
        /\ \/ UNCHANGED <<cache, noted>>
           \/ saved \notin {Missing, Damaged} /\ cache' = saved /\ noted' = settled
      BY <1>4 DEF Load, tree
  <2> QED BY <2>1 DEF NotedInv, IsCached
<1>5. CASE LoadDenied \/ Write \/ SaveFails \/ Crash
  <2>1. Over /\ (UNCHANGED <<saved, settled>> \/ (pc = "write" /\ saved' = cache /\ settled' = noted))
      BY <1>5 DEF LoadDenied, Write, SaveFails, Crash
  <2> QED BY <1>2, <2>1
<1>6. CASE StatFails \/ Hit \/ ListFails
  <2>1. UNCHANGED <<mtime, saved, cache, settled>> /\ pc' = "walk"
        /\ \/ pc = "walk" /\ noted' = noted
           \/ pc = "list" /\ noted' = noted \ {Head(todo)}
      BY <1>6 DEF StatFails, Hit, ListFails, Passed, Walking, tree
  <2> QED BY <2>1 DEF NotedInv, IsCached
<1>7. CASE Miss
  <2>1. /\ UNCHANGED <<mtime, saved, cache, todo, settled>> /\ pc = "walk" /\ pc' = "list"
        /\ noted' = noted \cup {Head(todo)} /\ read' = mtime[Head(todo)] /\ todo # <<>>
      BY <1>7 DEF Miss, Walking, tree
  <2>2. Head(todo) \in Dirs
      BY <2>1, AtHand
  <2> QED BY <2>1, <2>2 DEF NotedInv, IsCached
<1>8. CASE List
  <2>1. /\ UNCHANGED <<mtime, saved, cache, todo, noted, settled>> /\ pc = "list" /\ pc' = "record"
      BY <1>8 DEF List, tree
  <2>2. listing'.mtime = read
    <3>1. PICK lost \in SUBSET (content[Head(todo)] \cup Kids(Head(todo))) :
            \E subs \in SetToSeqs(Kids(Head(todo)) \ lost) :
              listing' = [mtime |-> read, files |-> content[Head(todo)] \ lost, subs |-> subs,
                          at |-> now, lost |-> lost]
        BY <1>8 DEF List
    <3> QED BY <3>1
  <2> QED BY <2>1, <2>2 DEF NotedInv, IsCached
<1>9. CASE Record
  <2>1. /\ UNCHANGED <<mtime, saved, noted, settled>> /\ pc = "record" /\ pc' = "walk"
        /\ cache' = [cache EXCEPT ![Head(todo)] = listing]
      BY <1>9 DEF Record, tree
  <2>2. cache \in [Dirs -> Entry \cup {NoEntry}] /\ listing # NoEntry
      BY <2>1, EntryAssumption DEF CacheInv, TypeOK, ScanOK
  <2>3. ASSUME NEW d \in noted PROVE IsCached(d)'
    <3>1. CASE d = Head(todo)
        BY <2>1, <2>2, <3>1 DEF NotedInv, IsCached
    <3>2. CASE d # Head(todo)
        BY <2>1, <2>2, <3>2 DEF NotedInv, IsCached
    <3> QED BY <3>1, <3>2
  <2> QED BY <2>1, <2>3 DEF NotedInv
<1>10. CASE EndWalk
  <2>1. UNCHANGED <<mtime, saved, cache, settled>> /\ pc' = "save"
        /\ \/ pc = "walk" /\ noted' = noted
           \/ pc = "list" /\ noted' = noted \ {Head(todo)}
      BY <1>10 DEF EndWalk, tree
  <2> QED BY <2>1 DEF NotedInv, IsCached
<1>11. CASE Truncate
  <2>1. /\ pc = "save" /\ pc' = "write" /\ saved' = Damaged /\ settled' = {}
        /\ UNCHANGED <<cache, todo, read, listing>>
        /\ \/ mtime' = Touched({Root}) /\ noted' = noted \ {Root}
           \/ UNCHANGED <<mtime, noted>>
      BY <1>11 DEF Truncate
  <2>2. \A d \in noted' : d \in noted /\ mtime'[d] = mtime[d]
      BY <2>1 DEF Touched, NotedInv
  <2> QED BY <2>1, <2>2 DEF NotedInv, IsCached
<1>12. CASE Stop \/ UNCHANGED vars
  <2>1. UNCHANGED <<mtime, saved, cache, pc, todo, read, listing, noted, settled>>
      BY <1>12 DEF Stop, vars, tree, scan
  <2> QED BY <2>1 DEF NotedInv, IsCached
<1> QED BY <1>1, <1>3, <1>4, <1>5, <1>6, <1>7, <1>8, <1>9, <1>10, <1>11, <1>12 DEF Next, Scanner

ListedOnce == pc = "walk" /\ pc' = "list" => Head(todo) \notin noted

LEMMA ListedOnceStep == NotedInv /\ [Next]_vars => ListedOnce
<1> SUFFICES ASSUME NotedInv, [Next]_vars, pc = "walk", pc' = "list" PROVE Head(todo) \notin noted
    BY DEF ListedOnce
<1>1. Miss
    BY DEF Next, World, Tick, AddFile, RemoveFile, MakeDir, RemoveDir, Change, Scanner, Start, Load,
           LoadDenied, StatFails, Hit, ListFails, List, Record, EndWalk, Truncate, Write, SaveFails,
           Stop, Crash, Over, Passed, vars, scan
<1>2. ~IsCached(Head(todo))
    BY <1>1 DEF Miss
<1> QED BY <1>2 DEF NotedInv

\* Whatever was scanned before, however saving it ended: what the cache learnt
\* of a directory that nobody changed since is used.
THEOREM ListedOnceAlways == Spec => NotListedAgain
<1>1. Init => NotedInv
    BY DEF Init, NotedInv
<1>2. NotedInv /\ [Next]_vars => [ListedOnce]_vars
    BY ListedOnceStep
<1>3. Spec => [][ListedOnce]_vars
    BY <1>1, <1>2, CacheInit, CacheNext, NotedStep, PTL DEF Spec
<1> QED BY <1>3 DEF NotListedAgain, ListedOnce

-----------------------------------------------------------------------------
(* What a scan finds.  The directories above one are the least set with it   *)
(* that holds the parents of its directories.                                *)

Upwards(D) == \A k \in D \ {Root} : Parent[k] \in D

Up(d) == {e \in Dirs : \A D \in SUBSET Dirs : d \in D /\ Upwards(D) => e \in D}

LEMMA UpFacts ==
    ASSUME NEW d \in Dirs
    PROVE  /\ d \in Up(d) /\ Up(d) \subseteq Dirs /\ Upwards(Up(d)) /\ Root \in Up(d)
           /\ \A D \in SUBSET Dirs : d \in D /\ Upwards(D) => Up(d) \subseteq D
<1>1. d \in Up(d) /\ Up(d) \subseteq Dirs
      /\ \A D \in SUBSET Dirs : d \in D /\ Upwards(D) => Up(d) \subseteq D
    BY DEF Up
<1>2. ASSUME NEW k \in Up(d) \ {Root} PROVE Parent[k] \in Up(d)
  <2>1. Parent[k] \in Dirs
      BY <1>1, <1>2, TreeAssumption
  <2>2. ASSUME NEW D \in SUBSET Dirs, d \in D, Upwards(D) PROVE Parent[k] \in D
    <3>1. k \in D
        BY <1>1, <1>2, <2>2
    <3> QED BY <1>2, <2>2, <3>1 DEF Upwards
  <2> QED BY <2>1, <2>2 DEF Up
<1>3. Upwards(Up(d))
    BY <1>2 DEF Upwards
<1>4. Root \in Up(d)
  <2>1. \A D \in SUBSET Dirs : D # {} /\ (\A e \in D \ {Root} : Parent[e] \in D) => Root \in D
      BY TreeAssumption
  <2>2. \A e \in Up(d) \ {Root} : Parent[e] \in Up(d)
      BY <1>2
  <2>3. Up(d) \in SUBSET Dirs /\ Up(d) # {}
      BY <1>1
  <2> HIDE DEF Up
  <2> QED BY <2>1, <2>2, <2>3, Zenon
<1> QED BY <1>1, <1>3, <1>4

\* Going up one comes through a subdirectory.
LEMMA UpThrough ==
    ASSUME NEW d \in Dirs, NEW e \in Up(d), e # d
    PROVE  \E k \in Up(d) \ {Root} : Parent[k] = e
<1> DEFINE D == {x \in Up(d) : x = d \/ \E k \in Up(d) \ {Root} : Parent[k] = x}
<1>1. D \in SUBSET Dirs /\ d \in D
    BY UpFacts
<1>2. \A k \in D \ {Root} : Parent[k] \in D
  <2> SUFFICES ASSUME NEW k \in D \ {Root} PROVE Parent[k] \in D
      OBVIOUS
  <2>1. k \in Up(d) \ {Root}
      OBVIOUS
  <2>2. Parent[k] \in Up(d)
      BY <2>1, UpFacts DEF Upwards
  <2> QED BY <2>1, <2>2
<1>3. e \in D
  <2>1. Upwards(D)
      BY <1>2 DEF Upwards
  <2> HIDE DEF D
  <2>2. Up(d) \subseteq D
      BY <1>1, <2>1, UpFacts
  <2> QED BY <2>2
<1> QED BY <1>3

\* Above is what it is meant to be.
LEMMA UpIsAbove == \A d \in Dirs : Up(d) \subseteq Above[d]
<1> DEFINE F(f) == [d \in Dirs |-> {d} \cup IF d = Root THEN {} ELSE f[Parent[d]]]
           U    == [d \in Dirs |-> Up(d)]
<1>1. ASSUME NEW d \in Dirs PROVE Up(d) = {d} \cup IF d = Root THEN {} ELSE Up(Parent[d])
  <2>1. CASE d = Root
    <3>1. {d} \in SUBSET Dirs /\ Upwards({d})
        BY <2>1 DEF Upwards
    <3>2. Up(d) \subseteq {d}
        BY <3>1, UpFacts
    <3>3. d \in Up(d)
        BY UpFacts
    <3> QED BY <2>1, <3>2, <3>3
  <2>2. CASE d # Root
    <3>1. Parent[d] \in Dirs
        BY <2>2, TreeAssumption
    <3>2. d \in Up(d) /\ Up(d) \in SUBSET Dirs /\ Upwards(Up(d))
          /\ \A D \in SUBSET Dirs : d \in D /\ Upwards(D) => Up(d) \subseteq D
        BY UpFacts
    <3>3. /\ Parent[d] \in Up(Parent[d]) /\ Up(Parent[d]) \in SUBSET Dirs /\ Upwards(Up(Parent[d]))
          /\ \A D \in SUBSET Dirs : Parent[d] \in D /\ Upwards(D) => Up(Parent[d]) \subseteq D
        BY <3>1, UpFacts
    <3>4. Up(Parent[d]) \subseteq Up(d)
      <4>1. Parent[d] \in Up(d)
          BY <2>2, <3>2 DEF Upwards
      <4> QED BY <3>2, <3>3, <4>1
    <3>5. Up(d) \subseteq {d} \cup Up(Parent[d])
      <4>1. Upwards({d} \cup Up(Parent[d]))
          BY <3>3 DEF Upwards
      <4>2. {d} \cup Up(Parent[d]) \in SUBSET Dirs
          BY <3>3
      <4> QED BY <3>2, <4>1, <4>2
    <3> QED BY <2>2, <3>2, <3>4, <3>5
  <2> QED BY <2>1, <2>2
<1>2. U = F(U)
  <2>1. \A d \in Dirs : d # Root => Parent[d] \in Dirs
      BY TreeAssumption
  <2> QED BY <1>1, <2>1
<1>3. Above = F(Above)
  <2>1. Above = CHOOSE f : f = F(f)
      BY DEF Above
  <2> HIDE DEF U, F
  <2> QED BY <1>2, <2>1
<1>4. ASSUME NEW d \in Dirs PROVE Above[d] = {d} \cup IF d = Root THEN {} ELSE Above[Parent[d]]
    BY <1>3
<1>5. ASSUME NEW d \in Dirs PROVE Up(d) \subseteq Above[d]
  <2> DEFINE D == {x \in Dirs : Above[x] \subseteq Above[d]}
  <2>1. \A k \in D \ {Root} : Parent[k] \in D
    <3> SUFFICES ASSUME NEW k \in D \ {Root} PROVE Parent[k] \in D
        OBVIOUS
    <3>1. Parent[k] \in Dirs /\ Above[k] = {k} \cup Above[Parent[k]]
        BY <1>4, TreeAssumption
    <3> QED BY <3>1
  <2>2. Upwards(D) /\ D \in SUBSET Dirs /\ d \in D
      BY <2>1 DEF Upwards
  <2>3. Up(d) \subseteq D
    <3> HIDE DEF D
    <3> QED BY <2>2, UpFacts
  <2>4. \A x \in D : x \in Above[x]
      BY <1>4
  <2> QED BY <2>3, <2>4
<1> QED BY <1>5

-----------------------------------------------------------------------------
(* While a scan is not stopped, each file that was there all the time was    *)
(* found, or a directory above it is still to be visited or is excused.      *)

Rooted == Root \in live /\ \A d \in live \ {Root} : Parent[d] \in live

SteadyInv == \A f \in steady : f \in Dirs \X Names /\ f[1] \in live /\ f[2] \in content[f[1]]

InSight(f) ==
    \/ f \in found
    \/ \E d \in Up(f[1]) : Excused(d) \/ d \in ToSet(todo)

\* The way down to file f is in the listing that is to be recorded.
Listed(f) ==
    listing.lost = {} =>
      /\ f[1] = Head(todo) => f[2] \in listing.files
      /\ \A k \in Up(f[1]) \ {Root} : Parent[k] = Head(todo) => k \in ToSet(listing.subs)

FindInv ==
    /\ Rooted /\ SteadyInv
    /\ pc = "load" => todo = <<Root>>
    /\ pc = "save" => todo = <<>>
    /\ pc \in {"load", "walk", "list", "record", "save"} /\ ~stopped =>
         \A f \in steady : InSight(f)
    /\ pc = "record" => \A f \in steady : Listed(f)

LEMMA LiveAbove ==
    ASSUME Rooted, live \subseteq Dirs, NEW d \in live
    PROVE  Up(d) \subseteq live
<1>1. Upwards(live) /\ live \in SUBSET Dirs /\ d \in Dirs
    BY DEF Rooted, Upwards
<1> QED BY <1>1, UpFacts

LEMMA StackSets ==
    ASSUME NEW s \in Seq(Dirs), s # <<>>, NEW subs \in Seq(Dirs)
    PROVE  /\ ToSet(s) = {Head(s)} \cup ToSet(Tail(s))
           /\ ToSet(subs \o Tail(s)) = ToSet(subs) \cup ToSet(Tail(s))
<1>1. Tail(s) \in Seq(Dirs) /\ Len(s) \in Nat /\ Len(s) > 0 /\ Len(Tail(s)) = Len(s) - 1
      /\ Len(subs) \in Nat /\ Head(s) = s[1]
      /\ \A i \in 1 .. (Len(s) - 1) : Tail(s)[i] = s[i + 1]
    OBVIOUS
<1>2. ToSet(s) = {Head(s)} \cup ToSet(Tail(s))
  <2>1. ASSUME NEW i \in 1 .. Len(s), i # 1 PROVE \E j \in 1 .. Len(Tail(s)) : Tail(s)[j] = s[i]
    <3>1. i - 1 \in 1 .. (Len(s) - 1) /\ (i - 1) + 1 = i
        BY <1>1, <2>1
    <3>2. Tail(s)[i - 1] = s[i]
        BY <1>1, <3>1
    <3> QED BY <1>1, <3>1, <3>2
  <2>2. ASSUME NEW j \in 1 .. Len(Tail(s)) PROVE \E i \in 1 .. Len(s) : s[i] = Tail(s)[j]
    <3>1. j \in 1 .. (Len(s) - 1) /\ j + 1 \in 1 .. Len(s)
        BY <1>1
    <3> QED BY <1>1, <3>1
  <2>3. DOMAIN s = 1 .. Len(s) /\ DOMAIN Tail(s) = 1 .. Len(Tail(s)) /\ 1 \in 1 .. Len(s)
      BY <1>1
  <2>4. /\ \A x : x \in ToSet(s) <=> \E i \in 1 .. Len(s) : s[i] = x
        /\ \A x : x \in ToSet(Tail(s)) <=> \E j \in 1 .. Len(Tail(s)) : Tail(s)[j] = x
      BY <2>3 DEF ToSet
  <2>5. Head(s) \in ToSet(s) /\ ToSet(Tail(s)) \subseteq ToSet(s)
      BY <1>1, <2>2, <2>3, <2>4
  <2>6. ASSUME NEW x \in ToSet(s), x # Head(s) PROVE x \in ToSet(Tail(s))
    <3>1. PICK i \in 1 .. Len(s) : s[i] = x
        BY <2>4
    <3>2. i # 1
        BY <1>1, <2>6, <3>1
    <3> QED BY <2>1, <2>4, <3>1, <3>2
  <2> QED BY <2>5, <2>6
<1>3. \A t \in Seq(Dirs) : ToSet(subs \o t) = ToSet(subs) \cup ToSet(t)
  <2> SUFFICES ASSUME NEW t \in Seq(Dirs) PROVE ToSet(subs \o t) = ToSet(subs) \cup ToSet(t)
      OBVIOUS
  <2>1. /\ Len(t) \in Nat /\ Len(subs) \in Nat /\ Len(subs \o t) = Len(subs) + Len(t)
        /\ DOMAIN (subs \o t) = 1 .. (Len(subs) + Len(t))
        /\ DOMAIN subs = 1 .. Len(subs) /\ DOMAIN t = 1 .. Len(t)
        /\ \A i \in 1 .. (Len(subs) + Len(t)) :
             (subs \o t)[i] = IF i <= Len(subs) THEN subs[i] ELSE t[i - Len(subs)]
      OBVIOUS
  <2>2. \A x \in ToSet(subs \o t) : x \in ToSet(subs) \cup ToSet(t)
      BY <2>1 DEF ToSet
  <2>3. \A i \in 1 .. Len(subs) : (subs \o t)[i] = subs[i] /\ i \in 1 .. (Len(subs) + Len(t))
      BY <2>1
  <2>4. ASSUME NEW j \in 1 .. Len(t)
        PROVE  j + Len(subs) \in 1 .. (Len(subs) + Len(t)) /\ (subs \o t)[j + Len(subs)] = t[j]
    <3>1. j + Len(subs) \in 1 .. (Len(subs) + Len(t)) /\ ~(j + Len(subs) <= Len(subs))
          /\ (j + Len(subs)) - Len(subs) = j
        BY <2>1
    <3> QED BY <2>1, <3>1
  <2>5. /\ \A x : x \in ToSet(subs \o t) <=> \E i \in 1 .. (Len(subs) + Len(t)) : (subs \o t)[i] = x
        /\ \A x : x \in ToSet(subs) <=> \E i \in 1 .. Len(subs) : subs[i] = x
        /\ \A x : x \in ToSet(t) <=> \E j \in 1 .. Len(t) : t[j] = x
      BY <2>1 DEF ToSet
  <2>6. ToSet(subs) \subseteq ToSet(subs \o t)
      BY <2>3, <2>5
  <2>7. ToSet(t) \subseteq ToSet(subs \o t)
      BY <2>4, <2>5
  <2> QED BY <2>2, <2>6, <2>7
<1> QED BY <1>1, <1>2, <1>3

\* What was in sight stays so while nothing is forgotten.
LEMMA SightKept ==
    ASSUME NEW f, InSight(f), found \subseteq found', erred \subseteq erred', cache' = cache,
           \A d \in ToSet(todo) : d \in Up(f[1]) => d \in ToSet(todo')
    PROVE  InSight(f)'
BY DEF InSight, Excused, Up, Upwards

\* The world keeps the tree a tree, and takes from the steady files what it
\* removes.
LEMMA WorldFinds == CacheInv /\ FindInv /\ World => FindInv'
<1> SUFFICES ASSUME CacheInv, FindInv, World PROVE FindInv'
    OBVIOUS
<1>1. Rooted /\ SteadyInv /\ live \subseteq Dirs /\ content \in [Dirs -> SUBSET Names]
    BY DEF FindInv, CacheInv, TypeOK
<1>2. /\ UNCHANGED <<cache, pc, todo, listing, found, stopped, erred>>
      /\ steady' \subseteq steady
    BY DEF World, Tick, AddFile, RemoveFile, MakeDir, RemoveDir, Change, scan
<1>3. Rooted' /\ SteadyInv'
  <2>1. CASE Tick
      BY <1>1, <2>1 DEF Tick, tree, Rooted, SteadyInv
  <2>2. ASSUME NEW d \in Dirs, NEW n \in Names, AddFile(d, n) \/ RemoveFile(d, n)
        PROVE  Rooted' /\ SteadyInv'
    <3>1. live' = live /\ steady' \subseteq steady
          /\ \A f \in steady' : content[f[1]] \ {n} \subseteq content'[f[1]]
                                /\ (f[1] # d => content'[f[1]] = content[f[1]])
        BY <1>1, <2>2 DEF AddFile, RemoveFile, SteadyInv
    <3>2. ASSUME NEW f \in steady' PROVE f[2] \in content'[f[1]]
      <4>1. CASE AddFile(d, n)
          BY <1>1, <3>1, <4>1 DEF AddFile, SteadyInv
      <4>2. CASE RemoveFile(d, n)
        <5>1. f # <<d, n>> /\ f = <<f[1], f[2]>>
            BY <1>1, <3>1, <4>2 DEF RemoveFile, SteadyInv
        <5> QED BY <1>1, <3>1, <5>1 DEF SteadyInv
      <4> QED BY <2>2, <4>1, <4>2
    <3> QED BY <1>1, <3>1, <3>2 DEF Rooted, SteadyInv
  <2>3. ASSUME NEW d \in Dirs \ {Root}, MakeDir(d) PROVE Rooted' /\ SteadyInv'
      BY <1>1, <2>3 DEF MakeDir, Rooted, SteadyInv
  <2>4. ASSUME NEW d \in Dirs \ {Root}, RemoveDir(d) PROVE Rooted' /\ SteadyInv'
    <3>1. /\ live' = live \ {d} /\ d # Root /\ Kids(d) = {}
          /\ content' = [content EXCEPT ![d] = {}] /\ steady' = steady \ FilesIn(d)
        BY <2>4 DEF RemoveDir
    <3>2. Rooted'
        BY <1>1, <3>1 DEF Rooted, Kids
    <3>3. ASSUME NEW f \in steady' PROVE f[1] # d
      <4>1. f = <<f[1], f[2]>> /\ f[2] \in content[f[1]]
          BY <1>1, <3>1 DEF SteadyInv
      <4> QED BY <3>1, <4>1 DEF FilesIn
    <3> QED BY <1>1, <3>1, <3>2, <3>3 DEF SteadyInv
  <2> QED BY <2>1, <2>2, <2>3, <2>4 DEF World
<1>4. ASSUME NEW f \in steady' PROVE f \in steady /\ (InSight(f) => InSight(f)') /\ (Listed(f) => Listed(f)')
    BY <1>2 DEF InSight, Listed, Excused, Up, Upwards
<1> QED BY <1>2, <1>3, <1>4 DEF FindInv

\* A directory that is visited gives what it holds, from its entry or from its
\* listing, or is excused.
LEMMA VisitFinds ==
    ASSUME FindInv, CacheInv, todo # <<>>, NEW f \in steady, InSight(f), NEW e, e = Head(todo),
           NEW files, NEW subs \in Seq(Dirs), Yield(e, files, subs), erred' = erred,
           \A d \in Dirs \ {e} : cache'[d] = cache[d],
           e \in Up(f[1]) =>
             \/ Excused(e)'
             \/ /\ f[1] = e => f[2] \in files
                /\ \A k \in Up(f[1]) \ {Root} : Parent[k] = e => k \in ToSet(subs)
    PROVE  InSight(f)'
<1>1. /\ e \in Dirs /\ f \in Dirs \X Names /\ f[1] \in Dirs /\ f = <<f[1], f[2]>>
      /\ todo \in Seq(Dirs)
    BY AtHand DEF FindInv, SteadyInv, CacheInv, TypeOK
<1>2. ToSet(todo) = {e} \cup ToSet(Tail(todo)) /\ ToSet(todo') = ToSet(subs) \cup ToSet(Tail(todo))
    BY <1>1, StackSets DEF Yield
<1>3. found' = found \cup {<<e, n>> : n \in files}
    BY DEF Yield
<1>4. Up(f[1]) \subseteq Dirs /\ Up(f[1])' = Up(f[1])
    BY <1>1, UpFacts DEF Up, Upwards
<1>5. CASE e \notin Up(f[1])
  <2>1. \A d \in Up(f[1]) : Excused(d) => Excused(d)'
      BY <1>4, <1>5 DEF Excused, Racy
  <2>2. CASE f \in found
      BY <1>3, <2>2 DEF InSight
  <2>3. CASE \E d \in Up(f[1]) : Excused(d) \/ d \in ToSet(todo)
    <3>1. PICK d \in Up(f[1]) : Excused(d) \/ d \in ToSet(todo)
        BY <2>3
    <3>2. Excused(d)' \/ d \in ToSet(todo')
        BY <1>2, <1>5, <2>1, <3>1
    <3> QED BY <1>4, <3>1, <3>2 DEF InSight
  <2> QED BY <2>2, <2>3 DEF InSight
<1>6. CASE e \in Up(f[1])
  <2>1. CASE Excused(e)'
      BY <1>4, <1>6, <2>1 DEF InSight
  <2>2. CASE f[1] = e /\ f[2] \in files
      BY <1>1, <1>3, <2>2 DEF InSight
  <2>3. CASE f[1] # e /\ \A k \in Up(f[1]) \ {Root} : Parent[k] = e => k \in ToSet(subs)
    <3>1. PICK k \in Up(f[1]) \ {Root} : Parent[k] = e
        BY <1>1, <1>6, <2>3, UpThrough
    <3>2. k \in ToSet(todo')
        BY <1>2, <2>3, <3>1
    <3> QED BY <1>4, <3>1, <3>2 DEF InSight
  <2> QED BY <1>6, <2>1, <2>2, <2>3
<1> QED BY <1>5, <1>6

\* The listing holds every steady file of the directory and the way to those
\* below it, but for what raised.
LEMMA ListFinds ==
    ASSUME FindInv, CacheInv, List, NEW f \in steady
    PROVE  Listed(f)'
<1> DEFINE d == Head(todo)
<1>1. PICK lost \in SUBSET (content[d] \cup Kids(d)) :
        \E subs \in SetToSeqs(Kids(d) \ lost) :
          listing' = [mtime |-> read, files |-> content[d] \ lost, subs |-> subs,
                      at |-> now, lost |-> lost]
    BY DEF List
<1>2. PICK subs \in SetToSeqs(Kids(d) \ lost) :
        listing' = [mtime |-> read, files |-> content[d] \ lost, subs |-> subs,
                    at |-> now, lost |-> lost]
    BY <1>1
<1>3. ToSet(subs) = Kids(d) \ lost
  <2>1. IsFiniteSet(Kids(d) \ lost)
    <3>1. Kids(d) \subseteq Dirs
        BY DEF Kids, CacheInv, TypeOK
    <3> QED BY <3>1, TreeAssumption, FS_Subset
  <2> QED BY <2>1, SubsListed
<1>4. listing'.files = content[d] \ lost /\ listing'.subs = subs /\ listing'.lost = lost
      /\ todo' = todo
    BY <1>2 DEF List
<1>5. f[1] \in live /\ f[2] \in content[f[1]] /\ Rooted /\ live \subseteq Dirs
    BY DEF FindInv, SteadyInv, CacheInv, TypeOK
<1>6. Up(f[1]) \subseteq live /\ Up(f[1])' = Up(f[1])
    BY <1>5, LiveAbove DEF Up, Upwards
<1>7. \A k \in Up(f[1]) \ {Root} : Parent[k] = d => k \in Kids(d)
    BY <1>6 DEF Kids
<1> QED BY <1>3, <1>4, <1>5, <1>6, <1>7 DEF Listed

\* A directory is passed over because it is gone, and then no steady file is
\* below it, or because of an error.
LEMMA PassedFinds ==
    ASSUME FindInv, CacheInv, todo # <<>>, Passed(Head(todo)), NEW f \in steady, InSight(f)
    PROVE  InSight(f)'
<1>1. /\ f[1] \in live /\ Rooted /\ live \subseteq Dirs /\ todo \in Seq(Dirs)
      /\ todo' = Tail(todo) /\ UNCHANGED <<cache, found>> /\ <<>> \in Seq(Dirs)
    BY DEF FindInv, SteadyInv, CacheInv, TypeOK, Passed
<1>2. Up(f[1]) \subseteq live /\ Up(f[1])' = Up(f[1])
    BY <1>1, LiveAbove DEF Up, Upwards
<1>3. ToSet(todo) = {Head(todo)} \cup ToSet(Tail(todo))
    BY <1>1, StackSets
<1>4. CASE Head(todo) \in Up(f[1])
  <2>1. erred' = erred \cup {Head(todo)}
      BY <1>2, <1>4 DEF Passed
  <2>2. \E d \in Up(f[1]) : d \in erred'
      BY <1>4, <2>1
  <2> QED BY <1>2, <2>2 DEF InSight, Excused
<1>5. CASE Head(todo) \notin Up(f[1])
  <2>1. erred \subseteq erred'
      BY DEF Passed
  <2> QED BY <1>1, <1>3, <1>5, <2>1, SightKept
<1> QED BY <1>4, <1>5

LEMMA ScannerFinds == CacheInv /\ FindInv /\ Scanner => FindInv'
<1> SUFFICES ASSUME CacheInv, FindInv, Scanner PROVE FindInv'
    OBVIOUS
<1>0. /\ Rooted /\ SteadyInv /\ todo \in Seq(Dirs) /\ live \subseteq Dirs
      /\ cache \in [Dirs -> Entry \cup {NoEntry}]
    BY DEF FindInv, CacheInv, TypeOK
<1>1. ASSUME UNCHANGED <<live, content>>, steady' \subseteq steady PROVE Rooted' /\ SteadyInv'
    BY <1>0, <1>1 DEF Rooted, SteadyInv
<1>2. ASSUME NEW f, f[1] \in Dirs, todo' = <<Root>> PROVE InSight(f)'
  <2>1. Root \in ToSet(todo') /\ Root \in Up(f[1]) /\ Up(f[1])' = Up(f[1])
      BY <1>2, UpFacts DEF ToSet, Up, Upwards
  <2> QED BY <2>1 DEF InSight
<1>3. ASSUME NEW f, InSight(f), UNCHANGED <<cache, todo, found, erred>> PROVE InSight(f)'
    BY <1>3, SightKept
<1>4. CASE Start
  <2>1. UNCHANGED <<live, content>> /\ pc' = "load" /\ todo' = <<Root>>
        /\ steady' = UNION {FilesIn(d) : d \in live}
      BY <1>4 DEF Start, tree
  <2>2. Rooted' /\ SteadyInv'
      BY <1>0, <2>1 DEF Rooted, SteadyInv, FilesIn, CacheInv, TypeOK
  <2>3. \A f \in steady' : InSight(f)'
      BY <1>2, <2>1, <2>2 DEF SteadyInv
  <2> QED BY <2>1, <2>2, <2>3 DEF FindInv
<1>5. CASE Load
  <2>1. UNCHANGED <<live, content, steady>> /\ pc' = "walk" /\ todo' = <<Root>>
      BY <1>5 DEF Load, tree, FindInv
  <2>2. \A f \in steady' : InSight(f)'
      BY <1>0, <1>2, <2>1 DEF SteadyInv
  <2> QED BY <1>1, <2>1, <2>2 DEF FindInv
<1>6. CASE LoadDenied \/ Write \/ SaveFails
  <2>1. UNCHANGED <<live, content>> /\ pc' = "idle" /\ steady' = {}
      BY <1>6 DEF LoadDenied, Write, SaveFails, Over, tree
  <2> QED BY <1>1, <2>1 DEF FindInv
<1>7. CASE StatFails \/ ListFails
  <2>1. /\ todo # <<>> /\ Passed(Head(todo)) /\ pc \in {"walk", "list"} /\ pc' = "walk" /\ ~stopped
        /\ UNCHANGED <<live, content, steady, stopped>>
      BY <1>7 DEF StatFails, ListFails, Walking, Passed, tree, CacheInv, ScanOK
  <2>2. \A f \in steady : InSight(f)'
      BY <2>1, PassedFinds DEF FindInv
  <2> QED BY <1>1, <2>1, <2>2 DEF FindInv
<1>8. CASE Hit
  <2>1. PICK e : e = Head(todo)
      OBVIOUS
  <2>2. /\ todo # <<>> /\ e \in live /\ IsCached(e) /\ pc = "walk" /\ pc' = "walk" /\ ~stopped
        /\ Yield(e, cache[e].files, cache[e].subs)
        /\ UNCHANGED <<live, content, steady, cache, erred, stopped>>
      BY <1>8, <2>1 DEF Hit, Walking, tree
  <2>3. cache[e] \in Entry /\ cache[e].subs \in Seq(Dirs) /\ cache[e].lost \subseteq Names \cup Dirs
      BY <1>0, <2>2 DEF IsCached, Entry
  <2>4. ASSUME NEW f \in steady PROVE InSight(f)'
    <3>0. InSight(f) /\ f[1] \in live /\ f[2] \in content[f[1]]
        BY <1>0, <2>2 DEF FindInv, SteadyInv
    <3>1. CASE Racy(cache[e]) \/ cache[e].lost # {}
      <4>1. Excused(e)'
          BY <2>2, <3>1 DEF Excused, IsCached, Racy
      <4> QED BY <2>1, <2>2, <2>3, <3>0, <4>1, VisitFinds
    <3>2. CASE ~Racy(cache[e]) /\ cache[e].lost = {}
      <4>1. cache[e].files = content[e] /\ ToSet(cache[e].subs) = KidsIn(e, live)
          BY <1>0, <2>2, <3>2 DEF CacheInv, CacheOK, GoodNow, Good, IsCached, Racy
      <4>2. Up(f[1]) \subseteq live
          BY <1>0, <3>0, LiveAbove
      <4>3. /\ f[1] = e => f[2] \in cache[e].files
            /\ \A k \in Up(f[1]) \ {Root} : Parent[k] = e => k \in ToSet(cache[e].subs)
          BY <3>0, <4>1, <4>2 DEF KidsIn
      <4> QED BY <2>1, <2>2, <2>3, <3>0, <4>3, VisitFinds
    <3> QED BY <3>1, <3>2
  <2> QED BY <1>1, <2>2, <2>4 DEF FindInv
<1>9. CASE Miss
  <2>1. UNCHANGED <<live, content, steady, cache, todo, found, erred, stopped>>
        /\ pc = "walk" /\ pc' = "list"
      BY <1>9 DEF Miss, Walking, tree
  <2>2. ~stopped' => \A f \in steady : InSight(f)'
      BY <1>3, <2>1 DEF FindInv
  <2> QED BY <1>1, <2>1, <2>2 DEF FindInv
<1>10. CASE List
  <2>1. UNCHANGED <<live, content, steady, cache, todo, found, erred, stopped>>
        /\ pc = "list" /\ pc' = "record"
      BY <1>10 DEF List, tree
  <2>2. ~stopped' => \A f \in steady : InSight(f)'
      BY <1>3, <2>1 DEF FindInv
  <2>3. \A f \in steady : Listed(f)'
      BY <1>10, ListFinds
  <2> QED BY <1>1, <2>1, <2>2, <2>3 DEF FindInv
<1>11. CASE Record
  <2>1. PICK e : e = Head(todo)
      OBVIOUS
  <2>2. /\ todo # <<>> /\ e \in Dirs /\ pc = "record" /\ pc' = "walk" /\ listing \in Entry
        /\ Yield(e, listing.files, listing.subs) /\ cache' = [cache EXCEPT ![e] = listing]
        /\ UNCHANGED <<live, content, steady, erred, stopped>>
      BY <1>11, <2>1, AtHand DEF Record, tree, CacheInv, ScanOK
  <2>3. cache'[e] = listing /\ listing # NoEntry /\ listing.subs \in Seq(Dirs)
        /\ \A d \in Dirs \ {e} : cache'[d] = cache[d]
      BY <1>0, <2>2, EntryAssumption DEF Entry
  <2>4. ASSUME ~stopped, NEW f \in steady PROVE InSight(f)'
    <3>0. InSight(f) /\ Listed(f)
        BY <2>2, <2>4 DEF FindInv
    <3>1. CASE listing.lost # {}
      <4>1. Excused(e)'
          BY <2>3, <3>1 DEF Excused
      <4> QED BY <2>1, <2>2, <2>3, <3>0, <4>1, VisitFinds
    <3>2. CASE listing.lost = {}
      <4>1. /\ f[1] = e => f[2] \in listing.files
            /\ \A k \in Up(f[1]) \ {Root} : Parent[k] = e => k \in ToSet(listing.subs)
          BY <2>1, <3>0, <3>2 DEF Listed
      <4> QED BY <2>1, <2>2, <2>3, <3>0, <4>1, VisitFinds
    <3> QED BY <3>1, <3>2
  <2> QED BY <1>1, <2>2, <2>4 DEF FindInv
<1>12. CASE EndWalk
  <2>1. /\ UNCHANGED <<live, content, steady, cache, found, erred, stopped>>
        /\ pc' = "save" /\ todo' = <<>> /\ (stopped \/ (pc = "walk" /\ todo = <<>>))
      BY <1>12 DEF EndWalk, tree
  <2>2. ~stopped' => \A f \in steady : InSight(f)'
      BY <1>3, <2>1 DEF FindInv
  <2> QED BY <1>1, <2>1, <2>2 DEF FindInv
<1>13. CASE Truncate
  <2>1. UNCHANGED <<live, content, steady>> /\ pc' = "write"
      BY <1>13 DEF Truncate
  <2> QED BY <1>1, <2>1 DEF FindInv
<1> QED BY <1>4, <1>5, <1>6, <1>7, <1>8, <1>9, <1>10, <1>11, <1>12, <1>13 DEF Scanner

LEMMA FindStep == CacheInv /\ FindInv /\ [Next]_vars => FindInv'
<1> SUFFICES ASSUME CacheInv, FindInv, [Next]_vars PROVE FindInv'
    OBVIOUS
<1>1. CASE Crash
  <2>1. UNCHANGED <<live, content>> /\ pc' = "idle" /\ steady' = {}
      BY <1>1 DEF Crash, Over, tree
  <2> QED BY <2>1 DEF FindInv, Rooted, SteadyInv
<1>2. CASE Stop \/ UNCHANGED vars
  <2>1. UNCHANGED <<live, content, steady, cache, todo, listing, found, erred, pc>>
        /\ (stopped' = stopped \/ stopped')
      BY <1>2 DEF Stop, vars, tree, scan
  <2>2. \A f \in steady : (InSight(f) => InSight(f)') /\ (Listed(f) => Listed(f)')
      BY <2>1 DEF InSight, Listed, Excused, Up, Upwards
  <2> QED BY <2>1, <2>2 DEF FindInv, Rooted, SteadyInv
<1> QED BY <1>1, <1>2, WorldFinds, ScannerFinds DEF Next

\* Whatever is cached, and whatever changes, fails or was cut off before: a scan
\* that ran to its end found what was there all the time, but below directories
\* it had an error with or of which it has a racy or an incomplete listing.
THEOREM ScanFindsAllAlways == Spec => []ScanFindsAll
<1>1. Init => FindInv
    BY TreeAssumption DEF Init, FindInv, Rooted, SteadyInv
<1>2. ASSUME FindInv PROVE ScanFindsAll
  <2> SUFFICES ASSUME pc = "save", ~stopped, NEW f \in steady
               PROVE  f \in found \/ \E d \in Above[f[1]] : Excused(d)
      BY DEF ScanFindsAll
  <2>1. InSight(f) /\ todo = <<>> /\ f[1] \in Dirs
      BY <1>2 DEF FindInv, SteadyInv
  <2>2. ToSet(todo) = {}
      BY <2>1 DEF ToSet
  <2>3. Up(f[1]) \subseteq Above[f[1]]
      BY <2>1, UpIsAbove
  <2> QED BY <2>1, <2>2, <2>3 DEF InSight
<1>3. FindInv => ScanFindsAll
    BY <1>2
<1> QED BY <1>1, <1>3, CacheInit, CacheNext, FindStep, PTL DEF Spec
=============================================================================
