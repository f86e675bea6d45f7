--------------------------- MODULE MatchFilesProofs ---------------------------
(* Proofs about MatchFiles and its engine, for any lists of files, answers   *)
(* of TMDB, scores and numbers of slots.                                     *)
EXTENDS MatchFiles, FiniteSetTheorems, WellFoundedInduction, TLAPS

-----------------------------------------------------------------------------
(* The engine.                                                               *)

\* A set of numbers that is not empty has a least one.
LEMMA LeastOf ==
    ASSUME NEW S, S \subseteq Nat, S # {}
    PROVE  \E m \in S : \A n \in S : m <= n
<1> DEFINE Less == {p \in Nat \X Nat : p[1] < p[2]}
<1>1. IsWellFoundedOn(Less, Nat)
    BY NatLessThanWellFounded DEF OpToRel
<1> HIDE DEF Less
<1>2. PICK m \in S : \A n \in S : ~(<<n, m>> \in Less)
    BY <1>1, WFMin
<1>3. ASSUME NEW n \in S PROVE m <= n
  <2>1. n \in Nat /\ m \in Nat /\ <<n, m>> \notin Less
      BY <1>2
  <2>2. ~(n < m)
      BY <2>1 DEF Less
  <2> QED BY <2>1, <2>2
<1> QED BY <1>3

\* So has a bounded one a greatest.
LEMMA GreatestOf ==
    ASSUME NEW bound \in Nat, NEW S, S \subseteq 0 .. bound, S # {}
    PROVE  Max(S) \in S /\ \A n \in S : n <= Max(S)
<1> DEFINE Over == {n \in Nat : \A m \in S : m <= n}
<1>1. Over \subseteq Nat /\ bound \in Over
    OBVIOUS
<1>2. PICK least \in Over : \A n \in Over : least <= n
    BY <1>1, LeastOf
<1>3. least \in S
  <2> SUFFICES ASSUME least \notin S PROVE FALSE
      OBVIOUS
  <2>1. ASSUME NEW m \in S PROVE m <= least - 1
    <3>1. m \in Nat /\ least \in Nat /\ m <= least /\ m # least
        BY <1>2
    <3> QED BY <3>1
  <2>2. least - 1 \in Nat
    <3>1. PICK m \in S : m \in 0 .. bound
        OBVIOUS
    <3>3. m <= least - 1
        BY <2>1, <3>1
    <3>2. least \in Nat
        BY <1>2
    <3> QED BY <3>1, <3>2, <3>3
  <2>3. least - 1 \in Over
      BY <2>1, <2>2
  <2> QED BY <1>2, <2>3
<1>4. \E x \in S : \A y \in S : x >= y
    BY <1>2, <1>3
<1> QED BY <1>4 DEF Max

\* Scores are numbers.
LEMMA ScoreTyped ==
    ASSUME NEW title \in Titles, NEW c \in Candidates
    PROVE  Score[title][c] \in Nat
<1>1. Score[title][c] = IF Similarity[title][c] = {} THEN 0
        ELSE Capped(TitleScore(title, c) * Weights.title + YearScore * Weights.year
              + MediaTypeScore(c) * Weights.media_type + PopularityBonus(c) * Weights.popularity)
    BY DEF Score
<1>2. CASE Similarity[title][c] # {}
  <2>1. TitleScore(title, c) \in Nat
    <3>1. Similarity[title][c] \subseteq 0 .. 100
        BY EngineAssumption
    <3>2. 100 \in Nat
        OBVIOUS
    <3>3. Max(Similarity[title][c]) \in Similarity[title][c]
        BY <1>2, <3>1, <3>2, GreatestOf
    <3> QED BY <3>1, <3>3 DEF TitleScore
  <2>2. MediaTypeScore(c) \in Nat /\ YearScore \in Nat
      BY DEF MediaTypeScore, YearScore
  <2>3. PopularityBonus(c) \in Nat
    <3>1. {Popularity[c], 100} \subseteq Nat
        BY EngineAssumption
    <3>2. \E x \in {Popularity[c], 100} : \A y \in {Popularity[c], 100} : x <= y
        BY <3>1, LeastOf
    <3>3. Min({Popularity[c], 100}) \in Nat
        BY <3>1, <3>2 DEF Min
    <3> QED BY <3>3 DEF PopularityBonus
  <2>4. \A n \in Nat : Capped(n) \in Nat
      BY EngineAssumption DEF Capped
  <2>5. \A a, b \in Nat : a * b \in Nat /\ a + b \in Nat
      OBVIOUS
  <2>6. Weights.title \in Nat /\ Weights.year \in Nat /\ Weights.media_type \in Nat
        /\ Weights.popularity \in Nat
      BY EngineAssumption
  <2>7. TitleScore(title, c) * Weights.title + YearScore * Weights.year
        + MediaTypeScore(c) * Weights.media_type + PopularityBonus(c) * Weights.popularity \in Nat
    <3>1. TitleScore(title, c) * Weights.title \in Nat /\ YearScore * Weights.year \in Nat
          /\ MediaTypeScore(c) * Weights.media_type \in Nat
          /\ PopularityBonus(c) * Weights.popularity \in Nat
        BY <2>1, <2>2, <2>3, <2>5, <2>6
    <3> QED BY <3>1, <2>5
  <2> QED BY <1>1, <1>2, <2>4, <2>7
<1> QED BY <1>1, <1>2

\* The head of the ranking is one of the best.
LEMMA RankingBest ==
    ASSUME NEW title \in Titles, NEW results \in Seq(Candidates), results # <<>>
    PROVE  Ranking(title, results) \in Best(title, results)
<1>1. DOMAIN results = 1 .. Len(results) /\ Len(results) \in Nat /\ Len(results) > 0
    OBVIOUS
<1> DEFINE Ahead(i, j) ==
             \/ Score[title][results[i]] > Score[title][results[j]]
             \/ /\ Score[title][results[i]] = Score[title][results[j]]
                /\ Popularity[results[i]] > Popularity[results[j]]
             \/ /\ Score[title][results[i]] = Score[title][results[j]]
                /\ Popularity[results[i]] = Popularity[results[j]] /\ i <= j
<1>9. Ranking(title, results)
        = results[CHOOSE i \in DOMAIN results : \A j \in DOMAIN results : Ahead(i, j)]
    BY DEF Ranking
<1>10. \E score, fame \in [1 .. Len(results) -> Nat] :
         \A i \in 1 .. Len(results) :
           score[i] = Score[title][results[i]] /\ fame[i] = Popularity[results[i]]
  <2>1. \A i \in 1 .. Len(results) :
          Score[title][results[i]] \in Nat /\ Popularity[results[i]] \in Nat
      BY <1>1, ScoreTyped, EngineAssumption
  <2> USE <2>1
  <2> WITNESS [i \in 1 .. Len(results) |-> Score[title][results[i]]] \in [1 .. Len(results) -> Nat]
  <2> WITNESS [i \in 1 .. Len(results) |-> Popularity[results[i]]] \in [1 .. Len(results) -> Nat]
  <2> QED OBVIOUS
<1>11. PICK score, fame \in [1 .. Len(results) -> Nat] :
         \A i \in 1 .. Len(results) :
           score[i] = Score[title][results[i]] /\ fame[i] = Popularity[results[i]]
    BY <1>10
<1> DEFINE Before(i, j) == \/ score[i] > score[j]
                           \/ score[i] = score[j] /\ fame[i] > fame[j]
                           \/ score[i] = score[j] /\ fame[i] = fame[j] /\ i <= j
<1>2. \A i \in 1 .. Len(results) : score[i] \in Nat /\ fame[i] \in Nat /\ i \in Nat
    OBVIOUS
<1>0. \A i, j \in DOMAIN results : Before(i, j) <=> Ahead(i, j)
    BY <1>1, <1>11
<1> HIDE DEF Ahead
<1> DEFINE Headless == {k \in 1 .. Len(results) : ~\E i \in 1 .. k : \A j \in 1 .. k : Before(i, j)}
<1>3. Headless = {}
  <2> SUFFICES ASSUME Headless # {} PROVE FALSE
      OBVIOUS
  <2>1. Headless \subseteq Nat
      BY <1>1
  <2>2. PICK k \in Headless : \A n \in Headless : k <= n
    <3> HIDE DEF Headless
    <3> QED BY <2>1, LeastOf
  <2>3. k \in 1 .. Len(results) /\ k # 1
    <3>1. Before(1, 1)
        BY <1>1, <1>2
    <3>2. 1 .. 1 = {1}
        OBVIOUS
    <3> QED BY <2>2, <3>1, <3>2
  <2>4. k - 1 \in 1 .. Len(results) /\ k - 1 \notin Headless
    <3> HIDE DEF Headless
    <3>1. k \in Nat /\ k - 1 \in 1 .. Len(results) /\ ~(k <= k - 1)
        BY <1>1, <2>3
    <3> QED BY <2>2, <3>1
  <2>5. PICK i \in 1 .. (k - 1) : \A j \in 1 .. (k - 1) : Before(i, j)
      BY <2>4
  <2>6. i \in 1 .. k /\ i \in 1 .. Len(results) /\ i < k
      BY <1>1, <2>3, <2>5
  <2>7. CASE Before(i, k)
    <3>1. \A j \in 1 .. k : j = k \/ j \in 1 .. (k - 1)
        BY <2>3
    <3>2. \A j \in 1 .. k : Before(i, j)
        BY <2>5, <2>7, <3>1, Zenon
    <3> QED BY <2>2, <2>6, <3>2, Zenon
  <2>8. CASE ~Before(i, k)
    <3>1. Before(k, k) /\ k \in 1 .. k
        BY <1>2, <2>3
    <3>2. ASSUME NEW j \in 1 .. (k - 1) PROVE Before(k, j)
      <4>0. j \in 1 .. Len(results)
          BY <1>1, <2>3
      <4>1. j \in 1 .. Len(results) /\ Before(i, j)
          BY <2>5, <4>0, Zenon
      <4>2. /\ score[i] \in Nat /\ score[j] \in Nat /\ score[k] \in Nat
            /\ fame[i] \in Nat /\ fame[j] \in Nat /\ fame[k] \in Nat
          BY <1>2, <2>3, <2>6, <4>1
      <4>3. i < k /\ i \in Nat /\ j \in Nat /\ k \in Nat
          BY <1>1, <2>3, <2>6
      <4>4. ~Before(i, k) /\ Before(i, j)
          BY <2>8, <4>1
      <4> HIDE DEF Headless
      <4> QED BY <4>2, <4>3, <4>4
    <3>3. \A j \in 1 .. k : j = k \/ j \in 1 .. (k - 1)
        BY <2>3
    <3>4. \A j \in 1 .. k : Before(k, j)
        BY <3>1, <3>2, <3>3
    <3> QED BY <2>2, <3>1, <3>4
  <2> QED BY <2>7, <2>8
<1>4. \E i \in DOMAIN results : \A j \in DOMAIN results : Before(i, j)
  <2>1. Len(results) \in 1 .. Len(results) /\ Len(results) \notin Headless
    <3> HIDE DEF Headless
    <3> QED BY <1>1, <1>3
  <2> QED BY <1>1, <2>1, Zenon
<1> DEFINE head == CHOOSE i \in DOMAIN results : \A j \in DOMAIN results : Ahead(i, j)
<1>5. head \in DOMAIN results /\ \A j \in DOMAIN results : Ahead(head, j)
  <2>1. \E i \in DOMAIN results : \A j \in DOMAIN results : Ahead(i, j)
      BY <1>0, <1>4, Zenon
  <2> QED BY <2>1, Zenon
<1>6. Ranking(title, results) = results[head]
    BY <1>9
<1> HIDE DEF head
<1>7. \A j \in DOMAIN results :
        \/ Score[title][results[head]] > Score[title][results[j]]
        \/ /\ Score[title][results[head]] = Score[title][results[j]]
           /\ Popularity[results[head]] >= Popularity[results[j]]
  <2>1. \A c \in Candidates : Popularity[c] \in Nat
      BY EngineAssumption
  <2>2. \A j \in DOMAIN results : results[j] \in Candidates
      OBVIOUS
  <2> QED BY <1>5, <2>1, <2>2 DEF Ahead
<1>8. ToSet(results) = {results[j] : j \in DOMAIN results}
    BY DEF ToSet
<1> QED BY <1>5, <1>6, <1>7, <1>8 DEF Best

\* Who is matched is matched to one of the best.
LEMMA FindMatchBest ==
    ASSUME NEW title \in Titles, NEW results \in Seq(Candidates)
    PROVE  /\ FindMatch(title, results) \in Candidates \cup {NoMatch}
           /\ FindMatch(title, results) # NoMatch =>
                FindMatch(title, results) \in Best(title, results)
<1>1. CASE results # <<>>
  <2>1. Ranking(title, results) \in Best(title, results)
      BY <1>1, RankingBest
  <2>2. Ranking(title, results) \in Candidates
      BY <2>1 DEF Best, ToSet
  <2> QED BY <1>1, <2>1, <2>2 DEF FindMatch
<1> QED BY <1>1 DEF FindMatch

-----------------------------------------------------------------------------
(* The invariant.                                                            *)

Statuses == {"waiting", "asking", "done"}
TaskRecords == [key : (RawTitles \X Years) \cup Paths, path : Paths,
                title : Titles \cup {NoTitle}, status : Statuses,
                match : Candidates \cup {NoMatch}]
Rows  == [results : Seq(Candidates), expires : Nat, there : BOOLEAN]
Tells == [key : Keys, results : Seq(Candidates), at : Nat, nth : Nat]

Slots(job) == IF job = "window" THEN 1 ELSE Concurrency

\* A job that runs has a task for each of its files, and no more searches under
\* way than slots; only the window is cancelled.
TasksInv ==
    /\ tasks \in [Jobs -> Seq(TaskRecords)] /\ files \in Seq(File) /\ running \subseteq Jobs
    /\ \A job \in Jobs : job \notin running => tasks[job] = <<>>
    /\ \A job \in Jobs : \A n \in DOMAIN tasks[job] :
         tasks[job][n].status = "asking" => tasks[job][n].title # NoTitle
    /\ \A job \in Jobs : Cardinality(With(job, "asking")) <= Slots(job)
    /\ cancelled \in BOOLEAN /\ (cancelled => "window" \in running)
    /\ "window" \in running =>
         \A i \in DOMAIN files : \E n \in DOMAIN tasks["window"] :
           tasks["window"][n].key = SeriesKey(files[i])

ToldOf(k) == {t \in told : t.key = k}

\* The answers that outlive the row of their key: writing them failed.
Late(k) == {t \in ToldOf(k) : rows[k].there => t.at + TTL > rows[k].expires}

\* The answers that are remembered are those of the last TTL; a row that is
\* live holds one of them.
CacheInv ==
    /\ rows \in [Keys -> Rows] /\ now \in 0 .. MaxTime
    /\ \A k \in Keys : rows[k].expires <= now + TTL
    /\ told \subseteq Tells /\ IsFiniteSet(told)
    /\ \A t \in told : t.at <= now /\ now <= t.at + TTL
    /\ \A k \in Keys : Cached(k) => \E t \in ToldOf(k) :
         t.results = rows[k].results /\ t.at + TTL = rows[k].expires

CountsInv ==
    /\ faults \in 0 .. MaxFaults
    /\ \A j \in Jobs : matches[j] <= MaxMatches[j]
    /\ matches \in [Jobs -> Nat]

AskingOf(job, k) == {n \in With(job, "asking") : CacheKey[tasks[job][n].title] = k}

\* Whoever asks although the row is live had a fault, and so had whoever left
\* the answers that outlive the row: the others are as many as there are slots.
SearchOK(k) ==
    /\ Cardinality(Late(k)) <= faults
    /\ Cardinality(ToldOf(k)) + Cardinality(AskingOf("window", k))
         + Cardinality(AskingOf("command", k)) <= Concurrency + 1 + faults

SearchInv == \A k \in Keys : SearchOK(k)

MatchInv == TasksInv /\ CacheInv /\ CountsInv

-----------------------------------------------------------------------------
(* The searches of a job.                                                    *)

LEMMA AskingFinite ==
    ASSUME TasksInv, NEW job \in Jobs
    PROVE  IsFiniteSet(With(job, "asking")) /\ Cardinality(With(job, "asking")) \in Nat
<1>1. With(job, "asking") \subseteq 1 .. Len(tasks[job]) /\ Len(tasks[job]) \in Nat
    BY DEF TasksInv, With
<1>2. IsFiniteSet(1 .. Len(tasks[job]))
    BY <1>1, FS_Interval
<1> QED BY <1>1, <1>2, FS_Subset, FS_CardinalityType

\* One task of one job changes.
LEMMA TaskSet ==
    ASSUME TasksInv, NEW job \in Jobs, NEW n \in DOMAIN tasks[job], NEW r \in TaskRecords,
           tasks' = [tasks EXCEPT ![job][n] = r]
    PROVE  /\ tasks' \in [Jobs -> Seq(TaskRecords)]
           /\ \A j \in Jobs : DOMAIN tasks'[j] = DOMAIN tasks[j]
           /\ \A j \in Jobs : j # job => tasks'[j] = tasks[j]
           /\ \A i \in DOMAIN tasks[job] : i # n => tasks'[job][i] = tasks[job][i]
           /\ tasks'[job][n] = r
<1>1. tasks \in [Jobs -> Seq(TaskRecords)]
    BY DEF TasksInv
<1>2. tasks'[job] = [tasks[job] EXCEPT ![n] = r] /\ tasks[job] \in Seq(TaskRecords)
    BY <1>1
<1>3. tasks'[job] \in Seq(TaskRecords) /\ DOMAIN tasks'[job] = DOMAIN tasks[job]
    BY <1>2
<1> QED BY <1>1, <1>2, <1>3

\* A search begins in a slot that is free.
LEMMA SlotTaken ==
    ASSUME TasksInv, NEW job \in Jobs, NEW n, MayBegin(job, n)
    PROVE  Cardinality(With(job, "asking") \cup {n}) <= Slots(job)
<1>1. IsFiniteSet(With(job, "asking")) /\ Cardinality(With(job, "asking")) \in Nat
    BY AskingFinite
<1>2. Concurrency \in Nat
    BY MatchAssumption
<1>3. CASE job = "window"
  <2>1. With(job, "asking") \cup {n} = {n}
      BY <1>3 DEF MayBegin
  <2>2. Cardinality({n}) = 1
      BY FS_Singleton
  <2> QED BY <1>3, <2>1, <2>2 DEF Slots
<1>4. CASE job # "window"
  <2>1. Cardinality(With(job, "asking")) < Concurrency
      BY <1>4 DEF MayBegin
  <2>2. Cardinality(With(job, "asking") \cup {n}) <= Cardinality(With(job, "asking")) + 1
      BY <1>1, FS_AddElement
  <2>3. Cardinality(With(job, "asking") \cup {n}) \in Nat
      BY <1>1, FS_AddElement, FS_CardinalityType
  <2> QED BY <1>1, <1>2, <1>4, <2>1, <2>2, <2>3 DEF Slots
<1> QED BY <1>3, <1>4

\* A search begins or ends.
LEMMA TaskMoves ==
    ASSUME TasksInv, NEW job \in Jobs, NEW n \in DOMAIN tasks[job], NEW r \in TaskRecords,
           tasks' = [tasks EXCEPT ![job][n] = r], r.key = tasks[job][n].key,
           r.status = "asking" => MayBegin(job, n) /\ r.title # NoTitle,
           UNCHANGED <<files, running, cancelled>>
    PROVE  TasksInv'
<1>1. /\ tasks' \in [Jobs -> Seq(TaskRecords)]
      /\ \A j \in Jobs : DOMAIN tasks'[j] = DOMAIN tasks[j]
      /\ \A j \in Jobs : j # job => tasks'[j] = tasks[j]
      /\ \A i \in DOMAIN tasks[job] : i # n => tasks'[job][i] = tasks[job][i]
      /\ tasks'[job][n] = r
    BY TaskSet
<1>2. ASSUME NEW j \in Jobs, j \notin running' PROVE tasks'[j] = <<>>
  <2>1. tasks[j] = <<>> /\ tasks'[j] \in Seq(TaskRecords) /\ DOMAIN tasks'[j] = DOMAIN tasks[j]
      BY <1>1, <1>2 DEF TasksInv
  <2> QED BY <2>1
<1>3. ASSUME NEW j \in Jobs, NEW i \in DOMAIN tasks'[j], tasks'[j][i].status = "asking"
      PROVE  tasks'[j][i].title # NoTitle
    BY <1>1, <1>3 DEF TasksInv
<1>4. ASSUME NEW j \in Jobs PROVE Cardinality(With(j, "asking")') <= Slots(j)
  <2>1. CASE j # job
      BY <1>1, <2>1 DEF TasksInv, With
  <2>2. CASE j = job /\ r.status = "asking"
    <3>1. With(j, "asking")' \subseteq With(job, "asking") \cup {n}
        BY <1>1, <2>2 DEF With
    <3>2. Cardinality(With(job, "asking") \cup {n}) <= Slots(job)
        BY <2>2, SlotTaken
    <3>3. IsFiniteSet(With(job, "asking") \cup {n})
        BY AskingFinite, FS_AddElement
    <3>4. /\ Cardinality(With(j, "asking")') <= Cardinality(With(job, "asking") \cup {n})
          /\ Cardinality(With(j, "asking")') \in Nat /\ Cardinality(With(job, "asking") \cup {n}) \in Nat
        BY <3>1, <3>3, FS_Subset, FS_CardinalityType
    <3>5. Slots(job) \in Nat
        BY MatchAssumption DEF Slots
    <3> QED BY <2>2, <3>2, <3>4, <3>5
  <2>3. CASE j = job /\ r.status # "asking"
    <3>1. With(j, "asking")' \subseteq With(job, "asking")
        BY <1>1, <2>3 DEF With
    <3>2. /\ Cardinality(With(j, "asking")') <= Cardinality(With(job, "asking"))
          /\ Cardinality(With(j, "asking")') \in Nat /\ Cardinality(With(job, "asking")) \in Nat
        BY <3>1, AskingFinite, FS_Subset, FS_CardinalityType
    <3>3. Slots(job) \in Nat /\ Cardinality(With(job, "asking")) <= Slots(job)
        BY MatchAssumption DEF Slots, TasksInv
    <3> QED BY <2>3, <3>2, <3>3
  <2> QED BY <2>1, <2>2, <2>3
<1>5. ASSUME "window" \in running', NEW i \in DOMAIN files'
      PROVE  \E m \in DOMAIN tasks'["window"] :
               tasks'["window"][m].key = SeriesKey(files[i])
  <2>1. PICK m \in DOMAIN tasks["window"] : tasks["window"][m].key = SeriesKey(files[i])
      BY <1>5 DEF TasksInv
  <2>2. tasks'["window"][m].key = tasks["window"][m].key /\ m \in DOMAIN tasks'["window"]
      BY <1>1 DEF Jobs
  <2> QED BY <2>1, <2>2
<1>6. files' = files /\ running' = running /\ cancelled' = cancelled
    OBVIOUS
<1>7. (\A i \in DOMAIN files : \E m \in DOMAIN tasks["window"] :
           tasks["window"][m].key = SeriesKey(files[i]))'
      \/ "window" \notin running'
    BY <1>5, <1>6 DEF SeriesKey
<1> QED BY <1>1, <1>2, <1>3, <1>4, <1>6, <1>7 DEF TasksInv, Slots

LEMMA KeyTyped == \A t \in Titles : CacheKey[t] \in Keys
BY DEF Keys

\* What a step of a search makes of its task.
LEMMA StepRecord ==
    ASSUME MatchInv, NEW job \in Jobs, NEW n \in DOMAIN tasks[job], TaskStep(job, n)
    PROVE  /\ \E r \in TaskRecords :
                /\ tasks' = [tasks EXCEPT ![job][n] = r]
                /\ r.key = tasks[job][n].key /\ r.path = tasks[job][n].path
                /\ r.title = tasks[job][n].title
                /\ r.status = "asking" =>
                     MayBegin(job, n) /\ r.title # NoTitle /\ r.match = tasks[job][n].match
                /\ r.status # "asking" => r.status = "done"
           /\ UNCHANGED <<files, running, cancelled, now, matches>>
<1>1. tasks \in [Jobs -> Seq(TaskRecords)] /\ tasks[job][n] \in TaskRecords
    BY DEF MatchInv, TasksInv
<1>2. ASSUME NEW m \in Candidates \cup {NoMatch}, tasks' = Done(job, n, m)
      PROVE  \E r \in TaskRecords :
                /\ tasks' = [tasks EXCEPT ![job][n] = r]
                /\ r.key = tasks[job][n].key /\ r.path = tasks[job][n].path
                /\ r.title = tasks[job][n].title
                /\ r.status = "asking" =>
                     MayBegin(job, n) /\ r.title # NoTitle /\ r.match = tasks[job][n].match
                /\ r.status # "asking" => r.status = "done"
  <2> DEFINE r == [tasks[job][n] EXCEPT !.status = "done", !.match = m]
  <2>1. r \in TaskRecords /\ r.status = "done" /\ r.title = tasks[job][n].title
        /\ r.key = tasks[job][n].key /\ r.path = tasks[job][n].path
      BY <1>1 DEF TaskRecords, Statuses
  <2>2. Done(job, n, m) = [tasks EXCEPT ![job][n] = r]
      BY <1>1 DEF Done, TaskRecords
  <2> HIDE DEF r
  <2> QED BY <1>2, <2>1, <2>2
<1>3. CASE BeginWithoutTitle(job, n) \/ Fail(job, n)
  <2>1. tasks' = Done(job, n, NoMatch) /\ UNCHANGED <<files, running, cancelled, now, matches>>
      BY <1>3 DEF BeginWithoutTitle, Fail
  <2> QED BY <1>2, <2>1
<1>4. CASE BeginWithHit(job, n)
  <2> DEFINE title == tasks[job][n].title
             m == FindMatch(title, rows[CacheKey[title]].results)
  <2>1. title \in Titles /\ tasks' = Done(job, n, m)
        /\ UNCHANGED <<files, running, cancelled, now, matches>>
      BY <1>1, <1>4 DEF BeginWithHit, TaskRecords
  <2>2. rows[CacheKey[title]].results \in Seq(Candidates)
      BY <2>1, KeyTyped DEF MatchInv, CacheInv, Rows
  <2>3. m \in Candidates \cup {NoMatch}
      BY <2>1, <2>2, FindMatchBest
  <2> HIDE DEF m
  <2> QED BY <1>2, <2>1, <2>3
<1>5. CASE BeginWithMiss(job, n)
  <2> DEFINE r == [tasks[job][n] EXCEPT !.status = "asking"]
  <2>1. r \in TaskRecords /\ r.status = "asking" /\ r.title = tasks[job][n].title
        /\ r.key = tasks[job][n].key /\ r.path = tasks[job][n].path
        /\ r.match = tasks[job][n].match
      BY <1>1 DEF TaskRecords, Statuses
  <2>2. [tasks EXCEPT ![job][n].status = "asking"] = [tasks EXCEPT ![job][n] = r]
      BY <1>1 DEF TaskRecords
  <2>3. /\ tasks' = [tasks EXCEPT ![job][n].status = "asking"]
        /\ MayBegin(job, n) /\ tasks[job][n].title # NoTitle
        /\ UNCHANGED <<files, running, cancelled, now, matches>>
      BY <1>5 DEF BeginWithMiss
  <2> HIDE DEF r
  <2> QED BY <2>1, <2>2, <2>3
<1>6. CASE Answer(job, n)
  <2> DEFINE title == tasks[job][n].title
  <2>1. PICK results \in Answers[title] : tasks' = Done(job, n, FindMatch(title, results))
      BY <1>6 DEF Answer
  <2>2. title \in Titles
      BY <1>1, <1>6 DEF Answer, With, MatchInv, TasksInv, TaskRecords
  <2>3. results \in Seq(Candidates)
      BY <2>2, MatchAssumption
  <2>4. FindMatch(title, results) \in Candidates \cup {NoMatch}
      BY <2>2, <2>3, FindMatchBest
  <2>5. UNCHANGED <<files, running, cancelled, now, matches>>
      BY <1>6 DEF Answer
  <2> QED BY <1>2, <2>1, <2>4, <2>5
<1> QED BY <1>3, <1>4, <1>5, <1>6 DEF TaskStep

\* The answer of a search and the row it leaves, if writing it does not fail.
LEMMA AnswerFacts ==
    ASSUME MatchInv, NEW job \in Jobs, NEW n \in DOMAIN tasks[job], Answer(job, n)
    PROVE  \E results \in Seq(Candidates), nth \in Nat :
             LET key == CacheKey[tasks[job][n].title]
                 t   == [key |-> key, results |-> results, at |-> now, nth |-> nth]
             IN  /\ key \in Keys /\ tasks[job][n].title \in Titles
                 /\ told' = told \cup {t} /\ t \in Tells
                 /\ \/ rows' = Insert(key, results) /\ UNCHANGED faults
                    \/ faults < MaxFaults /\ faults' = faults + 1 /\ UNCHANGED rows
                 /\ tasks' = Done(job, n, FindMatch(tasks[job][n].title, results))
<1> DEFINE title == tasks[job][n].title
           key   == CacheKey[title]
<1>1. title \in Titles /\ key \in Keys
  <2>1. tasks[job][n] \in TaskRecords /\ tasks[job][n].status = "asking"
        /\ tasks[job][n].title # NoTitle
      BY DEF Answer, With, MatchInv, TasksInv
  <2> QED BY <2>1, KeyTyped DEF TaskRecords
<1>2. PICK results \in Answers[title] :
        /\ \/ rows' = Insert(key, results) /\ UNCHANGED faults
           \/ faults < MaxFaults /\ faults' = faults + 1 /\ UNCHANGED rows
        /\ told' = told \cup {Said(key, results)}
        /\ tasks' = Done(job, n, FindMatch(title, results))
    BY DEF Answer
<1>3. results \in Seq(Candidates)
    BY <1>1, MatchAssumption
<1> DEFINE same == {t \in told : t.key = key /\ t.results = results /\ t.at = now}
           nth  == Cardinality(same)
           t    == [key |-> key, results |-> results, at |-> now, nth |-> nth]
<1>4. nth \in Nat
  <2>1. IsFiniteSet(same)
      BY FS_Subset DEF MatchInv, CacheInv
  <2> QED BY <2>1, FS_CardinalityType
<1>5. Said(key, results) = t
    BY DEF Said
<1>6. now \in Nat
    BY MatchAssumption DEF MatchInv, CacheInv
<1> HIDE DEF same, nth, key, title
<1>7. t \in Tells
    BY <1>1, <1>3, <1>4, <1>6 DEF Tells
<1> QED BY <1>1, <1>2, <1>3, <1>4, <1>5, <1>7 DEF key, title

LEMMA CacheKept == ASSUME CacheInv, UNCHANGED <<rows, now, told>> PROVE CacheInv'
BY DEF CacheInv, Cached, Live, ToldOf

LEMMA PurgeKeeps == ASSUME CacheInv, rows' = Purged, UNCHANGED <<now, told>> PROVE CacheInv'
<1>1. NoRow \in Rows /\ ~NoRow.there /\ NoRow.expires = 0
    BY DEF NoRow, Rows
<1>2. \A k \in Keys : rows'[k] = rows[k] \/ rows'[k] = NoRow
    BY DEF Purged
<1>3. rows' \in [Keys -> Rows]
    BY <1>1 DEF Purged, CacheInv
<1>4. \A k \in Keys : rows'[k].expires <= now + TTL
  <2>1. now \in Nat /\ TTL \in Nat /\ 0 <= now + TTL
      BY MatchAssumption DEF CacheInv
  <2> QED BY <1>1, <1>2, <2>1 DEF CacheInv
<1>5. \A k \in Keys : Cached(k)' => rows'[k] = rows[k] /\ Cached(k)
    BY <1>1, <1>2 DEF Cached, Live
<1> QED BY <1>3, <1>4, <1>5 DEF CacheInv, ToldOf

LEMMA TickKeeps == ASSUME CacheInv, Tick PROVE CacheInv'
<1>1. now \in Nat /\ TTL \in Nat /\ MaxTime \in Nat
    BY MatchAssumption DEF CacheInv
<1>2. now' = now + 1 /\ now < MaxTime /\ told' = {t \in told : t.at + TTL > now} /\ rows' = rows
    BY DEF Tick
<1>3. now' \in 0 .. MaxTime
    BY <1>1, <1>2
<1>4. \A k \in Keys : rows[k].expires <= now' + TTL
  <2>1. \A k \in Keys : rows[k].expires \in Nat /\ rows[k].expires <= now + TTL
      BY DEF CacheInv, Rows
  <2> QED BY <1>1, <1>2, <2>1
<1>5. told' \subseteq Tells /\ IsFiniteSet(told')
    BY <1>2, FS_Subset DEF CacheInv
<1>6. \A t \in told' : t.at <= now' /\ now' <= t.at + TTL
  <2>1. \A t \in told' : t.at \in Nat /\ t.at <= now /\ t.at + TTL > now
      BY <1>2 DEF CacheInv, Tells
  <2> QED BY <1>1, <1>2, <2>1
<1>7. ASSUME NEW k \in Keys, Cached(k)'
      PROVE  \E t \in ToldOf(k)' : t.results = rows[k].results /\ t.at + TTL = rows[k].expires
  <2>1. rows[k].there /\ now + 1 <= rows[k].expires /\ rows[k].expires \in Nat
      BY <1>2, <1>7 DEF Cached, Live, CacheInv, Rows
  <2>2. Cached(k)
      BY <1>1, <2>1 DEF Cached, Live
  <2>3. PICK t \in ToldOf(k) : t.results = rows[k].results /\ t.at + TTL = rows[k].expires
      BY <2>2 DEF CacheInv
  <2>4. t \in told' /\ t.key = k
      BY <1>1, <1>2, <2>1, <2>3 DEF ToldOf
  <2> QED BY <2>3, <2>4 DEF ToldOf
<1> QED BY <1>2, <1>3, <1>4, <1>5, <1>6, <1>7 DEF CacheInv

LEMMA AnswerKeeps ==
    ASSUME MatchInv, NEW job \in Jobs, NEW n \in DOMAIN tasks[job], Answer(job, n)
    PROVE  CacheInv'
<1> DEFINE key == CacheKey[tasks[job][n].title]
<1>1. PICK results \in Seq(Candidates), nth \in Nat :
        LET t == [key |-> key, results |-> results, at |-> now, nth |-> nth]
        IN  /\ key \in Keys
            /\ told' = told \cup {t} /\ t \in Tells
            /\ \/ rows' = Insert(key, results)
               \/ UNCHANGED rows
    BY AnswerFacts
<1> DEFINE t == [key |-> key, results |-> results, at |-> now, nth |-> nth]
<1>2. t.key = key /\ t.results = results /\ t.at = now /\ t \in told'
      /\ told' = told \cup {t} /\ t \in Tells
    BY <1>1
<1>3. now' = now /\ now \in Nat /\ TTL \in Nat /\ CacheInv
    BY MatchAssumption DEF Answer, MatchInv, CacheInv
<1> HIDE DEF t
<1>4. told' \subseteq Tells /\ IsFiniteSet(told') /\ \A s \in told' : s.at <= now' /\ now' <= s.at + TTL
  <2>1. IsFiniteSet(told')
      BY <1>2, <1>3, FS_AddElement DEF CacheInv
  <2> QED BY <1>2, <1>3, <2>1 DEF CacheInv
<1>5. CASE UNCHANGED rows
  <2>1. \A k \in Keys : Cached(k)' => Cached(k)
      BY <1>3, <1>5 DEF Cached, Live
  <2> QED BY <1>2, <1>3, <1>4, <1>5, <2>1 DEF CacheInv, ToldOf
<1>6. CASE rows' = Insert(key, results)
  <2> DEFINE row == [results |-> results, expires |-> now + TTL, there |-> TRUE]
  <2>1. row \in Rows /\ row.results = results /\ row.expires = now + TTL
      BY <1>3 DEF Rows
  <2>2. rows' = [rows EXCEPT ![key] = row] /\ rows \in [Keys -> Rows] /\ key \in Keys
      BY <1>1, <1>3, <1>6 DEF Insert, CacheInv
  <2> HIDE DEF row, key
  <2>3. rows' \in [Keys -> Rows] /\ rows'[key] = row
        /\ \A k \in Keys : k # key => rows'[k] = rows[k]
      BY <2>1, <2>2
  <2>4. \A k \in Keys : rows'[k].expires <= now' + TTL
      BY <1>3, <2>1, <2>3 DEF CacheInv
  <2>5. ASSUME NEW k \in Keys, Cached(k)'
        PROVE  \E s \in ToldOf(k)' : s.results = rows'[k].results /\ s.at + TTL = rows'[k].expires
    <3>1. CASE k = key
        BY <1>2, <2>1, <2>3, <3>1 DEF ToldOf
    <3>2. CASE k # key
      <4>1. Cached(k)
          BY <1>3, <2>3, <2>5, <3>2 DEF Cached, Live
      <4> QED BY <1>2, <1>3, <2>3, <3>2, <4>1 DEF CacheInv, ToldOf
    <3> QED BY <3>1, <3>2
  <2> QED BY <1>3, <1>4, <2>3, <2>4, <2>5 DEF CacheInv
<1> QED BY <1>1, <1>5, <1>6

-----------------------------------------------------------------------------
(* Starting and finishing a job.                                             *)

LEMMA FirstsFinite ==
    ASSUME NEW fs \in Seq(File)
    PROVE  /\ Firsts(fs) \subseteq 1 .. Len(fs) /\ Len(fs) \in Nat
           /\ IsFiniteSet(Firsts(fs)) /\ Cardinality(Firsts(fs)) \in Nat
           /\ \A i \in 0 .. Len(fs) : /\ IsFiniteSet(Until(fs, i)) /\ Cardinality(Until(fs, i)) \in Nat
                                     /\ Cardinality(Until(fs, i)) <= Cardinality(Firsts(fs))
<1>1. Firsts(fs) \subseteq 1 .. Len(fs) /\ Len(fs) \in Nat
    BY DEF Firsts
<1>2. IsFiniteSet(Firsts(fs))
  <2>1. IsFiniteSet(1 .. Len(fs))
      BY <1>1, FS_Interval
  <2> QED BY <1>1, <2>1, FS_Subset
<1>3. \A i \in 0 .. Len(fs) : Until(fs, i) \subseteq Firsts(fs)
    BY DEF Until
<1> QED BY <1>1, <1>2, <1>3, FS_Subset, FS_CardinalityType

\* The first files are counted one by one.
LEMMA CountedUp ==
    ASSUME NEW fs \in Seq(File), NEW i \in 1 .. Len(fs)
    PROVE  /\ i \in Firsts(fs) => Cardinality(Until(fs, i)) = Cardinality(Until(fs, i - 1)) + 1
           /\ i \notin Firsts(fs) => Until(fs, i) = Until(fs, i - 1)
<1>1. i - 1 \in 0 .. Len(fs) /\ Firsts(fs) \subseteq 1 .. Len(fs) /\ IsFiniteSet(Until(fs, i - 1))
    BY FirstsFinite
<1>2. CASE i \in Firsts(fs)
  <2>1. Until(fs, i) = Until(fs, i - 1) \cup {i} /\ i \notin Until(fs, i - 1)
      BY <1>1, <1>2 DEF Until
  <2> QED BY <1>1, <1>2, <2>1, FS_AddElement
<1>3. CASE i \notin Firsts(fs)
  <2>1. Until(fs, i) = Until(fs, i - 1)
      BY <1>1, <1>3 DEF Until
  <2> QED BY <1>3, <2>1
<1> QED BY <1>2, <1>3

\* There is a first file of every number.
LEMMA NthTyped ==
    ASSUME NEW fs \in Seq(File), NEW n \in 1 .. Cardinality(Firsts(fs))
    PROVE  NthFirst(fs, n) \in Firsts(fs) /\ Cardinality(Until(fs, NthFirst(fs, n))) = n
<1> DEFINE Far == {i \in 0 .. Len(fs) : Cardinality(Until(fs, i)) >= n}
<1>0. Firsts(fs) \subseteq 1 .. Len(fs) /\ Len(fs) \in Nat /\ Cardinality(Firsts(fs)) \in Nat
      /\ \A i \in 0 .. Len(fs) : Cardinality(Until(fs, i)) \in Nat
    BY FirstsFinite
<1>1. Far \subseteq Nat /\ Len(fs) \in Far
  <2>1. Until(fs, Len(fs)) = Firsts(fs)
      BY <1>0 DEF Until
  <2> QED BY <1>0, <2>1
<1>2. PICK i \in Far : \A j \in Far : i <= j
  <2> HIDE DEF Far
  <2> QED BY <1>1, LeastOf
<1>3. i # 0
  <2>1. Until(fs, 0) = {}
      BY <1>0 DEF Until
  <2>2. Cardinality(Until(fs, 0)) = 0
      BY <2>1, FS_EmptySet
  <2> QED BY <1>2, <2>2
<1>4. i \in 1 .. Len(fs) /\ i - 1 \in 0 .. Len(fs) /\ Cardinality(Until(fs, i)) >= n
    BY <1>0, <1>2, <1>3
<1>5. Cardinality(Until(fs, i - 1)) < n
  <2>1. i - 1 \notin Far
    <3> HIDE DEF Far
    <3>1. ~(i <= i - 1)
        BY <1>4
    <3> QED BY <1>2, <3>1
  <2>2. Cardinality(Until(fs, i - 1)) \in Nat
      BY <1>0, <1>4
  <2> QED BY <1>4, <2>1, <2>2
<1>6. i \in Firsts(fs)
  <2>1. Cardinality(Until(fs, i)) \in Nat /\ Cardinality(Until(fs, i - 1)) \in Nat /\ n \in Nat
      BY <1>0, <1>4
  <2>2. Until(fs, i) # Until(fs, i - 1)
      BY <1>4, <1>5, <2>1
  <2> QED BY <1>4, <2>2, CountedUp
<1>7. Cardinality(Until(fs, i)) = n
  <2>1. Cardinality(Until(fs, i)) = Cardinality(Until(fs, i - 1)) + 1
      BY <1>4, <1>6, CountedUp
  <2>2. Cardinality(Until(fs, i - 1)) \in Nat /\ n \in Nat
      BY <1>0, <1>4
  <2> QED BY <1>4, <1>5, <2>1, <2>2
<1> QED BY <1>6, <1>7 DEF NthFirst

\* Each file has a first one of its key, and that has a number of its own.
LEMMA GroupOf ==
    ASSUME NEW fs \in Seq(File), NEW i \in DOMAIN fs
    PROVE  \E n \in 1 .. Cardinality(Firsts(fs)) :
             SeriesKey(fs[NthFirst(fs, n)]) = SeriesKey(fs[i])
<1> DEFINE Same == {j \in DOMAIN fs : SeriesKey(fs[j]) = SeriesKey(fs[i])}
<1>0. DOMAIN fs = 1 .. Len(fs) /\ Len(fs) \in Nat
    OBVIOUS
<1>1. Same \subseteq Nat /\ i \in Same
    BY <1>0
<1>2. PICK j \in Same : \A m \in Same : j <= m
  <2> HIDE DEF Same
  <2> QED BY <1>1, LeastOf
<1>3. j \in DOMAIN fs /\ j \in 1 .. Len(fs) /\ SeriesKey(fs[j]) = SeriesKey(fs[i])
    BY <1>0, <1>2
<1>4. j \in Firsts(fs)
  <2>1. ASSUME NEW m \in 1 .. (j - 1) PROVE SeriesKey(fs[m]) # SeriesKey(fs[j])
    <3>1. m \in DOMAIN fs /\ ~(j <= m)
        BY <1>0, <1>3
    <3> QED BY <1>2, <1>3, <3>1
  <2> QED BY <1>3, <2>1 DEF Firsts
<1> DEFINE n == Cardinality(Until(fs, j))
<1>5. n \in 1 .. Cardinality(Firsts(fs))
  <2>1. j \in 0 .. Len(fs)
      BY <1>3
  <2>2. n \in Nat /\ n <= Cardinality(Firsts(fs)) /\ Cardinality(Firsts(fs)) \in Nat
      BY <2>1, FirstsFinite
  <2>3. n # 0
    <3>1. n = Cardinality(Until(fs, j - 1)) + 1 /\ j - 1 \in 0 .. Len(fs)
        BY <1>3, <1>4, CountedUp
    <3>2. Cardinality(Until(fs, j - 1)) \in Nat
        BY <3>1, FirstsFinite
    <3> QED BY <3>1, <3>2
  <2> QED BY <2>2, <2>3
<1>6. ASSUME NEW a \in Firsts(fs), NEW b \in Firsts(fs), a < b
      PROVE  Cardinality(Until(fs, a)) # Cardinality(Until(fs, b))
  <2>1. a \in 1 .. Len(fs) /\ b \in 1 .. Len(fs) /\ b - 1 \in 0 .. Len(fs) /\ a \in 0 .. Len(fs)
      BY <1>6, FirstsFinite
  <2>2. Until(fs, a) \subseteq Until(fs, b - 1)
    <3>1. \A x \in Firsts(fs) : x <= a => x <= b - 1
        BY <1>0, <1>6, <2>1, FirstsFinite
    <3> QED BY <3>1 DEF Until
  <2>3. Cardinality(Until(fs, a)) <= Cardinality(Until(fs, b - 1))
        /\ Cardinality(Until(fs, a)) \in Nat /\ Cardinality(Until(fs, b - 1)) \in Nat
      BY <2>1, <2>2, FirstsFinite, FS_Subset
  <2>4. Cardinality(Until(fs, b)) = Cardinality(Until(fs, b - 1)) + 1
      BY <2>1, CountedUp
  <2> QED BY <2>3, <2>4
<1>7. NthFirst(fs, n) = j
  <2>1. NthFirst(fs, n) \in Firsts(fs) /\ Cardinality(Until(fs, NthFirst(fs, n))) = n
      BY <1>5, NthTyped
  <2>2. NthFirst(fs, n) \in Nat /\ j \in Nat
      BY <1>3, <2>1, FirstsFinite
  <2> QED BY <1>4, <1>6, <2>1, <2>2
<1> QED BY <1>3, <1>5, <1>7

LEMMA TaskTyped ==
    ASSUME NEW key \in (RawTitles \X Years) \cup Paths, NEW path \in Paths, NEW raw \in RawTitles
    PROVE  Task(key, path, raw) \in TaskRecords /\ Task(key, path, raw).status = "waiting"
           /\ Task(key, path, raw).key = key /\ Task(key, path, raw).match = NoMatch
<1>1. Query[raw] \in Titles \cup {NoTitle}
    BY MatchAssumption
<1> QED BY <1>1 DEF Task, TaskRecords, Statuses

\* The window has one task for each key of its files.
LEMMA WindowTasksTyped ==
    ASSUME files \in Seq(File)
    PROVE  /\ WindowTasks \in Seq(TaskRecords)
           /\ \A n \in DOMAIN WindowTasks : WindowTasks[n].status = "waiting"
           /\ \A i \in DOMAIN files : \E n \in DOMAIN WindowTasks :
                WindowTasks[n].key = SeriesKey(files[i])
<1> DEFINE N == Cardinality(Firsts(files))
           F(n) == files[NthFirst(files, n)]
           T(n) == Task(SeriesKey(F(n)), F(n).path, Series[F(n).title])
<1>1. N \in Nat /\ DOMAIN WindowTasks = 1 .. N
    BY FirstsFinite DEF WindowTasks
<1>2. \A n \in 1 .. N : WindowTasks[n] = T(n)
    BY DEF WindowTasks
<1>3. ASSUME NEW n \in 1 .. N
      PROVE  T(n) \in TaskRecords /\ T(n).status = "waiting" /\ T(n).key = SeriesKey(F(n))
  <2>1. NthFirst(files, n) \in DOMAIN files
      BY NthTyped, FirstsFinite
  <2>2. F(n) \in File
      BY <2>1
  <2>3. Series[F(n).title] \in RawTitles /\ F(n).path \in Paths
        /\ SeriesKey(F(n)) \in (RawTitles \X Years) \cup Paths
      BY <2>2, MatchAssumption DEF SeriesKey, File
  <2> HIDE DEF F
  <2> QED BY <2>3, TaskTyped
<1>4. WindowTasks \in Seq(TaskRecords)
  <2>1. WindowTasks = [n \in 1 .. N |-> T(n)]
      BY DEF WindowTasks
  <2> HIDE DEF T, N
  <2>2. [n \in 1 .. N |-> T(n)] \in [1 .. N -> TaskRecords]
      BY <1>3
  <2> QED BY <1>1, <2>1, <2>2
<1>5. \A i \in DOMAIN files : \E n \in 1 .. N : SeriesKey(F(n)) = SeriesKey(files[i])
    BY GroupOf
<1> HIDE DEF F, T, N
<1> QED BY <1>1, <1>2, <1>3, <1>4, <1>5

LEMMA CommandTasksTyped ==
    LET new == [n \in DOMAIN Found |-> Task(Found[n], Found[n], ParsedTitle[Found[n]])]
    IN  new \in Seq(TaskRecords) /\ \A n \in DOMAIN new : new[n].status = "waiting"
<1> DEFINE T(n) == Task(Found[n], Found[n], ParsedTitle[Found[n]])
<1>1. DOMAIN Found = 1 .. Len(Found) /\ Len(Found) \in Nat
      /\ \A n \in DOMAIN Found : Found[n] \in Paths /\ ParsedTitle[Found[n]] \in RawTitles
    BY MatchAssumption
<1>2. \A n \in DOMAIN Found : T(n) \in TaskRecords /\ T(n).status = "waiting"
    BY <1>1, TaskTyped
<1> HIDE DEF T
<1>3. [n \in DOMAIN Found |-> T(n)] \in Seq(TaskRecords)
    BY <1>1, <1>2
<1> QED BY <1>2, <1>3 DEF T

LEMMA JobStarts ==
    ASSUME TasksInv, NEW job \in Jobs, NEW new \in Seq(TaskRecords),
           tasks' = [tasks EXCEPT ![job] = new], \A n \in DOMAIN new : new[n].status = "waiting",
           job = "window" => \A i \in DOMAIN files : \E n \in DOMAIN new :
                                new[n].key = SeriesKey(files[i]),
           running' = running \cup {job}, UNCHANGED <<files, cancelled>>
    PROVE  TasksInv'
<1>1. tasks' \in [Jobs -> Seq(TaskRecords)] /\ tasks'[job] = new
      /\ \A j \in Jobs : j # job => tasks'[j] = tasks[j]
    BY DEF TasksInv
<1>2. ASSUME NEW j \in Jobs PROVE Cardinality(With(j, "asking")') <= Slots(j)
  <2>1. CASE j = job
    <3>1. With(j, "asking")' = {}
        BY <1>1, <2>1 DEF With
    <3>2. Cardinality(With(j, "asking")') = 0
        BY <3>1, FS_EmptySet
    <3>3. Slots(j) \in Nat
        BY MatchAssumption DEF Slots
    <3> QED BY <3>2, <3>3
  <2>2. CASE j # job
      BY <1>1, <2>2 DEF TasksInv, With
  <2> QED BY <2>1, <2>2
<1>3. ASSUME "window" \in running', NEW i \in DOMAIN files
      PROVE  \E n \in DOMAIN tasks'["window"] : tasks'["window"][n].key = SeriesKey(files[i])
  <2>1. CASE job = "window"
      BY <1>1, <1>3, <2>1
  <2>2. CASE job # "window"
    <3>1. tasks'["window"] = tasks["window"] /\ "window" \in running
        BY <1>1, <1>3, <2>2 DEF Jobs
    <3> QED BY <1>3, <3>1 DEF TasksInv
  <2> QED BY <2>1, <2>2
<1>4. \A j \in Jobs : j \notin running' => tasks'[j] = <<>>
    BY <1>1 DEF TasksInv
<1>5. \A j \in Jobs : \A n \in DOMAIN tasks'[j] :
        tasks'[j][n].status = "asking" => tasks'[j][n].title # NoTitle
    BY <1>1 DEF TasksInv
<1>6. files' = files /\ cancelled' = cancelled /\ running' \subseteq Jobs
      /\ (cancelled' => "window" \in running')
    BY DEF TasksInv
<1>7. ("window" \in running =>
         \A i \in DOMAIN files : \E n \in DOMAIN tasks["window"] :
           tasks["window"][n].key = SeriesKey(files[i]))'
    BY <1>3, <1>6 DEF SeriesKey
<1> QED BY <1>1, <1>2, <1>4, <1>5, <1>6, <1>7 DEF TasksInv, Slots

\* The tasks of a job that is over are forgotten.
LEMMA JobEnds ==
    ASSUME TasksInv, NEW job \in Jobs, tasks' = [tasks EXCEPT ![job] = <<>>],
           running' = running \ {job}, files' \in Seq(File), job # "window" => UNCHANGED files,
           cancelled' \in BOOLEAN, cancelled' => cancelled /\ job # "window"
    PROVE  TasksInv'
<1>1. tasks' \in [Jobs -> Seq(TaskRecords)] /\ tasks'[job] = <<>>
      /\ \A j \in Jobs : j # job => tasks'[j] = tasks[j]
    BY DEF TasksInv
<1>2. ASSUME NEW j \in Jobs PROVE Cardinality(With(j, "asking")') <= Slots(j)
  <2>1. CASE j = job
    <3>1. With(j, "asking")' = {}
        BY <1>1, <2>1 DEF With
    <3>2. Cardinality(With(j, "asking")') = 0
        BY <3>1, FS_EmptySet
    <3>3. Slots(j) \in Nat
        BY MatchAssumption DEF Slots
    <3> QED BY <3>2, <3>3
  <2>2. CASE j # job
      BY <1>1, <2>2 DEF TasksInv, With
  <2> QED BY <2>1, <2>2
<1>3. ("window" \in running =>
         \A i \in DOMAIN files : \E n \in DOMAIN tasks["window"] :
           tasks["window"][n].key = SeriesKey(files[i]))'
  <2> SUFFICES ASSUME "window" \in running'
               PROVE  (\A i \in DOMAIN files : \E n \in DOMAIN tasks["window"] :
                         tasks["window"][n].key = SeriesKey(files[i]))'
      OBVIOUS
  <2>1. job # "window" /\ "window" \in running /\ files' = files
        /\ tasks'["window"] = tasks["window"]
      BY <1>1 DEF Jobs
  <2> QED BY <2>1 DEF TasksInv, SeriesKey
<1>4. \A j \in Jobs : j \notin running' => tasks'[j] = <<>>
    BY <1>1 DEF TasksInv
<1>5. \A j \in Jobs : \A n \in DOMAIN tasks'[j] :
        tasks'[j][n].status = "asking" => tasks'[j][n].title # NoTitle
    BY <1>1 DEF TasksInv
<1>6. running' \subseteq Jobs /\ (cancelled' => "window" \in running')
    BY DEF TasksInv
<1> QED BY <1>1, <1>2, <1>3, <1>4, <1>5, <1>6 DEF TasksInv, Slots

\* What a match makes of a file is a file.
LEMMA ResultsTyped ==
    ASSUME TasksInv, "window" \in running
    PROVE  Results \in Seq(File) /\ DOMAIN Results = DOMAIN files
<1>1. ASSUME NEW i \in DOMAIN files, TaskOf(files[i]).status = "done"
      PROVE  Rematched(files[i]) \in File
  <2>1. \E task \in {tasks["window"][n] : n \in DOMAIN tasks["window"]} :
          task.key = SeriesKey(files[i])
      BY <1>1 DEF TasksInv
  <2>2. TaskOf(files[i]) \in {tasks["window"][n] : n \in DOMAIN tasks["window"]}
      BY <2>1 DEF TaskOf
  <2>3. TaskOf(files[i]) \in TaskRecords
      BY <2>2 DEF TasksInv, Jobs
  <2>4. files[i] \in File
      BY DEF TasksInv
  <2>5. Metadata(TaskOf(files[i])) \in [title : RawTitles, year : Years, tmdb : Candidates \cup {NoMatch}]
      BY <2>3, MatchAssumption DEF Metadata, TaskRecords, Years
  <2> QED BY <2>4, <2>5 DEF Rematched, File
<1>2. DOMAIN files = 1 .. Len(files) /\ Len(files) \in Nat /\ \A i \in DOMAIN files : files[i] \in File
    BY DEF TasksInv
<1> DEFINE R(i) == IF TaskOf(files[i]).status = "done" THEN Rematched(files[i]) ELSE files[i]
<1>3. \A i \in DOMAIN files : R(i) \in File
    BY <1>1, <1>2
<1>4. Results = [i \in DOMAIN files |-> R(i)]
    BY DEF Results
<1> HIDE DEF R
<1>5. [i \in DOMAIN files |-> R(i)] \in Seq(File)
    BY <1>2, <1>3
<1> QED BY <1>4, <1>5

LEMMA MatchInitially == Init => MatchInv
<1> SUFFICES ASSUME Init PROVE MatchInv
    OBVIOUS
<1> USE DEF Init
<1>1. TasksInv
  <2>1. tasks \in [Jobs -> Seq(TaskRecords)] /\ \A job \in Jobs : tasks[job] = <<>>
      OBVIOUS
  <2>2. \A job \in Jobs : With(job, "asking") = {}
      BY <2>1 DEF With
  <2>3. \A job \in Jobs : Slots(job) \in Nat /\ Slots(job) >= 0
      BY MatchAssumption DEF Slots
  <2>4. \A job \in Jobs : Cardinality(With(job, "asking")) <= Slots(job)
      BY <2>2, <2>3, FS_EmptySet
  <2>5. files \in Seq(File)
      BY MatchAssumption
  <2>6. running = {} /\ cancelled = FALSE /\ \A job \in Jobs : DOMAIN tasks[job] = {}
      BY <2>1
  <2> HIDE DEF Init
  <2> QED BY <2>1, <2>4, <2>5, <2>6 DEF TasksInv
<1>2. CacheInv
  <2>1. NoRow \in Rows /\ ~NoRow.there /\ NoRow.expires = 0
      BY DEF NoRow, Rows
  <2>2. rows \in [Keys -> Rows] /\ \A k \in Keys : ~Cached(k) /\ rows[k].expires = 0
      BY <2>1 DEF Cached, Live
  <2>3. 0 <= now + TTL /\ now \in 0 .. MaxTime
      BY MatchAssumption
  <2>4. IsFiniteSet({})
      BY FS_EmptySet
  <2> QED BY <2>2, <2>3, <2>4 DEF CacheInv, Tells
<1>3. CountsInv
    BY MatchAssumption DEF CountsInv
<1> QED BY <1>1, <1>2, <1>3 DEF MatchInv

LEMMA CountsKeep == ASSUME MatchInv, [Next]_vars PROVE CountsInv'
<1>1. faults \in Nat /\ faults <= MaxFaults /\ MaxFaults \in Nat /\ matches \in [Jobs -> Nat]
      /\ \A j \in Jobs : MaxMatches[j] \in Nat /\ matches[j] \in Nat
    BY MatchAssumption DEF MatchInv, CountsInv
<1>2. faults' \in {faults} \cup {f \in {faults + 1} : faults < MaxFaults}
  <2>1. ASSUME NEW job \in Jobs, NEW n \in DOMAIN tasks[job], TaskStep(job, n)
        PROVE  faults' = faults \/ (faults < MaxFaults /\ faults' = faults + 1)
      BY <2>1 DEF TaskStep, BeginWithoutTitle, BeginWithHit, BeginWithMiss, Answer, Fail
  <2> QED BY <2>1 DEF Next, StartWindow, StartCommand, FinishWindow, FinishCommand, Cancel, Tick, Stop,
                      vars
<1>3. matches' = matches \/ \E j \in Jobs : /\ matches[j] < MaxMatches[j]
                                            /\ matches' = [matches EXCEPT ![j] = @ + 1]
  <2>1. ASSUME NEW job \in Jobs, NEW n \in DOMAIN tasks[job], TaskStep(job, n)
        PROVE  matches' = matches
      BY <2>1, StepRecord
  <2> QED BY <2>1 DEF Next, StartWindow, StartCommand, FinishWindow, FinishCommand, Cancel, Tick, Stop,
                      vars, Jobs
<1>4. matches' \in [Jobs -> Nat] /\ \A j \in Jobs : matches'[j] <= MaxMatches[j]
    BY <1>1, <1>3 DEF MatchInv, CountsInv
<1>5. faults' \in 0 .. MaxFaults
    BY <1>1, <1>2
<1> QED BY <1>4, <1>5 DEF CountsInv

LEMMA MatchStepKeeps == MatchInv /\ [Next]_vars => MatchInv'
<1> SUFFICES ASSUME MatchInv, [Next]_vars PROVE MatchInv'
    OBVIOUS
<1>0. CountsInv' /\ TasksInv /\ CacheInv
    BY CountsKeep DEF MatchInv
<1>1. CASE StartWindow
  <2>1. /\ tasks' = [tasks EXCEPT !["window"] = WindowTasks] /\ running' = running \cup {"window"}
        /\ rows' = Purged /\ UNCHANGED <<files, cancelled, now, told>>
      BY <1>1 DEF StartWindow
  <2>2. TasksInv'
      BY <1>0, <2>1, WindowTasksTyped, JobStarts DEF TasksInv, Jobs
  <2> QED BY <1>0, <2>1, <2>2, PurgeKeeps DEF MatchInv
<1>2. CASE StartCommand
  <2> DEFINE new == [n \in DOMAIN Found |-> Task(Found[n], Found[n], ParsedTitle[Found[n]])]
  <2>1. /\ tasks' = [tasks EXCEPT !["command"] = new] /\ running' = running \cup {"command"}
        /\ rows' = Purged /\ UNCHANGED <<files, cancelled, now, told>>
      BY <1>2 DEF StartCommand
  <2>2. new \in Seq(TaskRecords) /\ \A n \in DOMAIN new : new[n].status = "waiting"
      BY CommandTasksTyped
  <2> HIDE DEF new
  <2>3. TasksInv'
      BY <1>0, <2>1, <2>2, JobStarts DEF Jobs
  <2> QED BY <1>0, <2>1, <2>3, PurgeKeeps DEF MatchInv
<1>3. CASE \E job \in Jobs : \E n \in DOMAIN tasks[job] : TaskStep(job, n)
  <2>0. PICK job \in Jobs : \E n \in DOMAIN tasks[job] : TaskStep(job, n)
      BY <1>3
  <2>1. PICK n \in DOMAIN tasks[job] : TaskStep(job, n)
      BY <2>0
  <2>2. TasksInv'
      BY <1>0, <2>1, StepRecord, TaskMoves
  <2>3. CacheInv'
    <3>1. CASE Answer(job, n)
        BY <3>1, AnswerKeeps
    <3>2. CASE ~Answer(job, n)
      <4>1. UNCHANGED <<rows, now, told>>
          BY <2>1, <3>2 DEF TaskStep, BeginWithoutTitle, BeginWithHit, BeginWithMiss, Fail
      <4> QED BY <1>0, <4>1, CacheKept
    <3> QED BY <3>1, <3>2
  <2> QED BY <1>0, <2>2, <2>3 DEF MatchInv
<1>4. CASE FinishWindow
  <2>1. /\ files' = Results /\ running' = running \ {"window"} /\ cancelled' = FALSE
        /\ tasks' = [tasks EXCEPT !["window"] = <<>>] /\ "window" \in running
        /\ UNCHANGED <<rows, now, told>>
      BY <1>4 DEF FinishWindow
  <2>2. files' \in Seq(File)
      BY <1>0, <2>1, ResultsTyped
  <2>3. TasksInv'
      BY <1>0, <2>1, <2>2, JobEnds DEF Jobs
  <2> QED BY <1>0, <2>1, <2>3, CacheKept DEF MatchInv
<1>5. CASE FinishCommand
  <2>1. /\ running' = running \ {"command"} /\ tasks' = [tasks EXCEPT !["command"] = <<>>]
        /\ UNCHANGED <<files, cancelled, rows, now, told>>
      BY <1>5 DEF FinishCommand
  <2>2. TasksInv'
      BY <1>0, <2>1, JobEnds DEF Jobs, TasksInv
  <2> QED BY <1>0, <2>1, <2>2, CacheKept DEF MatchInv
<1>6. CASE Cancel
  <2>1. cancelled' = TRUE /\ "window" \in running
        /\ UNCHANGED <<files, tasks, running, rows, now, told>>
      BY <1>6 DEF Cancel
  <2>2. TasksInv'
      BY <1>0, <2>1 DEF TasksInv, With, SeriesKey
  <2> QED BY <1>0, <2>1, <2>2, CacheKept DEF MatchInv
<1>7. CASE Tick
  <2>1. TasksInv'
      BY <1>0, <1>7 DEF Tick, TasksInv, With, SeriesKey
  <2> QED BY <1>0, <1>7, <2>1, TickKeeps DEF MatchInv
<1>8. CASE UNCHANGED vars
  <2>1. TasksInv'
      BY <1>0, <1>8 DEF vars, TasksInv, With, SeriesKey
  <2> QED BY <1>0, <1>8, <2>1, CacheKept DEF MatchInv, vars
<1> QED BY <1>1, <1>2, <1>3, <1>4, <1>5, <1>6, <1>7, <1>8 DEF Next, Stop

LEMMA MatchAlways == Spec => []MatchInv
BY MatchInitially, MatchStepKeeps, PTL DEF Spec

\* Whichever job asks, whatever fails and whenever rows expire: what the cache
\* answers with is what TMDB answered, no longer than TTL ago.
THEOREM AnswersCached == Spec => []OnlyAnswersCached
<1>1. MatchInv => TypeOK
  <2> SUFFICES ASSUME MatchInv PROVE TypeOK
      OBVIOUS
  <2>1. \A job \in Jobs : \A n \in DOMAIN tasks[job] : tasks[job][n] \in TaskRecords
      BY DEF MatchInv, TasksInv
  <2>2. \A job \in Jobs : \A n \in DOMAIN tasks[job] :
          LET task == tasks[job][n]
          IN  /\ task.path \in Paths /\ task.title \in Titles \cup {NoTitle}
              /\ task.status \in {"waiting", "asking", "done"}
              /\ task.match \in Candidates \cup {NoMatch}
      BY <2>1 DEF TaskRecords, Statuses
  <2>3. \A k \in Keys : rows[k].results \in Seq(Candidates) /\ rows[k].expires <= now + TTL
      BY DEF MatchInv, CacheInv, Rows
  <2>4. Cardinality(With("window", "asking")) <= 1 /\ Cardinality(With("command", "asking")) <= Concurrency
      BY DEF MatchInv, TasksInv, Slots, Jobs
  <2> QED BY <2>2, <2>3, <2>4 DEF TypeOK, MatchInv, TasksInv, CacheInv, CountsInv
<1>2. MatchInv => OnlyAnswersCached
    BY <1>1 DEF MatchInv, CacheInv, ToldOf, OnlyAnswersCached
<1> QED BY <1>2, MatchAlways, PTL

-----------------------------------------------------------------------------
(* What is matched, and to what.                                             *)

\* Only a search that is over has matched anything.
Unmatched ==
    \A job \in Jobs : \A n \in DOMAIN tasks[job] :
      tasks[job][n].status # "done" => tasks[job][n].match = NoMatch

BestOfAnAnswer ==
    \A job \in Jobs : \A n \in DOMAIN tasks[job] \cap DOMAIN tasks'[job] :
      LET task == tasks'[job][n]
      IN  tasks[job][n].status # "done" /\ task.match # NoMatch
          => \E t \in told' : /\ t.key = CacheKey[task.title]
                              /\ task.match \in Best(task.title, t.results)

\* A search that ends with a hit or an answer takes the best of it.
LEMMA SearchMatches ==
    ASSUME MatchInv, Unmatched, NEW job \in Jobs, NEW n \in DOMAIN tasks[job], TaskStep(job, n),
           tasks'[job][n].match # NoMatch, tasks[job][n].status # "done"
    PROVE  \E t \in told' : /\ t.key = CacheKey[tasks[job][n].title]
                            /\ tasks'[job][n].match \in Best(tasks[job][n].title, t.results)
<1> DEFINE title == tasks[job][n].title
           key   == CacheKey[title]
<1>1. tasks \in [Jobs -> Seq(TaskRecords)] /\ tasks[job][n] \in TaskRecords /\ CacheInv
    BY DEF MatchInv, TasksInv
<1>2. ASSUME NEW m, tasks' = Done(job, n, m) PROVE tasks'[job][n].match = m
    BY <1>1, <1>2 DEF Done, TaskRecords
<1>3. tasks[job][n].match = NoMatch
    BY DEF Unmatched
<1>4. CASE BeginWithoutTitle(job, n) \/ Fail(job, n)
  <2>1. tasks' = Done(job, n, NoMatch)
      BY <1>4 DEF BeginWithoutTitle, Fail
  <2> QED BY <1>2, <2>1
<1>5. CASE BeginWithMiss(job, n)
  <2>1. tasks' = [tasks EXCEPT ![job][n].status = "asking"]
      BY <1>5 DEF BeginWithMiss
  <2>2. tasks'[job][n].match = NoMatch
      BY <1>1, <1>3, <2>1 DEF TaskRecords
  <2> QED BY <2>2
<1>6. CASE BeginWithHit(job, n)
  <2>1. title \in Titles /\ Cached(key) /\ told' = told
        /\ tasks' = Done(job, n, FindMatch(title, rows[key].results))
      BY <1>1, <1>6 DEF BeginWithHit, TaskRecords
  <2>2. key \in Keys /\ rows[key].results \in Seq(Candidates)
      BY <1>1, <2>1, KeyTyped DEF CacheInv, Rows
  <2>3. PICK t \in told : t.key = key /\ t.results = rows[key].results
      BY <1>1, <2>1, <2>2 DEF CacheInv, ToldOf
  <2>4. tasks'[job][n].match = FindMatch(title, t.results)
      BY <1>2, <2>1, <2>3
  <2>5. tasks'[job][n].match \in Best(title, t.results)
      BY <2>1, <2>2, <2>3, <2>4, FindMatchBest
  <2> QED BY <2>1, <2>3, <2>5
<1>7. CASE Answer(job, n)
  <2>1. PICK results \in Seq(Candidates), nth \in Nat :
          LET t == [key |-> key, results |-> results, at |-> now, nth |-> nth]
          IN  /\ title \in Titles /\ told' = told \cup {t}
              /\ tasks' = Done(job, n, FindMatch(title, results))
      BY <1>7, AnswerFacts
  <2>2. tasks'[job][n].match = FindMatch(title, results)
      BY <1>2, <2>1
  <2>3. tasks'[job][n].match \in Best(title, results)
      BY <2>1, <2>2, FindMatchBest
  <2> DEFINE t == [key |-> key, results |-> results, at |-> now, nth |-> nth]
  <2>4. t \in told' /\ t.key = key /\ t.results = results
      BY <2>1
  <2> HIDE DEF t
  <2> QED BY <2>3, <2>4
<1> QED BY <1>4, <1>5, <1>6, <1>7 DEF TaskStep

LEMMA MatchesAreBest == MatchInv /\ Unmatched /\ [Next]_vars => Unmatched' /\ BestOfAnAnswer
<1> SUFFICES ASSUME MatchInv, Unmatched, [Next]_vars PROVE Unmatched' /\ BestOfAnAnswer
    OBVIOUS
<1>0. tasks \in [Jobs -> Seq(TaskRecords)]
    BY DEF MatchInv, TasksInv
<1>1. ASSUME NEW job \in Jobs, NEW new, \A n \in DOMAIN new : new[n].match = NoMatch,
             tasks' = [tasks EXCEPT ![job] = new]
      PROVE  Unmatched' /\ BestOfAnAnswer
  <2>1. tasks'[job] = new /\ \A j \in Jobs : j # job => tasks'[j] = tasks[j]
      BY <1>0, <1>1
  <2>2. \A j \in Jobs : j # job \/ \A n \in DOMAIN tasks'[j] : tasks'[j][n].match = NoMatch
      BY <1>1, <2>1
  <2> QED BY <2>1, <2>2 DEF Unmatched, BestOfAnAnswer
<1>2. CASE StartWindow
  <2>1. \A n \in DOMAIN WindowTasks : WindowTasks[n].match = NoMatch
      BY DEF WindowTasks, Task
  <2>2. tasks' = [tasks EXCEPT !["window"] = WindowTasks] /\ "window" \in Jobs
      BY <1>2 DEF StartWindow, Jobs
  <2> QED BY <1>1, <2>1, <2>2
<1>3. CASE StartCommand
  <2> DEFINE new == [n \in DOMAIN Found |-> Task(Found[n], Found[n], ParsedTitle[Found[n]])]
  <2>1. \A n \in DOMAIN new : new[n].match = NoMatch
      BY DEF Task
  <2>2. tasks' = [tasks EXCEPT !["command"] = new] /\ "command" \in Jobs
      BY <1>3 DEF StartCommand, Jobs
  <2> HIDE DEF new
  <2> QED BY <1>1, <2>1, <2>2
<1>4. CASE FinishWindow \/ FinishCommand
  <2>1. PICK job \in Jobs : tasks' = [tasks EXCEPT ![job] = <<>>]
      BY <1>4 DEF FinishWindow, FinishCommand, Jobs
  <2>2. \A n \in DOMAIN <<>> : <<>>[n].match = NoMatch
      OBVIOUS
  <2> QED BY <1>1, <2>1, <2>2
<1>5. CASE \E job \in Jobs : \E n \in DOMAIN tasks[job] : TaskStep(job, n)
  <2>0. PICK job \in Jobs : \E n \in DOMAIN tasks[job] : TaskStep(job, n)
      BY <1>5
  <2>1. PICK n \in DOMAIN tasks[job] : TaskStep(job, n)
      BY <2>0
  <2>2. PICK r \in TaskRecords :
          /\ tasks' = [tasks EXCEPT ![job][n] = r] /\ r.title = tasks[job][n].title
          /\ r.status = "asking" => MayBegin(job, n) /\ r.match = tasks[job][n].match
          /\ r.status # "asking" => r.status = "done"
      BY <2>1, StepRecord
  <2>3. /\ \A j \in Jobs : DOMAIN tasks'[j] = DOMAIN tasks[j]
        /\ \A j \in Jobs : j # job => tasks'[j] = tasks[j]
        /\ \A i \in DOMAIN tasks[job] : i # n => tasks'[job][i] = tasks[job][i]
        /\ tasks'[job][n] = r
      BY <2>2, TaskSet DEF MatchInv
  <2>4. r.status = "asking" => tasks[job][n].status # "done"
      BY <2>2 DEF MayBegin, With
  <2>5. Unmatched'
      BY <2>2, <2>3, <2>4 DEF Unmatched
  <2>6. BestOfAnAnswer
      BY <2>1, <2>2, <2>3, SearchMatches DEF Unmatched, BestOfAnAnswer
  <2> QED BY <2>5, <2>6
<1>6. CASE UNCHANGED tasks
    BY <1>6 DEF Unmatched, BestOfAnAnswer
<1> QED BY <1>2, <1>3, <1>4, <1>5, <1>6 DEF Next, Cancel, Tick, Stop, vars

\* No file is matched to anything but the best of what TMDB answered, no longer
\* than TTL ago, to a title of its key.
THEOREM BestAlways == Spec => MatchIsBestOfAnAnswer
<1>1. Init => Unmatched
    BY DEF Init, Unmatched
<1>2. MatchInv /\ Unmatched /\ [Next]_vars => [BestOfAnAnswer]_tasks
    BY MatchesAreBest
<1>3. Spec => [][BestOfAnAnswer]_tasks
    BY <1>1, <1>2, MatchInitially, MatchStepKeeps, MatchesAreBest, PTL DEF Spec
<1> QED BY <1>3 DEF MatchIsBestOfAnAnswer, BestOfAnAnswer

-----------------------------------------------------------------------------
(* What the window shows after a match.                                      *)

Heeded ==
    cancelled =>
      /\ "window" \in running' => With("window", "waiting")' = With("window", "waiting")
      /\ \A n \in DOMAIN files : files'[n] # files[n] => TaskOf(files[n]).status = "done"

LEMMA CancelHeeded == MatchInv /\ [Next]_vars => Heeded
<1> SUFFICES ASSUME MatchInv, [Next]_vars, cancelled PROVE Heeded
    BY DEF Heeded
<1>0. "window" \in running /\ tasks \in [Jobs -> Seq(TaskRecords)] /\ "window" \in Jobs
    BY DEF MatchInv, TasksInv, Jobs
<1>1. ASSUME tasks'["window"] = tasks["window"], UNCHANGED files PROVE Heeded
    BY <1>1 DEF Heeded, With
<1>2. CASE StartCommand \/ FinishCommand
  <2>1. UNCHANGED files /\ tasks'["window"] = tasks["window"]
      BY <1>0, <1>2 DEF StartCommand, FinishCommand
  <2> QED BY <1>1, <2>1
<1>3. CASE \E job \in Jobs : \E n \in DOMAIN tasks[job] : TaskStep(job, n)
  <2>0. PICK job \in Jobs : \E n \in DOMAIN tasks[job] : TaskStep(job, n)
      BY <1>3
  <2>1. PICK n \in DOMAIN tasks[job] : TaskStep(job, n)
      BY <2>0
  <2>2. PICK r \in TaskRecords :
          /\ tasks' = [tasks EXCEPT ![job][n] = r]
          /\ r.status = "asking" => MayBegin(job, n)
          /\ r.status # "asking" => r.status = "done"
      BY <2>1, StepRecord
  <2>3. /\ \A j \in Jobs : DOMAIN tasks'[j] = DOMAIN tasks[j]
        /\ \A j \in Jobs : j # job => tasks'[j] = tasks[j]
        /\ \A i \in DOMAIN tasks[job] : i # n => tasks'[job][i] = tasks[job][i]
        /\ tasks'[job][n] = r
      BY <2>2, TaskSet DEF MatchInv
  <2>4. UNCHANGED files
      BY <2>1, StepRecord
  <2>5. CASE job # "window"
      BY <1>0, <1>1, <2>3, <2>4, <2>5
  <2>6. CASE job = "window"
    <3>1. ~MayBegin(job, n)
        BY <2>6 DEF MayBegin
    <3>2. tasks[job][n].status = "asking"
        BY <2>1, <3>1 DEF TaskStep, BeginWithoutTitle, BeginWithHit, BeginWithMiss, Answer, Fail, With
    <3>3. r.status = "done"
        BY <2>2, <3>1
    <3>4. With("window", "waiting")' = With("window", "waiting")
        BY <2>3, <2>6, <3>2, <3>3 DEF With
    <3> QED BY <2>4, <3>4 DEF Heeded
  <2> QED BY <2>5, <2>6
<1>4. CASE FinishWindow
  <2>1. files' = Results /\ "window" \notin running'
      BY <1>4 DEF FinishWindow
  <2> QED BY <2>1 DEF Heeded, Results
<1>5. CASE Tick \/ UNCHANGED vars
    BY <1>1, <1>5 DEF Tick, vars
<1> QED BY <1>0, <1>2, <1>3, <1>4, <1>5 DEF Next, StartWindow, Cancel, Stop

\* The window that was cancelled starts no search, and what it had not searched
\* is shown as it was.
THEOREM CancelHeededAlways == Spec => CancelIsHeeded
<1>1. MatchInv /\ [Next]_vars => [Heeded]_vars
    BY CancelHeeded
<1>2. Spec => [][Heeded]_vars
    BY <1>1, MatchAlways, PTL DEF Spec
<1> QED BY <1>2 DEF CancelIsHeeded, Heeded

InPlace ==
    /\ DOMAIN files' = DOMAIN files
    /\ \A n \in DOMAIN files :
         /\ files'[n].path = files[n].path
         /\ files[n].year # NoYear => files'[n].year = files[n].year

Agreeing ==
    \A m, n \in DOMAIN files :
      /\ files[m].title = files[n].title /\ files[m].year = files[n].year
      /\ files[m].tmdb = files[n].tmdb
      => files'[m].tmdb = files'[n].tmdb

\* Files of one key get the answer of one task.
LEMMA OrderKept == MatchInv /\ [Next]_vars => [InPlace]_files /\ [Agreeing]_files
<1> SUFFICES ASSUME MatchInv, [Next]_vars PROVE [InPlace]_files /\ [Agreeing]_files
    OBVIOUS
<1>1. CASE FinishWindow
  <2>1. files' = Results /\ DOMAIN Results = DOMAIN files
      BY <1>1, ResultsTyped DEF FinishWindow, MatchInv
  <2>2. \A n \in DOMAIN files :
          files'[n] = IF TaskOf(files[n]).status = "done" THEN Rematched(files[n]) ELSE files[n]
      BY <2>1 DEF Results
  <2>3. InPlace
    <3>1. \A n \in DOMAIN files : /\ Rematched(files[n]).path = files[n].path
                                  /\ files[n].year # NoYear => Rematched(files[n]).year = files[n].year
        BY DEF Rematched
    <3> QED BY <2>1, <2>2, <3>1 DEF InPlace
  <2>4. ASSUME NEW m \in DOMAIN files, NEW n \in DOMAIN files,
               files[m].title = files[n].title, files[m].year = files[n].year,
               files[m].tmdb = files[n].tmdb
        PROVE  files'[m].tmdb = files'[n].tmdb
    <3>1. SeriesKey(files[m]) = SeriesKey(files[n])
        BY <2>4 DEF SeriesKey
    <3>2. TaskOf(files[m]) = TaskOf(files[n])
        BY <3>1 DEF TaskOf
    <3>3. /\ Rematched(files[m]).tmdb = Metadata(TaskOf(files[m])).tmdb
          /\ Rematched(files[n]).tmdb = Metadata(TaskOf(files[n])).tmdb
        BY DEF Rematched
    <3> QED BY <2>2, <2>4, <3>2, <3>3
  <2> QED BY <2>3, <2>4 DEF Agreeing
<1>2. CASE UNCHANGED files
    BY <1>2
<1>3. ASSUME NEW job \in Jobs, NEW n \in DOMAIN tasks[job], TaskStep(job, n) PROVE UNCHANGED files
    BY <1>3, StepRecord
<1> QED BY <1>1, <1>2, <1>3 DEF Next, StartWindow, StartCommand, FinishCommand, Cancel, Tick, Stop, vars

\* Each file keeps its place, its path and the year it knew, and the files of a
\* series that agreed before a match agree after it.
THEOREM OrderKeptAlways == Spec => ResultsKeepOrder
<1>1. Spec => [][InPlace]_files
    BY OrderKept, MatchAlways, PTL DEF Spec
<1>2. Spec => [][Agreeing]_files
    BY OrderKept, MatchAlways, PTL DEF Spec
<1> QED BY <1>1, <1>2 DEF ResultsKeepOrder, FilesKeepTheirPlace, SeriesAgree, InPlace, Agreeing

-----------------------------------------------------------------------------
(* How often TMDB is asked.                                                  *)

LEMMA KeySets ==
    ASSUME MatchInv, NEW k
    PROVE  /\ IsFiniteSet(ToldOf(k)) /\ Cardinality(ToldOf(k)) \in Nat
           /\ IsFiniteSet(Late(k)) /\ Cardinality(Late(k)) \in Nat
           /\ \A job \in Jobs : IsFiniteSet(AskingOf(job, k)) /\ Cardinality(AskingOf(job, k)) \in Nat
<1>1. IsFiniteSet(ToldOf(k)) /\ IsFiniteSet(Late(k))
  <2>1. ToldOf(k) \subseteq told /\ Late(k) \subseteq told /\ IsFiniteSet(told)
      BY DEF ToldOf, Late, MatchInv, CacheInv
  <2> QED BY <2>1, FS_Subset
<1>2. \A job \in Jobs : IsFiniteSet(AskingOf(job, k))
  <2>1. \A job \in Jobs : AskingOf(job, k) \subseteq With(job, "asking")
      BY DEF AskingOf
  <2>2. \A job \in Jobs : IsFiniteSet(With(job, "asking"))
      BY AskingFinite DEF MatchInv
  <2> QED BY <2>1, <2>2, FS_Subset
<1> QED BY <1>1, <1>2, FS_CardinalityType

\* What only forgets answers and ends searches costs nothing.
LEMMA SearchShrinks ==
    ASSUME MatchInv, NEW k, SearchOK(k), Late(k)' \subseteq Late(k), ToldOf(k)' \subseteq ToldOf(k),
           \A job \in Jobs : AskingOf(job, k)' \subseteq AskingOf(job, k),
           faults' \in Nat, faults <= faults'
    PROVE  SearchOK(k)'
<1>1. ASSUME NEW S, NEW T, T \subseteq S, IsFiniteSet(S)
      PROVE  Cardinality(T) \in Nat /\ Cardinality(S) \in Nat /\ Cardinality(T) <= Cardinality(S)
    BY <1>1, FS_Subset, FS_CardinalityType
<1>2. /\ Cardinality(Late(k)') \in Nat /\ Cardinality(Late(k)') <= Cardinality(Late(k))
      /\ Cardinality(ToldOf(k)') \in Nat /\ Cardinality(ToldOf(k)') <= Cardinality(ToldOf(k))
    BY <1>1, KeySets
<1>3. \A job \in Jobs : /\ Cardinality(AskingOf(job, k)') \in Nat
                        /\ Cardinality(AskingOf(job, k)') <= Cardinality(AskingOf(job, k))
    BY <1>1, KeySets
<1>4. "window" \in Jobs /\ "command" \in Jobs
    BY DEF Jobs
<1>5. /\ Cardinality(AskingOf("window", k)') \in Nat /\ Cardinality(AskingOf("command", k)') \in Nat
      /\ Cardinality(AskingOf("window", k)') <= Cardinality(AskingOf("window", k))
      /\ Cardinality(AskingOf("command", k)') <= Cardinality(AskingOf("command", k))
      /\ Cardinality(AskingOf("window", k)) \in Nat /\ Cardinality(AskingOf("command", k)) \in Nat
    BY <1>3, <1>4, KeySets
<1>6. Concurrency \in Nat /\ faults \in Nat /\ Cardinality(Late(k)) \in Nat /\ Cardinality(ToldOf(k)) \in Nat
    BY MatchAssumption, KeySets DEF MatchInv, CountsInv
<1>7. (Cardinality(Late(k)) <= faults)'
    BY <1>2, <1>6 DEF SearchOK
<1>8. (Cardinality(ToldOf(k)) + Cardinality(AskingOf("window", k))
         + Cardinality(AskingOf("command", k)) <= Concurrency + 1 + faults)'
    BY <1>2, <1>5, <1>6 DEF SearchOK
<1> QED BY <1>7, <1>8 DEF SearchOK

\* A step of a search concerns the searches under its own key only.
LEMMA AskingMoves ==
    ASSUME MatchInv, NEW job \in Jobs, NEW n \in DOMAIN tasks[job], TaskStep(job, n), NEW k
    PROVE  /\ \A j \in Jobs : j # job => AskingOf(j, k)' = AskingOf(j, k)
           /\ BeginWithMiss(job, n) =>
                AskingOf(job, k)' \subseteq AskingOf(job, k)
                  \cup {i \in {n} : CacheKey[tasks[job][n].title] = k}
           /\ ~BeginWithMiss(job, n) => AskingOf(job, k)' \subseteq AskingOf(job, k) \ {n}
<1>1. tasks \in [Jobs -> Seq(TaskRecords)] /\ tasks[job][n] \in TaskRecords
    BY DEF MatchInv, TasksInv
<1>2. PICK r \in TaskRecords : tasks' = [tasks EXCEPT ![job][n] = r] /\ r.title = tasks[job][n].title
    BY StepRecord
<1>3. /\ \A j \in Jobs : DOMAIN tasks'[j] = DOMAIN tasks[j]
      /\ \A j \in Jobs : j # job => tasks'[j] = tasks[j]
      /\ \A i \in DOMAIN tasks[job] : i # n => tasks'[job][i] = tasks[job][i]
      /\ tasks'[job][n] = r
    BY <1>2, TaskSet DEF MatchInv
<1>4. ~BeginWithMiss(job, n) => r.status # "asking"
  <2> SUFFICES ASSUME ~BeginWithMiss(job, n) PROVE r.status # "asking"
      OBVIOUS
  <2>1. PICK m : tasks' = Done(job, n, m)
      BY DEF TaskStep, BeginWithoutTitle, BeginWithHit, Answer, Fail
  <2>2. tasks'[job][n].status = "done"
      BY <1>1, <2>1 DEF Done, TaskRecords
  <2> QED BY <1>3, <2>2
<1> QED BY <1>2, <1>3, <1>4 DEF AskingOf, With

\* An answer takes the place of a search, and what is written outlives no row.
LEMMA AnswerCounted ==
    ASSUME MatchInv, NEW job \in Jobs, NEW n \in DOMAIN tasks[job], Answer(job, n),
           NEW k \in Keys, SearchOK(k), k = CacheKey[tasks[job][n].title]
    PROVE  SearchOK(k)'
<1>1. PICK results \in Seq(Candidates), nth \in Nat :
        LET t == [key |-> k, results |-> results, at |-> now, nth |-> nth]
        IN  /\ told' = told \cup {t}
            /\ \/ rows' = Insert(k, results) /\ UNCHANGED faults
               \/ faults' = faults + 1 /\ UNCHANGED rows
    BY AnswerFacts
<1> DEFINE t == [key |-> k, results |-> results, at |-> now, nth |-> nth]
<1>2. told' = told \cup {t} /\ t.key = k
    BY <1>1
<1> HIDE DEF t
<1>3. n \in AskingOf(job, k) /\ now' = now /\ "window" \in Jobs /\ "command" \in Jobs
      /\ (job = "window" \/ job = "command")
    BY DEF Answer, AskingOf, Jobs
<1>4. /\ \A j \in Jobs : j # job => AskingOf(j, k)' = AskingOf(j, k)
      /\ AskingOf(job, k)' \subseteq AskingOf(job, k) \ {n}
  <2>1. TaskStep(job, n) /\ ~BeginWithMiss(job, n)
    <3>1. tasks[job][n].status = "asking"
        BY DEF Answer, With
    <3> QED BY <3>1 DEF TaskStep, BeginWithMiss, MayBegin, With
  <2>2. /\ \A j \in Jobs : j # job => AskingOf(j, k)' = AskingOf(j, k)
        /\ BeginWithMiss(job, n) =>
             AskingOf(job, k)' \subseteq AskingOf(job, k)
               \cup {i \in {n} : CacheKey[tasks[job][n].title] = k}
        /\ ~BeginWithMiss(job, n) => AskingOf(job, k)' \subseteq AskingOf(job, k) \ {n}
    <3>1. TaskStep(job, n)
        BY <2>1
    <3> QED BY <3>1, AskingMoves
  <2> QED BY <2>1, <2>2
<1>5. /\ Cardinality(ToldOf(k)) \in Nat /\ Cardinality(Late(k)) \in Nat /\ IsFiniteSet(ToldOf(k))
      /\ IsFiniteSet(Late(k)) /\ IsFiniteSet(AskingOf(job, k))
      /\ \A j \in Jobs : Cardinality(AskingOf(j, k)) \in Nat
    BY KeySets
<1>6. Cardinality(ToldOf(k)') \in Nat /\ Cardinality(ToldOf(k)') <= Cardinality(ToldOf(k)) + 1
  <2>1. ToldOf(k)' = ToldOf(k) \cup {t}
      BY <1>2 DEF ToldOf
  <2>2. \/ Cardinality(ToldOf(k) \cup {t}) = Cardinality(ToldOf(k)) + 1
        \/ Cardinality(ToldOf(k) \cup {t}) = Cardinality(ToldOf(k))
      BY <1>5, FS_AddElement
  <2> QED BY <1>5, <2>1, <2>2
<1>7. Cardinality(AskingOf(job, k)') \in Nat
      /\ Cardinality(AskingOf(job, k)') + 1 <= Cardinality(AskingOf(job, k))
  <2>1. IsFiniteSet(AskingOf(job, k) \ {n})
        /\ Cardinality(AskingOf(job, k) \ {n}) = Cardinality(AskingOf(job, k)) - 1
      BY <1>3, <1>5, FS_RemoveElement
  <2>2. Cardinality(AskingOf(job, k)') \in Nat
        /\ Cardinality(AskingOf(job, k)') <= Cardinality(AskingOf(job, k) \ {n})
      BY <1>4, <2>1, FS_Subset, FS_CardinalityType
  <2>3. Cardinality(AskingOf(job, k)) \in Nat
      BY <1>5
  <2> QED BY <2>1, <2>2, <2>3
<1>8. Concurrency \in Nat /\ faults \in Nat /\ (faults' = faults \/ faults' = faults + 1)
    BY <1>1, MatchAssumption DEF MatchInv, CountsInv
<1>9. Cardinality(ToldOf(k)') + Cardinality(AskingOf("window", k)') + Cardinality(AskingOf("command", k)')
        <= Concurrency + 1 + faults'
  <2>1. Cardinality(ToldOf(k)) + Cardinality(AskingOf("window", k)) + Cardinality(AskingOf("command", k))
          <= Concurrency + 1 + faults
      BY DEF SearchOK
  <2>2. Cardinality(AskingOf("window", k)) \in Nat /\ Cardinality(AskingOf("command", k)) \in Nat
      BY <1>3, <1>5
  <2>3. CASE job = "window"
    <3>1. AskingOf("command", k)' = AskingOf("command", k)
        BY <1>3, <1>4, <2>3
    <3>2. Cardinality(AskingOf("window", k)') \in Nat
          /\ Cardinality(AskingOf("window", k)') + 1 <= Cardinality(AskingOf("window", k))
        BY <1>7, <2>3
    <3> QED BY <1>5, <1>6, <1>8, <2>1, <2>2, <3>1, <3>2
  <2>4. CASE job = "command"
    <3>1. AskingOf("window", k)' = AskingOf("window", k)
        BY <1>3, <1>4, <2>4
    <3>2. Cardinality(AskingOf("command", k)') \in Nat
          /\ Cardinality(AskingOf("command", k)') + 1 <= Cardinality(AskingOf("command", k))
        BY <1>7, <2>4
    <3> QED BY <1>5, <1>6, <1>8, <2>1, <2>2, <3>1, <3>2
  <2> QED BY <1>3, <2>3, <2>4
<1>10. Cardinality(Late(k)') <= faults'
  <2>1. CASE rows' = Insert(k, results) /\ UNCHANGED faults
    <3>1. rows'[k].there /\ rows'[k].expires = now + TTL
        BY <2>1 DEF Insert, MatchInv, CacheInv
    <3>2. \A s \in told' : s.at \in Nat /\ s.at <= now
        BY <1>3, AnswerKeeps DEF CacheInv, Tells
    <3>3. Late(k)' = {}
        BY <3>1, <3>2, MatchAssumption DEF Late, ToldOf, MatchInv, CacheInv
    <3> QED BY <1>8, <2>1, <3>3, FS_EmptySet
  <2>2. CASE faults' = faults + 1 /\ UNCHANGED rows
    <3>1. Late(k)' \subseteq Late(k) \cup {t}
        BY <1>2, <2>2 DEF Late, ToldOf
    <3>2. IsFiniteSet(Late(k) \cup {t})
          /\ \/ Cardinality(Late(k) \cup {t}) = Cardinality(Late(k)) + 1
             \/ Cardinality(Late(k) \cup {t}) = Cardinality(Late(k))
        BY <1>5, FS_AddElement
    <3>3. Cardinality(Late(k)') <= Cardinality(Late(k) \cup {t}) /\ Cardinality(Late(k)') \in Nat
        BY <3>1, <3>2, FS_Subset, FS_CardinalityType
    <3>4. Cardinality(Late(k)) <= faults
        BY DEF SearchOK
    <3> QED BY <1>5, <1>8, <2>2, <3>2, <3>3, <3>4
  <2> QED BY <1>1, <2>1, <2>2
<1> QED BY <1>9, <1>10 DEF SearchOK

\* Who asks has a slot, and nobody asked before, or had a fault.
LEMMA MissCounted ==
    ASSUME MatchInv, NEW job \in Jobs, NEW n \in DOMAIN tasks[job], BeginWithMiss(job, n),
           NEW k \in Keys, SearchOK(k), k = CacheKey[tasks[job][n].title]
    PROVE  SearchOK(k)'
<1>1. /\ \A j \in Jobs : j # job => AskingOf(j, k)' = AskingOf(j, k)
      /\ AskingOf(job, k)' \subseteq AskingOf(job, k) \cup {n}
  <2>1. TaskStep(job, n)
      BY DEF TaskStep
  <2> QED BY <2>1, AskingMoves
<1>2. /\ Cardinality(ToldOf(k)) \in Nat /\ Cardinality(Late(k)) \in Nat /\ IsFiniteSet(Late(k))
      /\ IsFiniteSet(AskingOf(job, k)) /\ \A j \in Jobs : Cardinality(AskingOf(j, k)) \in Nat
    BY KeySets
<1>3. ToldOf(k)' = ToldOf(k) /\ Late(k)' = Late(k) /\ now' = now
    BY DEF BeginWithMiss, ToldOf, Late
<1>4. Concurrency \in Nat /\ faults \in Nat /\ Cardinality(Late(k)) <= faults
      /\ (faults' = faults \/ faults' = faults + 1) /\ (Cached(k) => faults' = faults + 1)
    BY MatchAssumption DEF BeginWithMiss, MatchInv, CountsInv, SearchOK
<1>5. "window" \in Jobs /\ "command" \in Jobs /\ (job = "window" \/ job = "command")
    BY DEF Jobs
<1>6. CASE Cached(k)
  <2>1. Cardinality(AskingOf(job, k)') \in Nat
        /\ Cardinality(AskingOf(job, k)') <= Cardinality(AskingOf(job, k)) + 1
    <3>1. IsFiniteSet(AskingOf(job, k) \cup {n})
          /\ \/ Cardinality(AskingOf(job, k) \cup {n}) = Cardinality(AskingOf(job, k)) + 1
             \/ Cardinality(AskingOf(job, k) \cup {n}) = Cardinality(AskingOf(job, k))
        BY <1>2, FS_AddElement
    <3>2. Cardinality(AskingOf(job, k)') <= Cardinality(AskingOf(job, k) \cup {n})
          /\ Cardinality(AskingOf(job, k)') \in Nat
        BY <1>1, <3>1, FS_Subset, FS_CardinalityType
    <3>3. Cardinality(AskingOf(job, k)) \in Nat
        BY <1>2
    <3> QED BY <3>1, <3>2, <3>3
  <2>2. Cardinality(ToldOf(k)) + Cardinality(AskingOf("window", k)) + Cardinality(AskingOf("command", k))
          <= Concurrency + 1 + faults
      BY DEF SearchOK
  <2>3. Cardinality(AskingOf("window", k)) \in Nat /\ Cardinality(AskingOf("command", k)) \in Nat
      BY <1>2, <1>5
  <2>4. Cardinality(AskingOf("window", k)') + Cardinality(AskingOf("command", k)')
          <= Cardinality(AskingOf("window", k)) + Cardinality(AskingOf("command", k)) + 1
        /\ Cardinality(AskingOf("window", k)') \in Nat /\ Cardinality(AskingOf("command", k)') \in Nat
    <3>1. CASE job = "window"
      <4>1. AskingOf("command", k)' = AskingOf("command", k)
          BY <1>1, <1>5, <3>1
      <4> QED BY <2>1, <2>3, <3>1, <4>1
    <3>2. CASE job = "command"
      <4>1. AskingOf("window", k)' = AskingOf("window", k)
          BY <1>1, <1>5, <3>2
      <4> QED BY <2>1, <2>3, <3>2, <4>1
    <3> QED BY <1>5, <3>1, <3>2
  <2>5. faults' = faults + 1
      BY <1>4, <1>6
  <2>6. Cardinality(ToldOf(k)') + Cardinality(AskingOf("window", k)') + Cardinality(AskingOf("command", k)')
          <= Concurrency + 1 + faults'
      BY <1>2, <1>3, <1>4, <2>2, <2>3, <2>4, <2>5
  <2>7. Cardinality(Late(k)') <= faults'
      BY <1>2, <1>3, <1>4, <2>5
  <2> QED BY <2>6, <2>7 DEF SearchOK
<1>7. CASE ~Cached(k)
  <2>1. Cardinality(ToldOf(k)) <= faults
    <3>1. \A t \in ToldOf(k) : t \in Late(k)
      <4>1. \A t \in ToldOf(k) : now <= t.at + TTL /\ t.at \in Nat
          BY DEF ToldOf, MatchInv, CacheInv, Tells
      <4>2. rows[k].there => now > rows[k].expires /\ rows[k].expires \in Nat
          BY <1>7, MatchAssumption DEF Cached, Live, MatchInv, CacheInv, Rows
      <4>3. now \in Nat /\ TTL \in Nat
          BY MatchAssumption DEF MatchInv, CacheInv
      <4> QED BY <4>1, <4>2, <4>3 DEF Late
    <3>2. Cardinality(ToldOf(k)) <= Cardinality(Late(k))
        BY <1>2, <3>1, FS_Subset
    <3> QED BY <1>2, <1>4, <3>2
  <2>2. Cardinality(AskingOf(job, k)') \in Nat /\ Cardinality(AskingOf(job, k)') <= Slots(job)
    <3>1. AskingOf(job, k)' \subseteq With(job, "asking") \cup {n}
        BY <1>1 DEF AskingOf
    <3>2. IsFiniteSet(With(job, "asking") \cup {n})
        BY AskingFinite, FS_AddElement DEF MatchInv
    <3>3. Cardinality(With(job, "asking") \cup {n}) <= Slots(job)
        BY SlotTaken DEF MatchInv, BeginWithMiss
    <3>4. Cardinality(AskingOf(job, k)') <= Cardinality(With(job, "asking") \cup {n})
          /\ Cardinality(AskingOf(job, k)') \in Nat /\ Cardinality(With(job, "asking") \cup {n}) \in Nat
        BY <3>1, <3>2, FS_Subset, FS_CardinalityType
    <3>5. Slots(job) \in Nat
        BY <1>4 DEF Slots
    <3> QED BY <3>3, <3>4, <3>5
  <2>3. \A j \in Jobs : Cardinality(AskingOf(j, k)) <= Slots(j)
    <3>1. \A j \in Jobs : AskingOf(j, k) \subseteq With(j, "asking")
        BY DEF AskingOf
    <3>2. \A j \in Jobs : /\ Cardinality(AskingOf(j, k)) <= Cardinality(With(j, "asking"))
                          /\ Cardinality(With(j, "asking")) \in Nat
                          /\ Cardinality(With(j, "asking")) <= Slots(j)
        BY <3>1, AskingFinite, FS_Subset DEF MatchInv, TasksInv
    <3>3. \A j \in Jobs : Slots(j) \in Nat
        BY <1>4 DEF Slots
    <3> QED BY <1>2, <3>2, <3>3
  <2>4. \A j \in Jobs : Cardinality(AskingOf(j, k)') \in Nat /\ Cardinality(AskingOf(j, k)') <= Slots(j)
      BY <1>1, <1>2, <2>2, <2>3
  <2>5. Slots("window") = 1 /\ Slots("command") = Concurrency
      BY DEF Slots
  <2>6. Cardinality(ToldOf(k)') + Cardinality(AskingOf("window", k)') + Cardinality(AskingOf("command", k)')
          <= Concurrency + 1 + faults'
    <3>1. /\ Cardinality(AskingOf("window", k)') \in Nat /\ Cardinality(AskingOf("window", k)') <= 1
          /\ Cardinality(AskingOf("command", k)') \in Nat
          /\ Cardinality(AskingOf("command", k)') <= Concurrency
        BY <1>5, <2>4, <2>5
    <3> QED BY <1>2, <1>3, <1>4, <2>1, <3>1
  <2>7. Cardinality(Late(k)') <= faults'
      BY <1>2, <1>3, <1>4
  <2> QED BY <2>6, <2>7 DEF SearchOK
<1> QED BY <1>6, <1>7

\* A row that opening the database removes outlives none of its answers.
LEMMA PurgeCostsNothing ==
    ASSUME MatchInv, rows' = Purged, UNCHANGED <<now, told>>, NEW k \in Keys
    PROVE  Late(k)' \subseteq Late(k) /\ ToldOf(k)' \subseteq ToldOf(k)
<1>1. ToldOf(k)' = ToldOf(k)
    BY DEF ToldOf
<1>2. \A t \in ToldOf(k) : t.at \in Nat /\ now <= t.at + TTL
    BY DEF ToldOf, MatchInv, CacheInv, Tells
<1>3. rows[k].expires \in Nat /\ now \in Nat /\ TTL \in Nat
    BY MatchAssumption DEF MatchInv, CacheInv, Rows
<1>4. CASE rows[k].there /\ rows[k].expires < now
  <2>1. \A t \in ToldOf(k) : t.at + TTL > rows[k].expires
      BY <1>2, <1>3, <1>4
  <2> QED BY <1>1, <2>1 DEF Late
<1>5. CASE ~(rows[k].there /\ rows[k].expires < now)
  <2>1. rows'[k] = rows[k]
      BY <1>5 DEF Purged
  <2> QED BY <1>1, <2>1 DEF Late
<1> QED BY <1>4, <1>5

LEMMA SearchStepKeeps == MatchInv /\ SearchInv /\ [Next]_vars => SearchInv'
<1> SUFFICES ASSUME MatchInv, SearchInv, [Next]_vars, NEW k \in Keys PROVE SearchOK(k)'
    BY DEF SearchInv
<1>0. SearchOK(k) /\ tasks \in [Jobs -> Seq(TaskRecords)]
      /\ \A job \in Jobs : job \notin running => tasks[job] = <<>>
    BY DEF SearchInv, MatchInv, TasksInv
<1>1. faults' \in Nat /\ (UNCHANGED faults => faults <= faults')
  <2>1. CountsInv' /\ MaxFaults \in Nat /\ faults \in Nat
      BY CountsKeep, MatchAssumption DEF MatchInv, CountsInv
  <2> QED BY <2>1 DEF CountsInv
<1>2. ASSUME NEW job \in Jobs, NEW new, \A n \in DOMAIN new : new[n].status = "waiting",
             tasks' = [tasks EXCEPT ![job] = new], NEW j \in Jobs
      PROVE  AskingOf(j, k)' \subseteq AskingOf(j, k)
  <2>1. tasks'[job] = new /\ (j # job => tasks'[j] = tasks[j])
      BY <1>0, <1>2
  <2> QED BY <1>2, <2>1 DEF AskingOf, With
<1>3. CASE StartWindow
  <2>1. tasks' = [tasks EXCEPT !["window"] = WindowTasks] /\ "window" \in Jobs
        /\ rows' = Purged /\ UNCHANGED <<now, told, faults>>
      BY <1>3 DEF StartWindow, Jobs
  <2>2. \A n \in DOMAIN WindowTasks : WindowTasks[n].status = "waiting"
      BY DEF WindowTasks, Task
  <2>3. \A j \in Jobs : AskingOf(j, k)' \subseteq AskingOf(j, k)
      BY <1>2, <2>1, <2>2
  <2>4. Late(k)' \subseteq Late(k) /\ ToldOf(k)' \subseteq ToldOf(k)
      BY <2>1, PurgeCostsNothing
  <2> QED BY <1>0, <1>1, <2>1, <2>3, <2>4, SearchShrinks
<1>4. CASE StartCommand
  <2> DEFINE new == [n \in DOMAIN Found |-> Task(Found[n], Found[n], ParsedTitle[Found[n]])]
  <2>1. tasks' = [tasks EXCEPT !["command"] = new] /\ "command" \in Jobs
        /\ rows' = Purged /\ UNCHANGED <<now, told, faults>>
      BY <1>4 DEF StartCommand, Jobs
  <2>2. \A n \in DOMAIN new : new[n].status = "waiting"
      BY DEF Task
  <2> HIDE DEF new
  <2>3. \A j \in Jobs : AskingOf(j, k)' \subseteq AskingOf(j, k)
      BY <1>2, <2>1, <2>2
  <2>4. Late(k)' \subseteq Late(k) /\ ToldOf(k)' \subseteq ToldOf(k)
      BY <2>1, PurgeCostsNothing
  <2> QED BY <1>0, <1>1, <2>1, <2>3, <2>4, SearchShrinks
<1>5. CASE FinishWindow \/ FinishCommand
  <2>1. PICK job \in Jobs : tasks' = [tasks EXCEPT ![job] = <<>>]
      BY <1>5 DEF FinishWindow, FinishCommand, Jobs
  <2>2. UNCHANGED <<rows, now, told, faults>>
      BY <1>5 DEF FinishWindow, FinishCommand
  <2>3. \A n \in DOMAIN <<>> : <<>>[n].status = "waiting"
      OBVIOUS
  <2>4. \A j \in Jobs : AskingOf(j, k)' \subseteq AskingOf(j, k)
      BY <1>2, <2>1, <2>3
  <2>5. Late(k)' = Late(k) /\ ToldOf(k)' = ToldOf(k)
      BY <2>2 DEF Late, ToldOf
  <2> QED BY <1>0, <1>1, <2>2, <2>4, <2>5, SearchShrinks
<1>6. CASE \E job \in Jobs : \E n \in DOMAIN tasks[job] : TaskStep(job, n)
  <2>0. PICK job \in Jobs : \E n \in DOMAIN tasks[job] : TaskStep(job, n)
      BY <1>6
  <2>1. PICK n \in DOMAIN tasks[job] : TaskStep(job, n)
      BY <2>0
  <2>2. /\ \A j \in Jobs : j # job => AskingOf(j, k)' = AskingOf(j, k)
        /\ BeginWithMiss(job, n) =>
             AskingOf(job, k)' \subseteq AskingOf(job, k)
               \cup {i \in {n} : CacheKey[tasks[job][n].title] = k}
        /\ ~BeginWithMiss(job, n) => AskingOf(job, k)' \subseteq AskingOf(job, k) \ {n}
      BY <2>1, AskingMoves
  <2>3. CASE Answer(job, n) /\ k = CacheKey[tasks[job][n].title]
      BY <1>0, <2>3, AnswerCounted
  <2>4. CASE BeginWithMiss(job, n) /\ k = CacheKey[tasks[job][n].title]
      BY <1>0, <2>4, MissCounted
  <2>5. CASE Answer(job, n) /\ k # CacheKey[tasks[job][n].title]
    <3>1. PICK results \in Seq(Candidates), nth \in Nat :
            LET key == CacheKey[tasks[job][n].title]
                t   == [key |-> key, results |-> results, at |-> now, nth |-> nth]
            IN  /\ told' = told \cup {t}
                /\ \/ rows' = Insert(key, results) /\ UNCHANGED faults
                   \/ faults' = faults + 1 /\ UNCHANGED rows
        BY <2>5, AnswerFacts
    <3>2. rows'[k] = rows[k]
        BY <2>5, <3>1 DEF Insert, MatchInv, CacheInv
    <3>3. ToldOf(k)' = ToldOf(k)
        BY <2>5, <3>1 DEF ToldOf
    <3>4. Late(k)' = Late(k)
        BY <3>2, <3>3 DEF Late
    <3>5. faults <= faults'
        BY <3>1, MatchAssumption DEF MatchInv, CountsInv
    <3>6. \A j \in Jobs : AskingOf(j, k)' \subseteq AskingOf(j, k)
      <4>1. tasks[job][n].status = "asking"
          BY <2>5 DEF Answer, With
      <4>2. ~BeginWithMiss(job, n)
          BY <4>1 DEF BeginWithMiss, MayBegin, With
      <4> QED BY <2>2, <4>2
    <3> QED BY <1>0, <1>1, <3>3, <3>4, <3>5, <3>6, SearchShrinks
  <2>6. CASE ~Answer(job, n) /\ (BeginWithMiss(job, n) => k # CacheKey[tasks[job][n].title])
    <3>1. UNCHANGED <<rows, now, told>> /\ (faults' = faults \/ faults' = faults + 1)
        BY <2>1, <2>6 DEF TaskStep, BeginWithoutTitle, BeginWithHit, BeginWithMiss, Fail
    <3>2. Late(k)' = Late(k) /\ ToldOf(k)' = ToldOf(k)
        BY <3>1 DEF Late, ToldOf
    <3>3. faults <= faults'
        BY <3>1, MatchAssumption DEF MatchInv, CountsInv
    <3>4. \A j \in Jobs : AskingOf(j, k)' \subseteq AskingOf(j, k)
        BY <2>2, <2>6
    <3> QED BY <1>0, <1>1, <3>2, <3>3, <3>4, SearchShrinks
  <2> QED BY <2>3, <2>4, <2>5, <2>6
<1>7. CASE Tick
  <2>1. told' = {t \in told : t.at + TTL > now} /\ UNCHANGED <<rows, tasks, faults>>
      BY <1>7 DEF Tick
  <2>2. Late(k)' \subseteq Late(k) /\ ToldOf(k)' \subseteq ToldOf(k)
      BY <2>1 DEF Late, ToldOf
  <2>3. \A j \in Jobs : AskingOf(j, k)' = AskingOf(j, k)
      BY <2>1 DEF AskingOf, With
  <2> QED BY <1>0, <1>1, <2>1, <2>2, <2>3, SearchShrinks
<1>8. CASE Cancel \/ UNCHANGED vars
  <2>1. UNCHANGED <<rows, told, tasks, faults>>
      BY <1>8 DEF Cancel, vars
  <2>2. Late(k)' = Late(k) /\ ToldOf(k)' = ToldOf(k)
      BY <2>1 DEF Late, ToldOf
  <2>3. \A j \in Jobs : AskingOf(j, k)' = AskingOf(j, k)
      BY <2>1 DEF AskingOf, With
  <2> QED BY <1>0, <1>1, <2>1, <2>2, <2>3, SearchShrinks
<1> QED BY <1>3, <1>4, <1>5, <1>6, <1>7, <1>8 DEF Next, Stop

LEMMA SearchInitially == Init => SearchInv
<1> SUFFICES ASSUME Init, NEW k \in Keys PROVE SearchOK(k)
    BY DEF SearchInv
<1>1. Late(k) = {} /\ ToldOf(k) = {} /\ AskingOf("window", k) = {} /\ AskingOf("command", k) = {}
    BY DEF Init, Late, ToldOf, AskingOf, With, Jobs
<1>2. Concurrency \in Nat /\ faults = 0
    BY MatchAssumption DEF Init
<1> QED BY <1>1, <1>2, FS_EmptySet DEF SearchOK

\* Whatever the answers, the files and the instants at which rows expire: what
\* TMDB is asked of a series in a TTL is bounded by the slots and the calls of
\* the cache that failed.
THEOREM SearchesBounded == Spec => []SearchesPerSeries
<1>1. ASSUME MatchInv, SearchInv, NEW k \in Keys
      PROVE  Cardinality({t \in told : t.key = k}) <= Concurrency + 1 + faults
  <2>1. /\ Cardinality(ToldOf(k)) \in Nat /\ Cardinality(AskingOf("window", k)) \in Nat
        /\ Cardinality(AskingOf("command", k)) \in Nat
      BY <1>1, KeySets DEF Jobs
  <2>2. Concurrency \in Nat /\ faults \in Nat
      BY <1>1, MatchAssumption DEF MatchInv, CountsInv
  <2>3. Cardinality(ToldOf(k)) <= Concurrency + 1 + faults
      BY <1>1, <2>1, <2>2 DEF SearchInv, SearchOK
  <2> QED BY <2>3 DEF ToldOf
<1>2. MatchInv /\ SearchInv => SearchesPerSeries
    BY <1>1 DEF SearchesPerSeries
<1> QED BY <1>2, MatchInitially, SearchInitially, MatchStepKeeps, SearchStepKeeps, PTL DEF Spec
=============================================================================
