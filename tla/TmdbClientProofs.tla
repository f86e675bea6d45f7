-------------------------- MODULE TmdbClientProofs --------------------------
(* Proofs about TmdbClient: for any number of tasks and any limit, no way    *)
(* out of a request loses or doubles a slot of the semaphore, and a request  *)
(* waits for as long as TMDB told it to.                                     *)
EXTENDS TmdbClient, FiniteSetTheorems, TLAPS

\* The part of the type invariant that the slots depend on, and that the loop
\* is only ever blocked by a task that waits for a slot.
SlotInv ==
    /\ pc \in [Tasks -> PCs] /\ slots \in 0..Limit
    /\ SlotsConserved
    /\ blocked \in Tasks => pc[blocked] = "acquiring"

USE DEF PCs, Holding

\* A request takes a slot.
LEMMA SlotTaken ==
    ASSUME SlotInv, NEW t \in Tasks, NEW p \in Holding, pc[t] \notin Holding,
           slots > 0, slots' = slots - 1, pc' = [pc EXCEPT ![t] = p]
    PROVE  slots' \in 0..Limit /\ SlotsConserved'
<1> USE ClientAssumption
<1>1. IsFiniteSet(Holders) /\ t \notin Holders
    BY FS_Subset DEF Holders
<1>2. Holders' = Holders \cup {t}
    BY DEF SlotInv, Holders
<1>3. Cardinality(Holders') = Cardinality(Holders) + 1 /\ Cardinality(Holders) \in Nat
    BY <1>1, <1>2, FS_AddElement, FS_CardinalityType
<1> QED BY <1>3 DEF SlotInv, SlotsConserved

\* A request gives its slot back.
LEMMA SlotReleased ==
    ASSUME SlotInv, NEW t \in Tasks, pc[t] \in Holding, Release(t)
    PROVE  slots' \in 0..Limit /\ SlotsConserved'
<1> USE ClientAssumption
<1>1. IsFiniteSet(Holders) /\ t \in Holders
    BY FS_Subset DEF Holders
<1>2. Holders' = Holders \ {t}
    BY DEF SlotInv, Holders, Release
<1>3. Cardinality(Holders') = Cardinality(Holders) - 1 /\ Cardinality(Holders) \in Nat
      /\ Cardinality(Holders') \in Nat
    BY <1>1, <1>2, FS_RemoveElement, FS_CardinalityType, FS_Subset
<1> QED BY <1>3 DEF SlotInv, SlotsConserved, Release

\* A task goes on without taking or giving back a slot.
LEMMA SlotKept ==
    ASSUME SlotInv, NEW t \in Tasks, NEW p, pc[t] \in Holding <=> p \in Holding,
           UNCHANGED slots, pc' = [pc EXCEPT ![t] = p]
    PROVE  slots' \in 0..Limit /\ SlotsConserved'
<1>1. Holders' = Holders
    BY DEF SlotInv, Holders
<1> QED BY <1>1 DEF SlotInv, SlotsConserved

\* Entering the semaphore takes a slot or blocks the loop.
LEMMA EnterStep ==
    ASSUME SlotInv, NEW t \in Tasks, LoopFree, pc[t] \in {"idle", "throttled"}, Enter(t)
    PROVE  SlotInv'
<1> USE ClientAssumption
<1>1. CASE slots > 0
  <2>1. PICK p \in {"calling", "polling"} : pc' = [pc EXCEPT ![t] = p]
      BY <1>1 DEF Enter
  <2>2. slots' \in 0..Limit /\ SlotsConserved'
      BY <1>1, <2>1, SlotTaken DEF Enter
  <2> QED BY <1>1, <2>1, <2>2 DEF SlotInv, Enter, LoopFree
<1>2. CASE ~(slots > 0)
  <2>1. slots' \in 0..Limit /\ SlotsConserved'
      BY <1>2, SlotKept DEF Enter
  <2> QED BY <1>2, <2>1 DEF SlotInv, Enter
<1> QED BY <1>1, <1>2

\* After a failure the slot is kept for the retry or given back.
LEMMA RetryStep ==
    ASSUME SlotInv, NEW t \in Tasks, LoopFree, pc[t] \in Holding, RetryOrRaise(t),
           UNCHANGED blocked
    PROVE  SlotInv'
<1> USE ClientAssumption
<1>1. CASE Release(t)
    BY <1>1, SlotReleased DEF SlotInv, Release, LoopFree
<1>2. CASE pc' = [pc EXCEPT ![t] = "backoff"] /\ UNCHANGED slots
    BY <1>2, SlotKept DEF SlotInv, LoopFree
<1> QED BY <1>1, <1>2 DEF RetryOrRaise, BackOff, GiveUp

\* No step of a task, of a call or of the clock changes the sum of the slots.
LEMMA SlotStep == SlotInv /\ [Next]_vars => SlotInv'
<1> SUFFICES ASSUME SlotInv, [Next]_vars PROVE SlotInv'
    OBVIOUS
<1> USE ClientAssumption
<1>1. ASSUME NEW t \in Tasks, Begin(t) \/ Throttled(t) PROVE SlotInv'
    BY <1>1, EnterStep DEF Begin, Throttled
<1>2. ASSUME NEW t \in Tasks, BeginThrottled(t) PROVE SlotInv'
    BY <1>2, SlotKept DEF BeginThrottled, SlotInv, LoopFree
<1>3. ASSUME NEW t \in Tasks, AcquireTimesOut(t) PROVE SlotInv'
  <2>1. pc[t] = "acquiring"
      BY <1>3 DEF AcquireTimesOut, SlotInv
  <2> QED BY <1>3, <2>1, SlotKept DEF AcquireTimesOut, SlotInv
<1>4. ASSUME NEW t \in Tasks, PollGetsToken(t) \/ Retry(t) PROVE SlotInv'
    BY <1>4, SlotKept DEF PollGetsToken, Retry, SlotInv, LoopFree
<1>5. ASSUME NEW t \in Tasks, NEW a \in Answers, Answer(t, a) PROVE SlotInv'
    BY <1>5, SlotKept DEF Answer, SlotInv
<1>6. ASSUME NEW t \in Tasks, HandleSuccess(t) \/ HandleCrash(t) PROVE SlotInv'
    BY <1>6, SlotReleased DEF HandleSuccess, HandleCrash, Answered, Release, SlotInv, LoopFree
<1>7. ASSUME NEW t \in Tasks, HandleError(t) \/ Cooled(t) PROVE SlotInv'
    BY <1>7, RetryStep DEF HandleError, Cooled, Answered
<1>8. ASSUME NEW t \in Tasks, Handle429(t) PROVE SlotInv'
  <2>1. CASE RetryOrRaise(t)
      BY <1>8, <2>1, RetryStep DEF Handle429, Answered
  <2>2. CASE pc' = [pc EXCEPT ![t] = "cooling"] /\ UNCHANGED slots
      BY <1>8, <2>2, SlotKept DEF Handle429, Answered, SlotInv, LoopFree
  <2> QED BY <1>8, <2>1, <2>2 DEF Handle429
<1>9. CASE Tick
    BY <1>9 DEF Tick, SlotInv, SlotsConserved, Holders
<1>10. CASE UNCHANGED vars
    BY <1>10 DEF vars, SlotInv, SlotsConserved, Holders
<1> QED
    BY <1>1, <1>2, <1>3, <1>4, <1>5, <1>6, <1>7, <1>8, <1>9, <1>10
    DEF Next, Handle, Wake, Call

\* The free slots and the requests that hold one always add up to
\* concurrent_requests, however requests end and whatever TMDB answers.
THEOREM SlotsAddUp == Spec => []SlotsConserved
<1> USE ClientAssumption
<1>1. Init => SlotInv
  <2> SUFFICES ASSUME Init PROVE SlotInv
      OBVIOUS
  <2>1. Holders = {} /\ Cardinality({}) = 0
      BY FS_EmptySet DEF Init, Holders
  <2> QED BY <2>1 DEF Init, SlotInv, SlotsConserved
<1>2. SlotInv /\ [Next]_vars => SlotInv'
    BY SlotStep
<1>3. SlotInv => SlotsConserved
    BY DEF SlotInv
<1> QED BY <1>1, <1>2, <1>3, PTL DEF Spec
-----------------------------------------------------------------------------
(* The Retry-After of a request.                                             *)

\* What Min of two numbers is.
LEMMA LesserOfTwo ==
    ASSUME NEW a \in Nat, NEW b \in Nat
    PROVE  Min({a, b}) \in {a, b} /\ Min({a, b}) <= a /\ Min({a, b}) <= b
<1>1. \E x \in {a, b} : \A y \in {a, b} : x <= y
    OBVIOUS
<1> QED BY <1>1 DEF Min

LEMMA GreaterOfTwo ==
    ASSUME NEW a \in Nat, NEW b \in Nat
    PROVE  Max({a, b}) \in Nat /\ a <= Max({a, b}) /\ b <= Max({a, b})
<1>1. \E x \in {a, b} : \A y \in {a, b} : x >= y
    OBVIOUS
<1> QED BY <1>1 DEF Max

\* The wait before a retry is a number of ticks: a power of two is one.
LEMMA BackOffType ==
    ASSUME NEW n \in Nat
    PROVE  RetryDelay * 2 ^ n \in Nat
<1>1. IsFiniteSet(1..n) /\ Cardinality(1..n) = n
    BY FS_Interval
<1>2. 2 ^ n \in Nat
    BY <1>1, FS_SUBSET, FS_CardinalityType
<1>3. \A a, b \in Nat : a * b \in Nat
    OBVIOUS
<1> QED BY <1>2, <1>3, ClientAssumption

\* One more error or success of the current tick.
LEMMA CountedUp ==
    ASSUME NEW c \in [Ages -> Nat]
    PROVE  [c EXCEPT ![0] = @ + 1] \in [Ages -> Nat]
BY RateLimitAssumption DEF Ages

\* A machine is one whatever its state, errors and delay are replaced by.
LEMMA MachineOf ==
    ASSUME NEW m \in Machines, NEW s \in States, NEW e \in [Ages -> Nat],
           NEW w \in 0..MaxDelay, NEW d \in 0..MaxDelay
    PROVE  /\ [m EXCEPT !.state = s, !.errors = e, !.since429 = w, !.delay = d] \in Machines
           /\ [m EXCEPT !.state = s, !.delay = d] \in Machines
<1> DEFINE n == [m EXCEPT !.state = s, !.errors = e, !.since429 = w, !.delay = d]
           o == [m EXCEPT !.state = s, !.delay = d]
<1>1. [m EXCEPT !.state = s] \in Machines
    BY DEF Machines
<1>2. \A k \in Machines : [k EXCEPT !.delay = d] \in Machines
    BY DEF Machines
<1>3. \A k \in Machines : [k EXCEPT !.errors = e] \in Machines
    BY DEF Machines
<1>4. \A k \in Machines : [k EXCEPT !.since429 = w] \in Machines
    BY DEF Machines
<1>5. o = [[m EXCEPT !.state = s] EXCEPT !.delay = d]
    BY Zenon
<1>6. n = [[[[m EXCEPT !.state = s] EXCEPT !.errors = e] EXCEPT !.since429 = w] EXCEPT !.delay = d]
    BY Zenon
<1> QED BY <1>1, <1>2, <1>3, <1>4, <1>5, <1>6

\* Whatever the state machine is told of, it stays one.
LEMMA MachineTypes ==
    ASSUME NEW m \in Machines
    PROVE  /\ handle_success(m) \in Machines /\ handle_error(m) \in Machines
           /\ Older(m) \in Machines /\ get_retry_delay(m) \in Nat
<1> USE RateLimitAssumption
<1>1. MaxDelay \in Nat /\ 0 \in Ages
    BY GreaterOfTwo DEF MaxDelay, Ages
<1>2. /\ m.since429 \in 0..MaxDelay /\ m.delay \in 0..MaxDelay
      /\ m.errors \in [Ages -> Nat] /\ m.successes \in [Ages -> Nat]
    BY DEF Machines
<1>3. handle_success(m) \in Machines
  <2> DEFINE n == [m EXCEPT !.successes[0] = @ + 1]
  <2>1. n = [m EXCEPT !.successes = [m.successes EXCEPT ![0] = @ + 1]]
      OBVIOUS
  <2>2. n \in Machines
      BY <1>2, <2>1, CountedUp DEF Machines
  <2>3. [n EXCEPT !.state = "NORMAL", !.delay = 0] \in Machines
    <3>1. "NORMAL" \in States /\ 0 \in 0..MaxDelay
        BY <1>1 DEF States
    <3> HIDE DEF n
    <3>2. n.errors \in [Ages -> Nat] /\ n.since429 \in 0..MaxDelay
        BY <2>2 DEF Machines
    <3> QED BY <2>2, <3>1, <3>2, MachineOf
  <2> QED BY <2>2, <2>3 DEF handle_success
<1>4. handle_error(m) \in Machines
  <2> DEFINE n == [m EXCEPT !.errors[0] = @ + 1]
  <2>1. n = [m EXCEPT !.errors = [m.errors EXCEPT ![0] = @ + 1]]
      OBVIOUS
  <2>2. n \in Machines
      BY <1>2, <2>1, CountedUp DEF Machines
  <2>3. [n EXCEPT !.state = "CACHE_ONLY"] \in Machines
      BY <2>2 DEF Machines, States
  <2> QED BY <2>2, <2>3 DEF handle_error
<1>5. Older(m) \in Machines
  <2>1. Min({MaxDelay, m.since429 + 1}) \in 0..MaxDelay
      BY <1>1, <1>2, LesserOfTwo
  <2>2. ASSUME NEW c \in [Ages -> Nat]
        PROVE  [a \in Ages |-> IF a = 0 THEN 0 ELSE c[a - 1]] \in [Ages -> Nat]
    <3>1. ASSUME NEW a \in Ages, a # 0 PROVE a - 1 \in Ages
        BY <3>1 DEF Ages
    <3> QED BY <3>1
  <2> QED BY <1>2, <2>1, <2>2 DEF Older, Machines
<1>6. get_retry_delay(m) \in Nat
    BY <1>1, <1>2 DEF get_retry_delay, DelayOver
<1> QED BY <1>3, <1>4, <1>5, <1>6

\* A 429 starts a delay that is no shorter than the Retry-After it came with,
\* up to max_retry_after.
LEMMA DelayCovers429 ==
    ASSUME NEW m \in Machines, NEW after \in RetryAfters
    PROVE  /\ handle_429(m, after) \in Machines
           /\ after # NoHeader =>
                get_retry_delay(handle_429(m, after)) = Min({after, MaxRetryAfter})
<1> USE RateLimitAssumption, ClientAssumption
<1> DEFINE delay == IF after = NoHeader THEN Min({BackoffCap, 2 * m.delay})
                    ELSE Min({after, MaxRetryAfter})
           n == handle_429(m, after)
<1>1. MaxDelay \in Nat /\ MaxRetryAfter <= MaxDelay /\ BackoffCap <= MaxDelay /\ 0 \in Ages
    BY GreaterOfTwo DEF MaxDelay, Ages
<1>2. m.delay \in 0..MaxDelay /\ m.errors \in [Ages -> Nat]
    BY DEF Machines
<1>3. delay \in 0..MaxDelay
  <2>1. CASE after = NoHeader
    <3>1. 2 * m.delay \in Nat
        BY <1>1, <1>2
    <3> QED BY <1>1, <2>1, <3>1, LesserOfTwo
  <2>2. CASE after # NoHeader
    <3>1. after \in Nat
        BY <2>2
    <3> QED BY <1>1, <2>2, <3>1, LesserOfTwo
  <2> QED BY <2>1, <2>2
<1>4. n = [m EXCEPT !.state = "THROTTLE", !.errors[0] = @ + 1, !.since429 = 0,
                    !.delay = delay]
    BY DEF handle_429
<1>5. n \in Machines
  <2>1. n = [m EXCEPT !.state = "THROTTLE",
                      !.errors = [m.errors EXCEPT ![0] = @ + 1],
                      !.since429 = 0, !.delay = delay]
      BY <1>4
  <2>2. [m.errors EXCEPT ![0] = @ + 1] \in [Ages -> Nat]
      BY <1>2, CountedUp
  <2>3. "THROTTLE" \in States /\ 0 \in 0..MaxDelay
      BY <1>1 DEF States
  <2> HIDE DEF delay, n
  <2> QED BY <1>3, <2>1, <2>2, <2>3, MachineOf
<1>6. n.state = "THROTTLE" /\ n.since429 = 0 /\ n.delay = delay
    BY <1>4 DEF Machines
<1>7. get_retry_delay(n) = delay
    BY <1>1, <1>3, <1>6 DEF get_retry_delay, DelayOver
<1> QED BY <1>5, <1>7

(* The inductive invariant: time is only left of a Retry-After while the     *)
(* request sleeps for it, and never more of it than of the sleep.            *)
QuietInv ==
    \A t \in Tasks : IF pc[t] = "cooling" THEN quiet[t] <= timer[t] ELSE quiet[t] = 0

RetryInv == SlotInv /\ TypeOK /\ QuietInv

\* Entering the semaphore leaves all but the slots, the token and the sleep.
LEMMA EnterTypes ==
    ASSUME TypeOK, NEW t \in Tasks, Enter(t)
    PROVE  /\ tokens' \in 0..Capacity /\ blocked' \in Tasks \cup {Nobody}
           /\ attempt' \in [Tasks -> 0..Retries] /\ timer' \in [Tasks -> Nat]
           /\ \E p \in PCs \ {"cooling"} : pc' = [pc EXCEPT ![t] = p]
<1> USE ClientAssumption
<1>1. CASE slots > 0
    BY <1>1 DEF Enter, TypeOK
<1>2. CASE ~(slots > 0)
    BY <1>2 DEF Enter, TypeOK
<1> QED BY <1>1, <1>2

\* So does what follows a failure.
LEMMA RetryTypes ==
    ASSUME TypeOK, NEW t \in Tasks, RetryOrRaise(t)
    PROVE  /\ attempt' \in [Tasks -> 0..Retries] /\ timer' \in [Tasks -> Nat]
           /\ \E p \in PCs \ {"cooling"} : pc' = [pc EXCEPT ![t] = p]
<1> USE ClientAssumption
<1>1. CASE BackOff(t)
  <2>1. attempt[t] \in Nat /\ attempt[t] + 1 \in 0..Retries
      BY <1>1 DEF BackOff, TypeOK
  <2>2. RetryDelay * 2 ^ attempt[t] \in Nat
      BY <2>1, BackOffType
  <2> QED BY <1>1, <2>1, <2>2 DEF BackOff, TypeOK
<1>2. CASE GiveUp(t)
    BY <1>2 DEF GiveUp, Release, TypeOK
<1> QED BY <1>1, <1>2 DEF RetryOrRaise

\* A request that goes anywhere but to its sleep has no time left to wait.
LEMMA QuietKept ==
    ASSUME TypeOK, QuietInv, NEW t \in Tasks, NEW p \in PCs \ {"cooling"},
           pc' = [pc EXCEPT ![t] = p], quiet[t] = 0, UNCHANGED quiet,
           \A u \in Tasks \ {t} : timer'[u] = timer[u]
    PROVE  QuietInv'
BY DEF TypeOK, QuietInv

\* A tick takes as much from the sleep as from the time that is left.
LEMMA TickQuiet ==
    ASSUME TypeOK, QuietInv, Tick
    PROVE  TypeOK' /\ QuietInv'
<1> USE ClientAssumption
<1>1. sm' \in Machines
    BY MachineTypes DEF Tick, TypeOK
<1>2. tokens' \in 0..Capacity
  <2>1. tokens + Rate \in Nat /\ Capacity \in Nat
      BY DEF TypeOK
  <2> QED BY <2>1, LesserOfTwo DEF Tick
<1>3. timer' \in [Tasks -> Nat] /\ quiet' \in [Tasks -> Nat]
    BY DEF Tick, TypeOK, Less
<1>4. QuietInv'
    BY DEF Tick, TypeOK, QuietInv, Less
<1> QED BY <1>1, <1>2, <1>3, <1>4 DEF Tick, TypeOK

\* The answer 429 starts a sleep of at least its Retry-After.
LEMMA Quiet429 ==
    ASSUME TypeOK, QuietInv, NEW t \in Tasks, Handle429(t), slots' \in 0..Limit
    PROVE  TypeOK' /\ QuietInv'
<1> USE ClientAssumption, RateLimitAssumption
<1> DEFINE after == answer[t].after
<1>1. after \in RetryAfters /\ sm \in Machines
    BY DEF Handle429, TypeOK, Answers, NoAnswer
<1>2. sm' \in Machines /\ get_retry_delay(sm') \in Nat
    BY <1>1, DelayCovers429, MachineTypes DEF Handle429
<1>3. quiet' = [quiet EXCEPT ![t] = quiet'[t]] /\ quiet'[t] \in Nat
      /\ quiet'[t] <= get_retry_delay(sm')
  <2>1. CASE after = NoHeader
      BY <1>2, <2>1 DEF Handle429, TypeOK
  <2>2. CASE after # NoHeader
    <3>1. Min({after, MaxRetryAfter}) = get_retry_delay(sm')
        BY <1>1, <2>2, DelayCovers429 DEF Handle429
    <3> QED BY <1>2, <2>2, <3>1 DEF Handle429, TypeOK
  <2> QED BY <2>1, <2>2
<1>4. CASE get_retry_delay(sm') > 0
    BY <1>2, <1>3, <1>4 DEF Handle429, TypeOK, QuietInv
<1>5. CASE ~(get_retry_delay(sm') > 0)
  <2>1. RetryOrRaise(t) /\ tokens' = Capacity /\ quiet'[t] = 0
      BY <1>2, <1>3, <1>5 DEF Handle429
  <2>2. PICK p \in PCs \ {"cooling"} : pc' = [pc EXCEPT ![t] = p]
      BY <2>1, RetryTypes
  <2>3. TypeOK'
      BY <1>2, <1>3, <2>1, <2>2, RetryTypes DEF Handle429, TypeOK
  <2>4. \A u \in Tasks \ {t} : timer'[u] = timer[u]
      BY <2>1 DEF RetryOrRaise, BackOff, GiveUp, Release, TypeOK
  <2> QED BY <1>3, <2>1, <2>2, <2>3, <2>4 DEF TypeOK, QuietInv
<1> QED BY <1>4, <1>5

\* No step of a task, of a call or of the clock lets a request call early.
LEMMA RetryInvStep == RetryInv /\ [Next]_vars => RetryInv'
<1> SUFFICES ASSUME RetryInv, [Next]_vars PROVE RetryInv'
    OBVIOUS
<1> USE ClientAssumption
<1>1. SlotInv' /\ slots' \in 0..Limit
    BY SlotStep DEF RetryInv, SlotInv
<1>2. ASSUME NEW t \in Tasks, Begin(t) \/ Throttled(t) PROVE TypeOK' /\ QuietInv'
  <2>1. Enter(t) /\ UNCHANGED <<sm, answer, quiet>> /\ requests' \in 0..MaxRequests
        /\ pc[t] # "cooling"
      BY <1>2 DEF Begin, Throttled, RetryInv, TypeOK
  <2>2. PICK p \in PCs \ {"cooling"} : pc' = [pc EXCEPT ![t] = p]
      BY <2>1, EnterTypes DEF RetryInv
  <2>3. TypeOK'
      BY <1>1, <2>1, <2>2, EnterTypes DEF RetryInv, TypeOK
  <2>4. \A u \in Tasks \ {t} : timer'[u] = timer[u]
      BY <2>1 DEF Enter, RetryInv, TypeOK
  <2> QED BY <2>1, <2>2, <2>3, <2>4, QuietKept DEF RetryInv, QuietInv
<1>3. ASSUME NEW t \in Tasks, BeginThrottled(t) PROVE TypeOK' /\ QuietInv'
  <2>1. get_retry_delay(sm) \in Nat
      BY MachineTypes DEF RetryInv, TypeOK
  <2> QED BY <1>1, <1>3, <2>1 DEF BeginThrottled, RetryInv, TypeOK, QuietInv
<1>4. ASSUME NEW t \in Tasks, AcquireTimesOut(t) PROVE TypeOK' /\ QuietInv'
  <2>1. pc[t] = "acquiring"
      BY <1>4 DEF AcquireTimesOut, RetryInv, SlotInv
  <2> QED BY <1>1, <1>4, <2>1 DEF AcquireTimesOut, RetryInv, TypeOK, QuietInv
<1>5. ASSUME NEW t \in Tasks, PollGetsToken(t) \/ Retry(t) PROVE TypeOK' /\ QuietInv'
    BY <1>1, <1>5 DEF PollGetsToken, Retry, RetryInv, TypeOK, QuietInv
<1>6. ASSUME NEW t \in Tasks, NEW a \in Answers, Answer(t, a) PROVE TypeOK' /\ QuietInv'
    BY <1>1, <1>6 DEF Answer, RetryInv, TypeOK, QuietInv
<1>7. ASSUME NEW t \in Tasks, HandleSuccess(t) \/ HandleCrash(t) PROVE TypeOK' /\ QuietInv'
  <2>1. sm' \in Machines
      BY <1>7, MachineTypes DEF HandleSuccess, HandleCrash, RetryInv, TypeOK
  <2> QED BY <1>1, <1>7, <2>1
          DEF HandleSuccess, HandleCrash, Answered, Release, RetryInv, TypeOK, QuietInv
<1>8. ASSUME NEW t \in Tasks, HandleError(t) \/ Cooled(t) PROVE TypeOK' /\ QuietInv'
  <2>1. RetryOrRaise(t) /\ quiet[t] = 0 /\ UNCHANGED <<blocked, answer, quiet, requests>>
      BY <1>8 DEF HandleError, Cooled, Answered, RetryInv, TypeOK, QuietInv
  <2>2. sm' \in Machines /\ tokens' \in 0..Capacity
      BY <1>8, MachineTypes DEF HandleError, Cooled, RetryInv, TypeOK
  <2>3. PICK p \in PCs \ {"cooling"} : pc' = [pc EXCEPT ![t] = p]
      BY <2>1, RetryTypes DEF RetryInv
  <2>4. TypeOK'
      BY <1>1, <2>1, <2>2, <2>3, RetryTypes DEF RetryInv, TypeOK
  <2>5. \A u \in Tasks \ {t} : timer'[u] = timer[u]
      BY <2>1 DEF RetryOrRaise, BackOff, GiveUp, Release, RetryInv, TypeOK
  <2> QED BY <2>1, <2>3, <2>4, <2>5, QuietKept DEF RetryInv
<1>9. ASSUME NEW t \in Tasks, Handle429(t) PROVE TypeOK' /\ QuietInv'
    BY <1>1, <1>9, Quiet429 DEF RetryInv
<1>10. CASE Tick
    BY <1>1, <1>10, TickQuiet DEF RetryInv
<1>11. CASE UNCHANGED vars
    BY <1>1, <1>11 DEF vars, RetryInv, TypeOK, QuietInv
<1> QED
    BY <1>1, <1>2, <1>3, <1>4, <1>5, <1>6, <1>7, <1>8, <1>9, <1>10, <1>11
    DEF Next, Handle, Wake, Call, RetryInv

\* At first nobody waits, and the machine is one.
LEMMA RetryInit == Init => RetryInv
<1> SUFFICES ASSUME Init PROVE RetryInv
    OBVIOUS
<1> USE ClientAssumption, RateLimitAssumption
<1>1. Holders = {} /\ Cardinality({}) = 0
    BY FS_EmptySet DEF Init, Holders
<1>2. SlotInv
    BY <1>1 DEF Init, SlotInv, SlotsConserved
<1>3. NewMachine \in Machines
    BY GreaterOfTwo DEF NewMachine, NoneYet, Machines, States, MaxDelay
<1>4. TypeOK
    BY <1>2, <1>3 DEF Init, TypeOK, SlotInv
<1> QED BY <1>2, <1>4 DEF Init, RetryInv, QuietInv

\* Through throttling, cooling, retries and their back-off no request calls
\* TMDB again before the Retry-After it was given is over.
THEOREM RetryAfterKept == Spec => []OwnRetryAfter
<1>1. RetryInv => OwnRetryAfter
    BY DEF RetryInv, QuietInv, OwnRetryAfter
<1> QED BY <1>1, RetryInit, RetryInvStep, PTL DEF Spec
=============================================================================
