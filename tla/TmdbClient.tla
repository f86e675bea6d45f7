------------------------------ MODULE TmdbClient ------------------------------
(***************************************************************************)
(* TMDBClient._make_request (anivault/infrastructure/tmdb/tmdb_client.py)  *)
(* as run by several asyncio tasks of one event loop: the state machine,   *)
(* SemaphoreManager and TokenBucketRateLimiter around the calls to TMDB.   *)
(*                                                                         *)
(* A task runs alone from one await to the next, so everything between two *)
(* awaits is one step.  The exception is SemaphoreManager.acquire, which   *)
(* waits on a threading.Semaphore: it stops the whole loop.  The calls run *)
(* in threads of their own, so an answer can come while the loop stands.   *)
(* Time goes in ticks; the 0.1 s poll for a token is shorter than a tick.  *)
(***************************************************************************)
EXTENDS RateLimitStates, FiniteSets

CONSTANTS
    Tasks,
    Limit,          \* concurrent_requests
    Capacity, Rate, \* of the token bucket: rate_limit_rps
    Retries,        \* retry_attempts
    RetryDelay,     \* retry_delay
    RetryAfters,    \* the Retry-After values a 429 may carry
    AcquireTimeout, \* the 30 s of SemaphoreManager.acquire
    MaxRequests,    \* bound of the model: requests that get past the checks
    Nobody          \* the loop is not blocked

ASSUME ClientAssumption ==
    /\ IsFiniteSet(Tasks) /\ Nobody \notin Tasks
    /\ Limit \in Nat \ {0} /\ Capacity \in Nat \ {0} /\ Rate \in Nat \ {0}
    /\ Retries \in Nat /\ RetryDelay \in Nat /\ AcquireTimeout \in Nat
    /\ RetryAfters \subseteq Nat \cup {NoHeader} /\ MaxRequests \in Nat

VARIABLES
    sm,         \* the state machine
    slots,      \* SemaphoreManager._semaphore._value
    tokens,     \* of the bucket, refilled as time goes
    blocked,    \* the task inside acquire() that holds the loop up
    pc,         \* where each task is in _make_request
    attempt,
    timer,      \* ticks the task still sleeps, or acquire() still waits
    answer,     \* what the call in the task's thread came back with
    quiet,      \* history: ticks left of the Retry-After the task was given
    requests    \* requests that got past the checks

vars == <<sm, slots, tokens, blocked, pc, attempt, timer, answer, quiet, requests>>

PCs     == {"idle", "throttled", "acquiring", "polling", "calling", "answered",
            "cooling", "backoff"}
Holding == {"polling", "calling", "answered", "cooling", "backoff"}
Answers == [kind: {"success", "error", "crash"}, after: {NoHeader}]
             \cup [kind: {"429"}, after: RetryAfters]

NoAnswer == [kind |-> "none", after |-> NoHeader]

Init ==
    /\ sm = NewMachine /\ slots = Limit /\ tokens = Capacity /\ blocked = Nobody
    /\ pc = [t \in Tasks |-> "idle"] /\ attempt = [t \in Tasks |-> 0]
    /\ timer = [t \in Tasks |-> 0] /\ answer = [t \in Tasks |-> NoAnswer]
    /\ quiet = [t \in Tasks |-> 0] /\ requests = 0

LoopFree == blocked = Nobody

-----------------------------------------------------------------------------
\* __aenter__ and the first try_acquire of _apply_rate_limiting: the slot and
\* the token are taken at once when there are any.
Enter(t) ==
    /\ attempt' = [attempt EXCEPT ![t] = 0]
    /\ IF slots > 0
       THEN /\ slots' = slots - 1
            /\ pc' = [pc EXCEPT ![t] = IF tokens > 0 THEN "calling" ELSE "polling"]
            /\ tokens' = IF tokens > 0 THEN tokens - 1 ELSE tokens
            /\ timer' = [timer EXCEPT ![t] = 0]
            /\ UNCHANGED blocked
       ELSE /\ pc' = [pc EXCEPT ![t] = "acquiring"]
            /\ blocked' = t
            /\ timer' = [timer EXCEPT ![t] = AcquireTimeout]
            /\ UNCHANGED <<slots, tokens>>

\* _check_request_permissibility lets the request through ...
Begin(t) ==
    /\ LoopFree /\ pc[t] = "idle" /\ requests < MaxRequests
    /\ should_make_request(sm)
    /\ Enter(t)
    /\ requests' = requests + 1
    /\ UNCHANGED <<sm, answer, quiet>>

\* ... or sleeps once, for the delay that is left; cache-only mode raises.
BeginThrottled(t) ==
    /\ LoopFree /\ pc[t] = "idle" /\ requests < MaxRequests
    /\ sm.state # "CACHE_ONLY" /\ ~should_make_request(sm)
    /\ pc' = [pc EXCEPT ![t] = "throttled"]
    /\ timer' = [timer EXCEPT ![t] = get_retry_delay(sm)]
    /\ requests' = requests + 1
    /\ UNCHANGED <<sm, slots, tokens, blocked, attempt, answer, quiet>>

Throttled(t) ==
    /\ LoopFree /\ pc[t] = "throttled" /\ timer[t] = 0
    /\ Enter(t)
    /\ UNCHANGED <<sm, answer, quiet, requests>>

\* Mutant: acquire() without a timeout.
AcquireWaits(t) ==
    /\ blocked = t /\ timer[t] = 0 /\ slots > 0
    /\ blocked' = Nobody /\ pc' = [pc EXCEPT ![t] = "idle"]
    /\ UNCHANGED <<sm, slots, tokens, attempt, timer, answer, quiet, requests>>

\* Nobody can release a slot while acquire() stops their loop: it times out,
\* __aenter__ raises and the request ends.
AcquireTimesOut(t) ==
    /\ blocked = t /\ timer[t] = 0
    /\ blocked' = Nobody /\ pc' = [pc EXCEPT ![t] = "idle"]
    /\ UNCHANGED <<sm, slots, tokens, attempt, timer, answer, quiet, requests>>

PollGetsToken(t) ==
    /\ LoopFree /\ pc[t] = "polling" /\ tokens > 0
    /\ tokens' = tokens - 1
    /\ pc' = [pc EXCEPT ![t] = "calling"]
    /\ UNCHANGED <<sm, slots, blocked, attempt, timer, answer, quiet, requests>>

\* The thread of asyncio.to_thread is done, whatever the loop is doing.
Answer(t, a) ==
    /\ pc[t] = "calling"
    /\ answer' = [answer EXCEPT ![t] = a]
    /\ pc' = [pc EXCEPT ![t] = "answered"]
    /\ UNCHANGED <<sm, slots, tokens, blocked, attempt, timer, quiet, requests>>

-----------------------------------------------------------------------------
Release(t) ==
    /\ slots' = slots + 1
    /\ pc' = [pc EXCEPT ![t] = "idle"]
    /\ UNCHANGED <<attempt, timer>>

\* The end of _handle_tmdb_exception.
BackOff(t) ==
    /\ attempt[t] < Retries
    /\ attempt' = [attempt EXCEPT ![t] = @ + 1]
    /\ timer' = [timer EXCEPT ![t] = RetryDelay * 2 ^ attempt[t]]
    /\ pc' = [pc EXCEPT ![t] = "backoff"]
    /\ UNCHANGED slots

\* _handle_retry_exhaustion: whatever the last error was, it is raised.
GiveUp(t) == attempt[t] >= Retries /\ Release(t)

RetryOrRaise(t) == BackOff(t) \/ GiveUp(t)

Answered(t) == LoopFree /\ pc[t] = "answered"

HandleSuccess(t) ==
    /\ Answered(t) /\ answer[t].kind = "success"
    /\ sm' = handle_success(sm)
    /\ Release(t)
    /\ UNCHANGED <<tokens, blocked, answer, quiet, requests>>

\* Mutant: only the errors the client knows give the slot back.
HandleCrashKeepsSlot(t) ==
    /\ Answered(t) /\ answer[t].kind = "crash"
    /\ pc' = [pc EXCEPT ![t] = "idle"]
    /\ UNCHANGED <<sm, slots, tokens, blocked, attempt, timer, answer, quiet, requests>>

\* No TMDbException: it leaves through __aexit__, and the state machine never
\* hears of it.
HandleCrash(t) ==
    /\ Answered(t) /\ answer[t].kind = "crash"
    /\ Release(t)
    /\ UNCHANGED <<sm, tokens, blocked, answer, quiet, requests>>

HandleError(t) ==
    /\ Answered(t) /\ answer[t].kind = "error"
    /\ sm' = handle_error(sm)
    /\ RetryOrRaise(t)
    /\ UNCHANGED <<tokens, blocked, answer, quiet, requests>>

\* Mutant: the delay is noted but not slept.
Handle429Awake(t) ==
    /\ Answered(t) /\ answer[t].kind = "429"
    /\ sm' = handle_429(sm, answer[t].after)
    /\ quiet' = [quiet EXCEPT ![t] = IF answer[t].after = NoHeader THEN 0
                                     ELSE Min({answer[t].after, MaxRetryAfter})]
    /\ tokens' = Capacity /\ RetryOrRaise(t)
    /\ UNCHANGED <<blocked, answer, requests>>

\* The bucket is filled up after the delay, if there is one.
Handle429(t) ==
    /\ Answered(t) /\ answer[t].kind = "429"
    /\ sm' = handle_429(sm, answer[t].after)
    /\ quiet' = [quiet EXCEPT ![t] = IF answer[t].after = NoHeader THEN 0
                                     ELSE Min({answer[t].after, MaxRetryAfter})]
    /\ IF get_retry_delay(sm') > 0
       THEN /\ pc' = [pc EXCEPT ![t] = "cooling"]
            /\ timer' = [timer EXCEPT ![t] = get_retry_delay(sm')]
            /\ UNCHANGED <<slots, tokens, attempt>>
       ELSE tokens' = Capacity /\ RetryOrRaise(t)
    /\ UNCHANGED <<blocked, answer, requests>>

Cooled(t) ==
    /\ LoopFree /\ pc[t] = "cooling" /\ timer[t] = 0
    /\ tokens' = Capacity
    /\ RetryOrRaise(t)
    /\ UNCHANGED <<sm, blocked, answer, quiet, requests>>

\* A retry asks neither the state machine nor the bucket.
Retry(t) ==
    /\ LoopFree /\ pc[t] = "backoff" /\ timer[t] = 0
    /\ pc' = [pc EXCEPT ![t] = "calling"]
    /\ UNCHANGED <<sm, slots, tokens, blocked, attempt, timer, answer, quiet, requests>>

-----------------------------------------------------------------------------
Less(n) == IF n = 0 THEN 0 ELSE n - 1

Tick ==
    /\ sm' = Older(sm)
    /\ tokens' = Min({Capacity, tokens + Rate})
    /\ timer' = [t \in Tasks |-> Less(timer[t])]
    /\ quiet' = [t \in Tasks |-> Less(quiet[t])]
    /\ UNCHANGED <<slots, blocked, pc, attempt, answer, requests>>

Handle(t) == HandleSuccess(t) \/ HandleCrash(t) \/ HandleError(t) \/ Handle429(t)
Wake(t)   == Throttled(t) \/ AcquireTimesOut(t) \/ PollGetsToken(t) \/ Cooled(t) \/ Retry(t)
Call(t)   == \E a \in Answers : Answer(t, a)

Next ==
    \/ Tick
    \/ \E t \in Tasks : Begin(t) \/ BeginThrottled(t) \/ Handle(t) \/ Wake(t) \/ Call(t)

Spec == Init /\ [][Next]_vars

(* Time goes on, TMDB answers, and the loop, whose ready queue is first in   *)
(* first out, gets to every task that stays ready.                           *)
Fairness ==
    /\ WF_vars(Tick)
    /\ \A t \in Tasks : WF_vars(Call(t)) /\ WF_vars(Handle(t)) /\ WF_vars(Wake(t))

FairSpec == Spec /\ Fairness

-----------------------------------------------------------------------------
TypeOK ==
    /\ sm \in Machines /\ slots \in 0..Limit /\ tokens \in 0..Capacity
    /\ blocked \in Tasks \cup {Nobody}
    /\ pc \in [Tasks -> PCs] /\ attempt \in [Tasks -> 0..Retries]
    /\ timer \in [Tasks -> Nat] /\ quiet \in [Tasks -> Nat]
    /\ answer \in [Tasks -> Answers \cup {NoAnswer}] /\ requests \in 0..MaxRequests

Holders == {t \in Tasks : pc[t] \in Holding}

(* Whatever way a request ends, its slot comes back: the free slots and the  *)
(* requests that hold one always add up to concurrent_requests.              *)
SlotsConserved == slots + Cardinality(Holders) = Limit

(* A request that TMDB told to come back later does not call again, through  *)
(* all its sleeps, before that time is over; every variable keeps its type.  *)
OwnRetryAfter == TypeOK /\ \A t \in Tasks : pc[t] = "calling" => quiet[t] = 0

(* Every request ends, even while others stop the loop in acquire(), wait    *)
(* for tokens or cool down.                                                  *)
RequestsEnd == \A t \in Tasks : pc[t] # "idle" ~> pc[t] = "idle"

-----------------------------------------------------------------------------
(* What the documentation of the code says and the code does not do.         *)

\* RateLimitStateMachine: "circuit breaker patterns and automatic recovery".
BreakerRecovers == sm.state = "CACHE_ONLY" ~> sm.state # "CACHE_ONLY"
=============================================================================
