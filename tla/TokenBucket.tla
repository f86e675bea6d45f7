----------------------------- MODULE TokenBucket -----------------------------
(***************************************************************************)
(* TokenBucketRateLimiter (anivault/infrastructure/rate_limiter.py), used  *)
(* by any number of threads; every method works under its lock and is one  *)
(* step.  Tokens flow in only when somebody asks for them.  The wall clock *)
(* the code reads, time.time(), goes on in ticks and may be set back; a    *)
(* clock that jumps ahead is left out, since it does hand out too much.    *)
(***************************************************************************)
EXTENDS Integers

CONSTANTS
    Capacity,
    Rate,       \* refill_rate, in tokens a tick
    MaxClock,   \* bound of the model: how far the clock goes
    MaxWindow   \* bound of the model: how long a window is watched

ASSUME BucketAssumption ==
    /\ Capacity \in Nat \ {0} /\ Rate \in Nat \ {0}
    /\ MaxClock \in Nat /\ MaxWindow \in Nat

VARIABLES
    tokens, last_refill,
    clock,      \* time.time()
    elapsed,    \* history: real time since the watched window opened
    granted     \* history: tokens handed out in that window

bucketVars == <<tokens, last_refill, clock, elapsed, granted>>

Lesser(a, b) == IF a <= b THEN a ELSE b

BucketInit ==
    /\ tokens = Capacity /\ last_refill = 0 /\ clock = 0
    /\ elapsed = 0 /\ granted = 0

-----------------------------------------------------------------------------
(* _refill, with which every method but reset begins.                        *)

Filled(have, since) ==
    IF since > 0 THEN Lesser(Capacity, have + Rate * since) ELSE have

Held == Filled(tokens, clock - last_refill)

\* Mutant: the time of the refill is not noted.
FilledAtUnnoted == last_refill

\* While the clock is behind, last_refill waits for it.
FilledAt == IF clock > last_refill THEN clock ELSE last_refill

try_acquire(n) ==
    /\ last_refill' = FilledAt
    /\ IF Held >= n
       THEN tokens' = Held - n /\ granted' = granted + n
       ELSE tokens' = Held /\ UNCHANGED granted
    /\ UNCHANGED <<clock, elapsed>>

get_tokens_available ==
    /\ tokens' = Held /\ last_refill' = FilledAt
    /\ UNCHANGED <<clock, elapsed, granted>>

\* A full bucket again: what a window is worth starts anew.
reset ==
    /\ tokens' = Capacity /\ last_refill' = clock
    /\ elapsed' = 0 /\ granted' = 0
    /\ UNCHANGED clock

-----------------------------------------------------------------------------
Tick ==
    /\ clock < MaxClock /\ elapsed < MaxWindow
    /\ clock' = clock + 1 /\ elapsed' = elapsed + 1
    /\ UNCHANGED <<tokens, last_refill, granted>>

ClockSetBack(c) ==
    /\ c < clock
    /\ clock' = c
    /\ UNCHANGED <<tokens, last_refill, elapsed, granted>>

\* The window that is watched may open at any time.
OpenWindow ==
    /\ elapsed' = 0 /\ granted' = 0
    /\ UNCHANGED <<tokens, last_refill, clock>>

BucketNext ==
    \/ \E n \in 1..Capacity : try_acquire(n)
    \/ get_tokens_available \/ reset
    \/ Tick \/ OpenWindow
    \/ \E c \in 0..MaxClock : ClockSetBack(c)

BucketSpec == BucketInit /\ [][BucketNext]_bucketVars

-----------------------------------------------------------------------------
\* The bucket never holds more than its capacity.
BucketTypeOK ==
    /\ tokens \in 0..Capacity /\ last_refill \in Nat /\ clock \in Nat
    /\ elapsed \in Nat /\ granted \in Nat

(* In any stretch of time without a reset, whatever the requests and however *)
(* the clock is set back in it, no more tokens are handed out than the       *)
(* bucket holds plus what flows in during that time.                         *)
WindowBound == granted <= Capacity + Rate * elapsed

\* The inductive invariant: what the bucket would hold now counts as well.
BucketInv == BucketTypeOK /\ granted + Held <= Capacity + Rate * elapsed
=============================================================================
