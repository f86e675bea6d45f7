---------------------------- MODULE RateLimitStates ----------------------------
(***************************************************************************)
(* RateLimitStateMachine of anivault/infrastructure/state_machine.py as    *)
(* operators on its state, each method under its lock.                     *)
(*                                                                         *)
(* Instead of timestamps a record keeps ages in ticks: how many errors and *)
(* successes are 0, 1, .. Window ticks old (older ones are cleaned away    *)
(* before they are counted), and the age of the last 429, which stops      *)
(* counting when no delay can be longer.  SLEEP_THEN_RESUME is never       *)
(* entered by the code and is left out.                                    *)
(***************************************************************************)
EXTENDS Naturals, FiniteSetsExt

CONSTANTS
    Window,         \* time_window
    MinRequests,    \* the 10 of _should_trigger_circuit_breaker
    Threshold,      \* error_threshold, in percent
    MaxRetryAfter,  \* max_retry_after
    BackoffCap,     \* the 60.0 of handle_429
    NoHeader        \* a 429 without a Retry-After header

ASSUME RateLimitAssumption ==
    /\ Window \in Nat /\ MinRequests \in Nat \ {0} /\ Threshold \in 0..100
    /\ MaxRetryAfter \in Nat /\ BackoffCap \in Nat
    /\ NoHeader \notin Nat

Ages     == 0..Window
MaxDelay == Max({MaxRetryAfter, BackoffCap})
States   == {"NORMAL", "THROTTLE", "CACHE_ONLY"}

Machines == [state: States, errors: [Ages -> Nat], successes: [Ages -> Nat],
             since429: 0..MaxDelay, delay: 0..MaxDelay]

NoneYet == [a \in Ages |-> 0]

NewMachine == [state |-> "NORMAL", errors |-> NoneYet, successes |-> NoneYet,
               since429 |-> MaxDelay, delay |-> 0]

Total(counts) == MapThenSumSet(LAMBDA a : counts[a], Ages)

\* _should_trigger_circuit_breaker
Tripped(m) ==
    LET e == Total(m.errors)
        n == e + Total(m.successes)
    IN  e > 0 /\ n >= MinRequests /\ 100 * e >= Threshold * n

DelayOver(m) == m.since429 >= m.delay

should_make_request(m) ==
    /\ m.state # "CACHE_ONLY"
    /\ m.state = "THROTTLE" => DelayOver(m)

get_retry_delay(m) ==
    IF m.state = "THROTTLE" /\ ~DelayOver(m) THEN m.delay - m.since429 ELSE 0

handle_429(m, retry_after) ==
    [m EXCEPT !.state = "THROTTLE", !.errors[0] = @ + 1, !.since429 = 0,
              !.delay = IF retry_after = NoHeader
                        THEN Min({BackoffCap, 2 * @})
                        ELSE Min({retry_after, MaxRetryAfter})]

handle_success(m) ==
    LET n == [m EXCEPT !.successes[0] = @ + 1]
    IN  IF n.state = "THROTTLE" /\ DelayOver(n)
        THEN [n EXCEPT !.state = "NORMAL", !.delay = 0]
        ELSE n

\* For every status but 429, with which the client never calls it.
handle_error(m) ==
    LET n == [m EXCEPT !.errors[0] = @ + 1]
    IN  IF Tripped(n) THEN [n EXCEPT !.state = "CACHE_ONLY"] ELSE n

\* A tick later: everything is older, what leaves the window is forgotten.
Older(m) ==
    LET Shift(c) == [a \in Ages |-> IF a = 0 THEN 0 ELSE c[a - 1]]
    IN  [m EXCEPT !.errors = Shift(@), !.successes = Shift(@),
                  !.since429 = Min({MaxDelay, @ + 1})]
=============================================================================
