------------------------------ MODULE FileBatch ------------------------------
(***************************************************************************)
(* What run_pipeline promises its caller (domain/orchestrator.py): the     *)
(* files of a directory are decided one at a time, each at most once,      *)
(* either collected or dropped with a failure counted; a normal return     *)
(* hands over the files collected at that moment, and no other ending      *)
(* hands over any.  Threads and queues are left out.                       *)
(***************************************************************************)
CONSTANT Files

VARIABLES
    outcome,    \* "none" while it runs, then "ok", "error" or "interrupted"
    report,     \* what run_pipeline returns
    collected, dropped

Init == outcome = "none" /\ report = {} /\ collected = {} /\ dropped = {}

Undecided == Files \ (collected \cup dropped)

Collect(f) ==
    /\ f \in Undecided
    /\ collected' = collected \cup {f}
    /\ UNCHANGED <<outcome, report, dropped>>

Drop(f) ==
    /\ f \in Undecided
    /\ dropped' = dropped \cup {f}
    /\ UNCHANGED <<outcome, report, collected>>

Return ==
    /\ outcome = "none"
    /\ outcome' = "ok" /\ report' = collected
    /\ UNCHANGED <<collected, dropped>>

\* An interrupt may also cut short the handling of an error.
Abandon ==
    /\ \/ outcome = "none" /\ outcome' = "error"
       \/ outcome \in {"none", "error"} /\ outcome' = "interrupted"
    /\ UNCHANGED <<report, collected, dropped>>

Next == Return \/ Abandon \/ \E f \in Files : Collect(f) \/ Drop(f)

Spec == Init /\ [][Next]_<<outcome, report, collected, dropped>>
=============================================================================
