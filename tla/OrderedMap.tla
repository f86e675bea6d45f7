----------------------------- MODULE OrderedMap -----------------------------
(* What LinkedHashTable promises: a map that keeps the order in which its    *)
(* keys came first; a key that is removed and comes back goes to the end.    *)
(* FileGrouper's Get, Put and Without are these operations as operators.     *)
EXTENDS Naturals, SequencesExt

CONSTANTS Keys, Values, None

VARIABLES
    rows,    \* sequence of [key, value]
    answer   \* what the last operation returned

mapVars == <<rows, answer>>

Place(k) == SelectInSeq(rows, LAMBDA r : r.key = k)
Value(k) == IF Place(k) = 0 THEN None ELSE rows[Place(k)].value

MapInit == rows = <<>> /\ answer = None

MapPut(k, v) ==
    /\ answer' = Value(k)
    /\ rows' = IF Place(k) = 0 THEN Append(rows, [key |-> k, value |-> v])
               ELSE [rows EXCEPT ![Place(k)].value = v]

MapGet(k) == answer' = Value(k) /\ UNCHANGED rows

MapRemove(k) ==
    /\ answer' = Value(k)
    /\ rows' = IF Place(k) = 0 THEN rows ELSE RemoveAt(rows, Place(k))

MapClear == rows' = <<>> /\ answer' = None

MapNext ==
    \/ \E k \in Keys, v \in Values : MapPut(k, v)
    \/ \E k \in Keys : MapGet(k) \/ MapRemove(k)
    \/ MapClear

MapSpec == MapInit /\ [][MapNext]_mapVars
=============================================================================
