---------------------------- MODULE MCScanCache ----------------------------
(* Three nested directories for the model checker.                         *)
EXTENDS ScanCache

CONSTANTS Inner, Leaf

MCParent == (Inner :> Root) @@ (Leaf :> Inner)
=============================================================================
