--------------------------- MODULE MCParallelScan ---------------------------
\* The parallel scanners with the lock that they give to their updater.
EXTENDS ParallelScan, TLC

MCFilesOf == "d1" :> {"a"} @@ "d2" :> {"b"}
=============================================================================
