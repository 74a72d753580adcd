------------------------- MODULE MCAnalyticsRefresh -------------------------
(* Small instances of AnalyticsRefresh for TLC. *)
EXTENDS AnalyticsRefresh, TLC

CONSTANTS b1, b2, r

\* The first batch reaches back into the period of the second.
Windows == [ j \in Jobs |-> IF j = b1 THEN Batches ELSE Batches \ { b1 } ]

\* A recomputation on request covers everything.
WholeWindow == [ j \in Jobs |-> Batches ]

ThreadSymmetry == Permutations(Threads)
ConnSymmetry == Permutations(Conns)
PoolSymmetry == ThreadSymmetry \cup ConnSymmetry
=============================================================================
