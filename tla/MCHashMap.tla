----------------------------- MODULE MCHashMap -----------------------------
(* A small hash for the runs of HashMap: keys that share a home and keys    *)
(* that part only in a larger table.                                        *)
EXTENDS HashMap, TLC

CONSTANTS k1, k2, k3, k4, k5, k6

\* With a window of two, k1, k2 and k3 never fit into one table.
MCHashSame ==
  [k \in Keys |-> (k1 :> 27 @@ k2 :> 27 @@ k3 :> 27 @@ k4 :> 28)[k]]

\* Neighbours: every table has windows that overlap, the larger the fewer.
MCHashNear ==
  k1 :> 3 @@ k2 :> 3 @@ k3 :> 4 @@ k4 :> 12 @@ k5 :> 5 @@ k6 :> 6
=============================================================================
