----------------------------- MODULE MCLogScan -----------------------------
(* Small directories for the runs of LogScan. *)
EXTENDS LogScan, TLC

CONSTANTS t1, t2, f1, f2, f3, u1, u2, r1, r2

Hit(u, r, n) == [url |-> u, referer |-> r, size |-> n]

\* Two files that share a URL and a referer, one with a malformed line.
MCLog2 == (f1 :> <<Hit(u1, r1, 1), Hit(u2, r1, 0)>>) @@ (f2 :> <<Malformed, Hit(u1, r1, 1)>>)

\* Three files, the last one without a single well-formed line of any size.
MCLog3 == (f1 :> <<Hit(u1, r1, 1)>>) @@ (f2 :> <<Hit(u1, r2, 1)>>) @@ (f3 :> <<Malformed>>)

Symmetry == Permutations(Threads)
=============================================================================
