---------------------------- MODULE MCRingBuffer ----------------------------
(* Small buffers and short calls for the runs of RingBuffer. *)
EXTENDS RingBuffer, TLC

CONSTANTS t1, t2, byte1, byte2

\* A write shorter than every buffer but one, and one longer than the default.
MCWrites == {<<byte1>>, <<byte2, byte1, byte2>>}

\* For the liveness run one write that fits.
MCShortWrites == {<<byte1>>}

Symmetry == Permutations(Tasks)
=============================================================================
