----------------------------- MODULE MCSimQueue -----------------------------
(***************************************************************************)
(* SimQueue for TLC: three packets through queues of one or three places,     *)
(* with latencies 0, 1 and 3, so that entries of different latencies wait   *)
(* behind each other, the queue fills, and a capacity changes under load.   *)
(***************************************************************************)
EXTENDS SimQueue, TLC

CONSTANTS p1, p2, p3

MCPackets   == {p1, p2, p3}
MCSizes     == {1, 3}
MCLatencies == {0, 1, 3}

\* The smaller instance for liveness, which is checked without symmetry.
MCTwoPackets   == {p1, p2}
MCOneSize      == {2}
MCTwoLatencies == {0, 2}

Symmetry == Permutations(MCPackets)
=============================================================================
